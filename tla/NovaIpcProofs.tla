--------------------------- MODULE NovaIpcProofs ---------------------------
(***************************************************************************)
(* Proofs about NovaIpc for every number of clients, every table size,      *)
(* every backlog and every set of services.                                 *)
(***************************************************************************)
EXTENDS NovaIpc, TLAPS

InLoop == pc \notin {"created", "returned", "destroyed", "killed"}
Serving == pc \in {"recvHdr", "recvBody", "handle", "replyHdr", "replyBody"}

\* The part of TypeOK that the client table depends on.
TableTypes ==
  /\ pc \in ServerPcs
  /\ clientFds \in [Slots -> Fds] /\ nClients \in 0 .. MaxClients
  /\ fdTab \in [Fds -> Conns \cup {NoConn}]
  /\ rfds \in SUBSET Fds /\ idx \in 0 .. MaxClients
  /\ backlog \in Seq(Conns)
  /\ srvEnd \in [Conns -> {"none", "open", "closed"}]
  /\ cli \in [Conns -> ClientStates]
  /\ c2s \in [Conns -> Seq(ReqPart)]
  /\ call \in [Conns -> 0 .. MaxCalls]

\* client_fds[0 .. n_clients-1] are distinct and are exactly the open descriptors.
TableExact ==
  /\ InLoop => /\ \A i, j \in 0 .. nClients - 1 : clientFds[i] = clientFds[j] => i = j
               /\ \A i \in 0 .. nClients - 1 : fdTab[clientFds[i]] # NoConn
               /\ \A fd \in Fds : fdTab[fd] # NoConn => \E i \in 0 .. nClients - 1 : clientFds[i] = fd
  /\ ~InLoop => \A fd \in Fds : fdTab[fd] = NoConn
  /\ Serving => idx < nClients

\* Descriptors and connections correspond one to one.
OwnersExact ==
  /\ \A f, g \in Fds : fdTab[f] = fdTab[g] /\ fdTab[f] # NoConn => f = g
  /\ \A f \in Fds : fdTab[f] # NoConn => srvEnd[fdTab[f]] = "open"
  /\ \A c \in Conns : srvEnd[c] = "open" => \E f \in Fds : fdTab[f] = c

\* A queued connection is nobody's yet, is queued once, and was made by connect().
BacklogFresh ==
  /\ \A i \in 1 .. Len(backlog) : srvEnd[backlog[i]] = "none" /\ cli[backlog[i]] # "new"
  /\ \A i, j \in 1 .. Len(backlog) : backlog[i] = backlog[j] => i = j
  /\ \A c \in Conns : cli[c] = "new" => srvEnd[c] = "none"

\* A descriptor the scan has not reached yet is as readable as select() said.
ReportsHold ==
  /\ pc = "accept" => \A fd \in rfds : \E i \in 0 .. nClients - 1 : clientFds[i] = fd
  /\ \A i \in 0 .. nClients - 1 :
       /\ \/ pc = "accept"
          \/ pc = "scan" /\ i >= idx
          \/ Serving /\ i > idx
          \/ pc = "recvHdr" /\ i = idx
       /\ clientFds[i] \in rfds \/ (pc = "recvHdr" /\ i = idx)
       => Readable(fdTab[clientFds[i]])

TableInv == TableTypes /\ TableExact /\ OwnersExact /\ BacklogFresh /\ ReportsHold

USE ConnAssumption, SizeAssumption DEF Fds, Slots, ServerPcs, ClientStates

(* The initial state has an empty, consistent table. *)
LEMMA InitTable == Init => TableInv
BY DEF Init, TableInv, TableTypes, TableExact, OwnersExact, BacklogFresh, ReportsHold, InLoop, Serving

(* What Head, Tail and Append do to a sequence. *)
LEMMA TailFacts ==
  ASSUME NEW S, NEW s \in Seq(S), s # <<>>
  PROVE  /\ Len(s) \in Nat \ {0} /\ Head(s) = s[1] /\ Head(s) \in S
         /\ Tail(s) \in Seq(S) /\ Len(Tail(s)) = Len(s) - 1
         /\ \A i \in 1 .. Len(s) - 1 : Tail(s)[i] = s[i + 1]
OBVIOUS

LEMMA AppendFacts ==
  ASSUME NEW S, NEW s \in Seq(S), NEW x \in S
  PROVE  /\ Len(s) \in Nat /\ Append(s, x) \in Seq(S) /\ Len(Append(s, x)) = Len(s) + 1
         /\ Append(s, x) # <<>> /\ Append(s, x)[Len(s) + 1] = x
         /\ \A i \in 1 .. Len(s) : Append(s, x)[i] = s[i]
OBVIOUS

(* A step of a connected client that leaves the server and the queue alone: it  *)
(* may only write to its stream, or stop being open.                            *)
LEMMA ClientFrame ==
  ASSUME TableInv,
         UNCHANGED <<serverVars, backlog, srvEnd>>,
         cli' \in [Conns -> ClientStates], call' \in [Conns -> 0 .. MaxCalls],
         c2s' \in [Conns -> Seq(ReqPart)],
         \A d \in Conns : c2s[d] # <<>> => c2s'[d] # <<>>,
         \A d \in Conns : cli'[d] = "new" => cli[d] = "new",
         \A d \in Conns : CliOpen(d)' => CliOpen(d)
  PROVE  TableInv'
<1>t. TableTypes
  BY DEF TableInv
<1>e. TableExact
  BY DEF TableInv
<1>o. OwnersExact
  BY DEF TableInv
<1>b. BacklogFresh
  BY DEF TableInv
<1>r. ReportsHold
  BY DEF TableInv
<1>0. \A d \in Conns : Readable(d) => Readable(d)'
  BY DEF Readable
<1>1. \A i \in 1 .. Len(backlog) : backlog[i] \in Conns
  BY <1>t DEF TableTypes
<1>2. TableTypes'
  BY <1>t DEF TableTypes, serverVars
<1>3. TableExact'
  BY <1>e DEF TableExact, InLoop, Serving, serverVars
<1>4. OwnersExact'
  BY <1>o DEF OwnersExact, serverVars
<1>5. BacklogFresh'
  BY <1>1, <1>b DEF BacklogFresh
<1>6. ReportsHold'
  BY SMTT(30), <1>t, <1>e, <1>r, <1>0 DEF TableTypes, TableExact, ReportsHold, InLoop, Serving, serverVars
<1> QED
  BY <1>2, <1>3, <1>4, <1>5, <1>6 DEF TableInv

(* What a client does never disturbs the server's table. *)
LEMMA ClientTable ==
  ASSUME TableInv, NEW c \in Conns, ClientStep(c) PROVE TableInv'
<1>t. TableTypes
  BY DEF TableInv
<1>e. TableExact
  BY DEF TableInv
<1>o. OwnersExact
  BY DEF TableInv
<1>b. BacklogFresh
  BY DEF TableInv
<1>r. ReportsHold
  BY DEF TableInv
<1> USE DEF clientVars, serverVars
<1>1. CASE Connect(c)
  <2>1. TableTypes'
    BY <1>1, <1>t DEF TableTypes, Connect, Readable, CliOpen
  <2>2. TableExact'
    BY <1>1, <1>t, <1>e DEF TableTypes, TableExact, InLoop, Serving, Connect, Readable, CliOpen
  <2>3. OwnersExact'
    BY <1>1, <1>t, <1>o DEF TableTypes, OwnersExact, Connect, Readable, CliOpen
  <2>4. BacklogFresh'
    <3>1. backlog \in Seq(Conns) /\ backlog' = Append(backlog, c)
      BY <1>1, <1>t DEF TableTypes, Connect
    <3>2. cli' = [cli EXCEPT ![c] = "ready"] /\ srvEnd' = srvEnd /\ cli[c] = "new" /\ cli \in [Conns -> ClientStates]
      BY <1>1, <1>t DEF TableTypes, Connect
    <3>3. \A i \in 1 .. Len(backlog) : backlog[i] # c /\ backlog[i] \in Conns
      BY <3>1, <3>2, <1>b DEF BacklogFresh
    <3> QED
      BY <3>1, <3>2, <3>3, <1>b, AppendFacts DEF BacklogFresh
  <2>5. ReportsHold'
    <3>1. \A f \in Fds : fdTab[f] # NoConn => fdTab[f] # c /\ fdTab[f] \in Conns
      BY <1>1, <1>t, <1>o, <1>b DEF Connect, TableTypes, OwnersExact, BacklogFresh
    <3>2. \A d \in Conns \ {c} : Readable(d) => Readable(d)'
      BY <1>1, <1>t DEF Connect, TableTypes, Readable, CliOpen
    <3>3. \A i \in 0 .. nClients - 1 : clientFds[i] \in Fds
      BY <1>t DEF TableTypes
    <3>4. pc \in {"accept", "scan"} \/ Serving => \A i \in 0 .. nClients - 1 : fdTab[clientFds[i]] # NoConn
      BY <1>e DEF TableExact, InLoop, Serving
    <3> QED
      BY <1>1, <1>r, <3>1, <3>2, <3>3, <3>4 DEF Connect, ReportsHold, Serving
  <2> QED
    BY <2>1, <2>2, <2>3, <2>4, <2>5 DEF TableInv
<1>2. CASE ConnectRefused(c)
  BY <1>2, <1>t, ClientFrame DEF ConnectRefused, TableTypes, CliOpen
<1>3. CASE \E svc \in SvcIds, body \in BOOLEAN : SendHdr(c, svc, body)
  <2>0. \A svc \in SvcIds, body \in BOOLEAN :
         call[c] < MaxCalls => [part |-> "hdr", call |-> call[c] + 1, svc |-> svc, body |-> body] \in ReqPart
    BY <1>t DEF TableTypes, ReqPart
  <2>p. \E q \in ReqPart : c2s' = [c2s EXCEPT ![c] = Append(c2s[c], q)]
    BY <1>3, <2>0 DEF SendHdr
  <2>1. c2s' \in [Conns -> Seq(ReqPart)] /\ call' \in [Conns -> 0 .. MaxCalls]
    <3>1. c2s \in [Conns -> Seq(ReqPart)] /\ call \in [Conns -> 0 .. MaxCalls]
      BY <1>t DEF TableTypes
    <3>2. call[c] < MaxCalls /\ call' = [call EXCEPT ![c] = @ + 1]
      BY <1>3 DEF SendHdr
    <3>3. call' \in [Conns -> 0 .. MaxCalls]
      BY <3>1, <3>2, SizeAssumption
    <3> QED
      BY <2>p, <3>1, <3>3, AppendFacts
  <2>2. \A d \in Conns : c2s[d] # <<>> => c2s'[d] # <<>>
    <3>1. c2s \in [Conns -> Seq(ReqPart)]
      BY <1>t DEF TableTypes
    <3> QED
      BY <2>p, <3>1, AppendFacts
  <2>3. /\ cli' \in [Conns -> ClientStates]
        /\ \A d \in Conns : cli'[d] = "new" => cli[d] = "new"
        /\ \A d \in Conns : CliOpen(d)' => CliOpen(d)
    BY <1>3, <1>t DEF SendHdr, TableTypes, CliOpen
  <2>4. UNCHANGED <<serverVars, backlog, srvEnd>>
    BY <1>3 DEF SendHdr
  <2> QED
    BY <2>1, <2>2, <2>3, <2>4, ClientFrame
<1>4. CASE SendBody(c)
  <2>0. [part |-> "body", call |-> call[c]] \in ReqPart
    BY <1>t DEF TableTypes, ReqPart
  <2>1. c2s' \in [Conns -> Seq(ReqPart)] /\ call' \in [Conns -> 0 .. MaxCalls]
    BY <1>4, <1>t, <2>0, AppendFacts DEF SendBody, TableTypes
  <2>p. \E q \in ReqPart : c2s' = [c2s EXCEPT ![c] = Append(c2s[c], q)]
    BY <1>4, <2>0 DEF SendBody
  <2>2. \A d \in Conns : c2s[d] # <<>> => c2s'[d] # <<>>
    <3>1. c2s \in [Conns -> Seq(ReqPart)]
      BY <1>t DEF TableTypes
    <3> QED
      BY <2>p, <3>1, AppendFacts
  <2>3. /\ cli' \in [Conns -> ClientStates]
        /\ \A d \in Conns : cli'[d] = "new" => cli[d] = "new"
        /\ \A d \in Conns : CliOpen(d)' => CliOpen(d)
    BY <1>4, <1>t DEF SendBody, TableTypes, CliOpen
  <2>4. UNCHANGED <<serverVars, backlog, srvEnd>>
    BY <1>4 DEF SendBody
  <2> QED
    BY <2>1, <2>2, <2>3, <2>4, ClientFrame
<1>5. CASE SendFails(c)
  <2>0. \/ call' = [call EXCEPT ![c] = @ + 1] /\ call[c] < MaxCalls
       \/ call' = call
    BY <1>5 DEF SendFails
  <2>1. call' \in [Conns -> 0 .. MaxCalls] /\ c2s' \in [Conns -> Seq(ReqPart)]
    <3>1. c2s' = c2s
      BY <1>5 DEF SendFails
    <3>2. call \in [Conns -> 0 .. MaxCalls] /\ call[c] \in Nat /\ MaxCalls \in Nat
      BY <1>t, SizeAssumption DEF TableTypes
    <3>3. call' \in [Conns -> 0 .. MaxCalls]
      <4>1. CASE call' = [call EXCEPT ![c] = @ + 1] /\ call[c] < MaxCalls
        BY <3>2, <4>1
      <4> QED
        BY <2>0, <3>2, <4>1
    <3> QED
      BY <1>t, <3>1, <3>3 DEF TableTypes
  <2>2. cli' \in [Conns -> ClientStates] /\ CliOpen(c)
    BY <1>5, <1>t DEF SendFails, Quit, TableTypes, CliOpen
  <2>3. \A d \in Conns : (cli'[d] = "new" => cli[d] = "new") /\ (CliOpen(d)' => CliOpen(d))
    BY <1>5, <1>t, <2>2 DEF SendFails, Quit, TableTypes, CliOpen
  <2>4. UNCHANGED <<serverVars, backlog, srvEnd, c2s>>
    BY <1>5 DEF SendFails
  <2> QED
    BY <2>1, <2>2, <2>3, <2>4, ClientFrame
<1>6. CASE RecvReplyHdr(c)
  BY <1>6, <1>t, ClientFrame DEF RecvReplyHdr, TableTypes, CliOpen
<1>7. CASE RecvReplyBody(c)
  BY <1>7, <1>t, ClientFrame DEF RecvReplyBody, TableTypes, CliOpen
<1>8. CASE RecvFails(c)
  BY <1>8, <1>t, ClientFrame DEF RecvFails, TableTypes, CliOpen
<1>9. CASE Leave(c)
  BY <1>9, <1>t, ClientFrame DEF Leave, Quit, TableTypes, CliOpen
<1>10. CASE ReplyGrowFails(c)
  BY <1>10, <1>t, ClientFrame DEF ReplyGrowFails, TableTypes, CliOpen
<1>11. CASE Misread(c)
  BY <1>11, <1>t, ClientFrame DEF Misread, TableTypes, CliOpen
<1> QED
  BY <1>1, <1>2, <1>3, <1>4, <1>5, <1>6, <1>7, <1>8, <1>9, <1>10, <1>11 DEF ClientStep, FinishCall

(* What is unread when the server's ends are closed is lost. *)
LEMMA ClosedTypes ==
  ASSUME NEW S, CloseEnds(S),
         c2s \in [Conns -> Seq(ReqPart)], srvEnd \in [Conns -> {"none", "open", "closed"}]
  PROVE  /\ c2s' \in [Conns -> Seq(ReqPart)]
         /\ srvEnd' \in [Conns -> {"none", "open", "closed"}]
         /\ \A d \in Conns : d \in S => srvEnd'[d] = "closed" /\ c2s'[d] = <<>>
         /\ \A d \in Conns : d \notin S => srvEnd'[d] = srvEnd[d] /\ c2s'[d] = c2s[d]
<1>1. <<>> \in Seq(ReqPart)
  OBVIOUS
<1> QED
  BY <1>1 DEF CloseEnds

(* Every step of the server's thread keeps the table exact. *)
LEMMA ServerTable ==
  ASSUME TableInv, ServerStep PROVE TableInv'
<1>t. TableTypes
  BY DEF TableInv
<1>e. TableExact
  BY DEF TableInv
<1>o. OwnersExact
  BY DEF TableInv
<1>b. BacklogFresh
  BY DEF TableInv
<1>r. ReportsHold
  BY DEF TableInv
<1> USE DEF clientVars, serverVars
<1>1. CASE Run
  BY <1>1, <1>t, <1>e, <1>o, <1>b, <1>r DEF Run, TableInv, TableTypes, TableExact, OwnersExact, BacklogFresh, ReportsHold, InLoop, Serving, Readable, CliOpen
<1>2. CASE LoopCheck
  BY <1>2, <1>t, <1>e, <1>o, <1>b, <1>r DEF LoopCheck, TableInv, TableTypes, TableExact, OwnersExact, BacklogFresh, ReportsHold, InLoop, Serving, Readable, CliOpen
<1>3. CASE LoopExit
  <2>0. \A fd \in Fds : fd \in ClientFdSet <=> fdTab[fd] # NoConn
    <3>1. InLoop
      BY <1>3 DEF LoopExit, InLoop
    <3> QED
      BY <3>1, <1>e DEF ClientFdSet, TableExact
  <2>1. fdTab' = [fd \in Fds |-> NoConn] /\ ~InLoop'
    <3>1. ~InLoop'
      BY <1>3 DEF LoopExit, InLoop
    <3>2. fdTab' = [fd \in Fds |-> IF fd \in ClientFdSet THEN NoConn ELSE fdTab[fd]]
      BY <1>3 DEF LoopExit
    <3>3. \A fd \in Fds : (IF fd \in ClientFdSet THEN NoConn ELSE fdTab[fd]) = NoConn
      BY <2>0
    <3> QED
      BY <3>1, <3>2, <3>3
  <2>2. \A d \in Conns : d \in {fdTab[fd] : fd \in ClientFdSet} <=> srvEnd[d] = "open"
    <3>1. ClientFdSet \subseteq Fds
      BY <1>t DEF ClientFdSet, TableTypes
    <3> QED
      BY <2>0, <3>1, <1>o DEF OwnersExact
  <2>3. srvEnd' = [d \in Conns |-> IF srvEnd[d] = "open" THEN "closed" ELSE srvEnd[d]]
    BY <1>3, <2>2 DEF LoopExit, CloseEnds
  <2>c. c2s' \in [Conns -> Seq(ReqPart)]
    BY <1>3, <1>t, ClosedTypes DEF LoopExit, TableTypes
  <2>4. TableTypes'
    BY <1>3, <1>t, <2>1, <2>3, <2>c DEF LoopExit, TableTypes
  <2>5. TableExact'
    BY <1>3, <2>1 DEF LoopExit, TableExact, InLoop, Serving
  <2>6. OwnersExact'
    BY <1>t, <2>1, <2>3 DEF OwnersExact, TableTypes
  <2>7. BacklogFresh'
    <3>1. \A i \in 1 .. Len(backlog) : backlog[i] \in Conns
      BY <1>t DEF TableTypes
    <3> QED
      BY <1>3, <1>b, <2>3, <3>1 DEF LoopExit, BacklogFresh
  <2>8. ReportsHold'
    BY <1>3 DEF LoopExit, ReportsHold, Serving
  <2> QED
    BY <2>4, <2>5, <2>6, <2>7, <2>8 DEF TableInv
<1>4. CASE Select
  <2>1. TableTypes'
    <3>1. ReadyFds \in SUBSET Fds
      BY <1>t DEF TableTypes, ReadyFds, ClientFdSet
    <3> QED
      BY <1>4, <1>t, <3>1 DEF Select, TableTypes
  <2>2. TableExact'
    BY <1>4, <1>t, <1>e DEF Select, TableTypes, TableExact, InLoop, Serving
  <2>3. OwnersExact'
    BY <1>4, <1>o DEF Select, OwnersExact
  <2>4. BacklogFresh'
    BY <1>4, <1>b DEF Select, BacklogFresh
  <2>5. ReportsHold'
    BY <1>4, <1>t DEF Select, TableTypes, ReportsHold, ReadyFds, ClientFdSet, Serving, Readable, CliOpen
  <2> QED
    BY <2>1, <2>2, <2>3, <2>4, <2>5 DEF TableInv
<1>5. CASE SelectTimeout
  BY <1>5, <1>t, <1>e, <1>o, <1>b, <1>r DEF SelectTimeout, TableInv, TableTypes, TableExact, OwnersExact, BacklogFresh, ReportsHold, InLoop, Serving, Readable, CliOpen
<1>6. CASE NoAccept
  BY <1>6, <1>t, <1>e, <1>o, <1>b, <1>r DEF NoAccept, TableInv, TableTypes, TableExact, OwnersExact, BacklogFresh, ReportsHold, InLoop, Serving, Readable, CliOpen
<1>7. CASE Accept
  <2> DEFINE new == Head(backlog)
  <2>0. /\ pc = "accept" /\ pc' = "scan" /\ idx' = 0 /\ nClients < MaxClients /\ nClients' = nClients + 1
        /\ backlog \in Seq(Conns) /\ backlog # <<>> /\ backlog' = Tail(backlog)
        /\ srvEnd' = [srvEnd EXCEPT ![new] = "open"]
        /\ UNCHANGED <<rfds, cli, call, c2s>>
    BY <1>7, <1>t DEF Accept, TableTypes
  <2>1. PICK fd \in Fds : /\ fdTab[fd] = NoConn /\ fdTab' = [fdTab EXCEPT ![fd] = new]
                          /\ clientFds' = [clientFds EXCEPT ![nClients] = fd]
    BY <1>7 DEF Accept, OpenFds
  <2>2. /\ new \in Conns /\ srvEnd[new] = "none" /\ cli[new] # "new"
        /\ \A i \in 1 .. Len(backlog) - 1 : backlog'[i] = backlog[i + 1]
        /\ backlog' \in Seq(Conns) /\ Len(backlog') = Len(backlog) - 1 /\ Len(backlog) \in Nat \ {0}
        /\ new = backlog[1]
    BY <2>0, <1>b, TailFacts DEF BacklogFresh
  <2>3. nClients \in Slots /\ \A i \in 0 .. nClients - 1 : i \in Slots /\ clientFds[i] # fd
    BY <2>0, <2>1, <1>t, <1>e DEF TableTypes, TableExact, InLoop
  <2>4. TableTypes'
    <3>1. clientFds' \in [Slots -> Fds] /\ fdTab' \in [Fds -> Conns \cup {NoConn}]
      BY <2>1, <2>2, <1>t DEF TableTypes
    <3>2. nClients' \in 0 .. MaxClients /\ idx' \in 0 .. MaxClients
      BY <2>0, <2>3
    <3>3. srvEnd' \in [Conns -> {"none", "open", "closed"}]
      BY <2>0, <1>t DEF TableTypes
    <3> QED
      BY <2>0, <2>2, <3>1, <3>2, <3>3, <1>t DEF TableTypes
  <2>5. TableExact'
    <3>1. clientFds'[nClients] = fd /\ \A i \in 0 .. nClients - 1 : clientFds'[i] = clientFds[i]
      BY <2>1, <2>3, <1>t DEF TableTypes
    <3>2. fdTab'[fd] = new /\ \A f \in Fds \ {fd} : fdTab'[f] = fdTab[f]
      BY <2>1, <1>t DEF TableTypes
    <3>3. 0 .. nClients' - 1 = (0 .. nClients - 1) \cup {nClients}
      BY SMTT(30), <2>0, <1>t DEF TableTypes
    <3>4. /\ \A i, j \in 0 .. nClients - 1 : clientFds[i] = clientFds[j] => i = j
          /\ \A i \in 0 .. nClients - 1 : fdTab[clientFds[i]] # NoConn /\ clientFds[i] \in Fds
          /\ \A f \in Fds : fdTab[f] # NoConn => \E i \in 0 .. nClients - 1 : clientFds[i] = f
      BY <2>0, <2>3, <1>t, <1>e DEF TableTypes, TableExact, InLoop
    <3>5. \A i, j \in 0 .. nClients' - 1 : clientFds'[i] = clientFds'[j] => i = j
      BY <2>3, <3>1, <3>3, <3>4
    <3>6. \A i \in 0 .. nClients' - 1 : fdTab'[clientFds'[i]] # NoConn
      BY SMTT(30), <2>2, <2>3, <3>1, <3>2, <3>3, <3>4
    <3>7. \A f \in Fds : fdTab'[f] # NoConn => \E i \in 0 .. nClients' - 1 : clientFds'[i] = f
      BY <2>1, <3>1, <3>2, <3>3, <3>4
    <3> QED
      BY <2>0, <3>5, <3>6, <3>7 DEF TableExact, InLoop, Serving
  <2>6. OwnersExact'
    BY SMTT(30), <2>0, <2>1, <2>2, <1>t, <1>o DEF OwnersExact, TableTypes
  <2>7. BacklogFresh'
    <3>1. \A i \in 1 .. Len(backlog') : backlog'[i] = backlog[i + 1] /\ i + 1 \in 1 .. Len(backlog) /\ backlog[i + 1] \in Conns \ {new}
      BY <2>0, <2>2, <1>b DEF BacklogFresh
    <3> QED
      BY <2>0, <2>2, <3>1, <1>b, <1>t DEF BacklogFresh, TableTypes
  <2>8. ReportsHold'
    <3>0. fd \notin rfds
      BY <2>0, <2>3, <1>r DEF ReportsHold
    <3>1. ASSUME NEW i \in 0 .. nClients' - 1, clientFds'[i] \in rfds PROVE Readable(fdTab[clientFds[i]])'
      <4>0. clientFds'[nClients] = fd /\ \A k \in 0 .. nClients - 1 : clientFds'[k] = clientFds[k]
        BY <2>1, <2>3, <1>t DEF TableTypes
      <4>1. i \in 0 .. nClients - 1 /\ clientFds'[i] = clientFds[i] /\ clientFds[i] # fd /\ clientFds[i] \in Fds
        BY SMTT(30), <2>0, <2>3, <3>0, <3>1, <4>0, <1>t DEF TableTypes
      <4>2. fdTab'[clientFds'[i]] = fdTab[clientFds[i]]
        BY <2>1, <4>1, <1>t DEF TableTypes
      <4>3. Readable(fdTab[clientFds[i]])
        BY <2>0, <4>1, <3>1, <1>r DEF ReportsHold
      <4> QED
        BY <2>0, <4>2, <4>3 DEF Readable, CliOpen
    <3> QED
      BY <2>0, <3>1 DEF ReportsHold, Serving
  <2> QED
    BY <2>4, <2>5, <2>6, <2>7, <2>8 DEF TableInv
<1>8. CASE AcceptFull
  <2> DEFINE new == Head(backlog)
  <2>0. /\ pc = "accept" /\ pc' = "scan" /\ idx' = 0
        /\ backlog \in Seq(Conns) /\ backlog # <<>> /\ backlog' = Tail(backlog)
        /\ CloseEnds({new})
        /\ UNCHANGED <<clientFds, nClients, fdTab, rfds, cli, call>>
    BY <1>8, <1>t DEF AcceptFull, TableTypes
  <2>c. /\ c2s' \in [Conns -> Seq(ReqPart)] /\ srvEnd' \in [Conns -> {"none", "open", "closed"}]
        /\ srvEnd' = [srvEnd EXCEPT ![new] = "closed"]
        /\ \A d \in Conns \ {new} : c2s'[d] = c2s[d]
    <3>1. srvEnd' = [srvEnd EXCEPT ![new] = "closed"]
      BY <2>0, <1>t DEF CloseEnds, TableTypes
    <3> QED
      BY <2>0, <3>1, <1>t, ClosedTypes DEF TableTypes
  <2>2. /\ new \in Conns /\ srvEnd[new] = "none" /\ cli[new] # "new"
        /\ \A i \in 1 .. Len(backlog) - 1 : backlog'[i] = backlog[i + 1]
        /\ backlog' \in Seq(Conns) /\ Len(backlog') = Len(backlog) - 1 /\ Len(backlog) \in Nat \ {0}
        /\ new = backlog[1]
    BY <2>0, <1>b, TailFacts DEF BacklogFresh
  <2>4. TableTypes'
    <3>1. 0 \in 0 .. MaxClients /\ pc' \in ServerPcs
      BY <2>0, SizeAssumption DEF ServerPcs
    <3>2. UNCHANGED <<clientFds, nClients, fdTab, rfds, cli, call>> /\ idx' = 0 /\ backlog' \in Seq(Conns)
      BY <2>0, <2>2
    <3>3. c2s' \in [Conns -> Seq(ReqPart)] /\ srvEnd' \in [Conns -> {"none", "open", "closed"}]
      BY <2>c
    <3> QED
      BY <3>1, <3>2, <3>3, <1>t DEF TableTypes
  <2>5. TableExact'
    BY <2>0, <1>e DEF TableExact, InLoop, Serving
  <2>6. OwnersExact'
    BY <2>0, <2>2, <2>c, <1>t, <1>o DEF OwnersExact, TableTypes
  <2>7. BacklogFresh'
    <3>1. \A i \in 1 .. Len(backlog') : backlog'[i] = backlog[i + 1] /\ i + 1 \in 1 .. Len(backlog) /\ backlog[i + 1] \in Conns \ {new}
      BY <2>0, <2>2, <1>b DEF BacklogFresh
    <3>2. cli' = cli /\ srvEnd'[new] = "closed" /\ cli[new] # "new"
      BY <2>0, <2>2, <2>c, <1>t DEF TableTypes
    <3>3. \A d \in Conns \ {new} : srvEnd'[d] = srvEnd[d]
      BY <2>2, <2>c, <1>t DEF TableTypes
    <3> QED
      <4>1. \A i \in 1 .. Len(backlog') : srvEnd'[backlog'[i]] = "none" /\ cli'[backlog'[i]] # "new"
        BY <3>1, <3>2, <3>3, <1>b DEF BacklogFresh
      <4>2. \A i, j \in 1 .. Len(backlog') : backlog'[i] = backlog'[j] => i = j
        BY <2>2, <3>1, <1>b DEF BacklogFresh
      <4>3. \A d \in Conns : cli'[d] = "new" => srvEnd'[d] = "none"
        BY <3>2, <3>3, <1>b DEF BacklogFresh
      <4> QED
        BY <4>1, <4>2, <4>3 DEF BacklogFresh
  <2>8. ReportsHold'
    <3>1. \A i \in 0 .. nClients - 1 : clientFds[i] \in Fds /\ fdTab[clientFds[i]] \in Conns \ {new}
      BY <2>0, <2>2, <1>t, <1>e, <1>o DEF TableTypes, TableExact, OwnersExact, InLoop
    <3>2. ASSUME NEW i \in 0 .. nClients - 1, clientFds[i] \in rfds PROVE Readable(fdTab[clientFds[i]])'
      <4>1. Readable(fdTab[clientFds[i]])
        BY <2>0, <3>2, <1>r DEF ReportsHold
      <4> QED
        BY <2>0, <2>c, <3>1, <4>1 DEF Readable, CliOpen
    <3> QED
      BY <2>0, <3>2 DEF ReportsHold, Serving
  <2> QED
    BY <2>4, <2>5, <2>6, <2>7, <2>8 DEF TableInv
<1>9. CASE ScanSkip
  BY <1>9, <1>t, <1>e, <1>o, <1>b, <1>r DEF ScanSkip, TableInv, TableTypes, TableExact, OwnersExact, BacklogFresh, ReportsHold, InLoop, Serving, Readable, CliOpen
<1>10. CASE ScanRead
  <2>1. TableTypes'
    BY <1>10, <1>t DEF ScanRead, TableTypes
  <2>2. TableExact'
    BY <1>10, <1>t, <1>e DEF ScanRead, TableTypes, TableExact, InLoop, Serving
  <2>3. OwnersExact'
    BY <1>10, <1>o DEF ScanRead, OwnersExact
  <2>4. BacklogFresh'
    BY <1>10, <1>b DEF ScanRead, BacklogFresh
  <2>5. ReportsHold'
    BY <1>10, <1>t, <1>e, <1>r DEF ScanRead, TableTypes, TableExact, ReportsHold, InLoop, Serving, Readable, CliOpen
  <2> QED
    BY <2>1, <2>2, <2>3, <2>4, <2>5 DEF TableInv
<1>11. CASE ScanEnd
  BY <1>11, <1>t, <1>e, <1>o, <1>b, <1>r DEF ScanEnd, TableInv, TableTypes, TableExact, OwnersExact, BacklogFresh, ReportsHold, InLoop, Serving, Readable, CliOpen
<1>12. CASE RecvHdr
  <2>1. TableTypes'
    <3>1. Cur \in Conns
      BY <1>12, <1>t, <1>e DEF RecvHdr, Cur, TableTypes, TableExact, InLoop, Serving
    <3>2. Tail(c2s[Cur]) \in Seq(ReqPart)
      BY <1>12, <1>t, <3>1, TailFacts DEF RecvHdr, TableTypes
    <3> QED
      BY <1>12, <1>t, <3>1, <3>2 DEF RecvHdr, TableTypes
  <2>2. TableExact'
    BY <1>12, <1>t, <1>e DEF RecvHdr, TableTypes, TableExact, InLoop, Serving
  <2>3. OwnersExact'
    BY <1>12, <1>o DEF RecvHdr, OwnersExact
  <2>4. BacklogFresh'
    BY <1>12, <1>b DEF RecvHdr, BacklogFresh
  <2>5. ReportsHold'
    <3>1. \A d \in Conns \ {Cur} : c2s'[d] = c2s[d]
      BY <1>12, <1>t DEF RecvHdr, TableTypes
    <3>2. \A i \in 0 .. nClients - 1 : i > idx => clientFds[i] \in Fds /\ fdTab[clientFds[i]] \in Conns \ {Cur}
      BY SMTT(30), <1>12, <1>t, <1>e, <1>o DEF RecvHdr, Cur, TableTypes, TableExact, OwnersExact, InLoop, Serving
    <3>3. \A i \in 0 .. nClients - 1 : i > idx /\ clientFds[i] \in rfds => Readable(fdTab[clientFds[i]])
      BY <1>12, <1>r DEF RecvHdr, ReportsHold, Serving
    <3>4. \A i \in 0 .. nClients - 1 : i > idx /\ clientFds[i] \in rfds => Readable(fdTab[clientFds[i]])'
      BY <1>12, <3>1, <3>2, <3>3 DEF RecvHdr, Readable, CliOpen
    <3> QED
      BY <1>12, <3>4 DEF RecvHdr, ReportsHold, Serving
  <2> QED
    BY <2>1, <2>2, <2>3, <2>4, <2>5 DEF TableInv
<1>13. CASE RecvBody
  <2>1. TableTypes'
    <3>1. Cur \in Conns
      BY <1>13, <1>t, <1>e DEF RecvBody, Cur, TableTypes, TableExact, InLoop, Serving
    <3>2. Tail(c2s[Cur]) \in Seq(ReqPart)
      BY <1>13, <1>t, <3>1, TailFacts DEF RecvBody, TableTypes
    <3> QED
      BY <1>13, <1>t, <3>1, <3>2 DEF RecvBody, TableTypes
  <2>2. TableExact'
    BY <1>13, <1>t, <1>e DEF RecvBody, TableTypes, TableExact, InLoop, Serving
  <2>3. OwnersExact'
    BY <1>13, <1>o DEF RecvBody, OwnersExact
  <2>4. BacklogFresh'
    BY <1>13, <1>b DEF RecvBody, BacklogFresh
  <2>5. ReportsHold'
    <3>1. \A d \in Conns \ {Cur} : c2s'[d] = c2s[d]
      BY <1>13, <1>t DEF RecvBody, TableTypes
    <3>2. \A i \in 0 .. nClients - 1 : i > idx => clientFds[i] \in Fds /\ fdTab[clientFds[i]] \in Conns \ {Cur}
      BY <1>13, <1>t, <1>e, <1>o DEF RecvBody, Cur, TableTypes, TableExact, OwnersExact, InLoop, Serving
    <3>3. \A i \in 0 .. nClients - 1 : i > idx /\ clientFds[i] \in rfds => Readable(fdTab[clientFds[i]])
      BY <1>13, <1>r DEF RecvBody, ReportsHold, Serving
    <3>4. \A i \in 0 .. nClients - 1 : i > idx /\ clientFds[i] \in rfds => Readable(fdTab[clientFds[i]])'
      BY <1>13, <3>1, <3>2, <3>3 DEF RecvBody, Readable, CliOpen
    <3> QED
      BY <1>13, <3>4 DEF RecvBody, ReportsHold, Serving
  <2> QED
    BY <2>1, <2>2, <2>3, <2>4, <2>5 DEF TableInv
<1>14. CASE RecvEof \/ RecvGrowFails
  <2> DEFINE last == nClients - 1
             gone == clientFds[idx]
  <2>0. /\ pc \in {"recvHdr", "recvBody"} /\ pc' = "scan" /\ nClients' = last
        /\ fdTab' = [fdTab EXCEPT ![gone] = NoConn]
        /\ CloseEnds({fdTab[gone]})
        /\ clientFds' = [clientFds EXCEPT ![idx] = clientFds[last]]
        /\ UNCHANGED <<rfds, idx, backlog, cli, call>>
    BY <1>14 DEF RecvEof, RecvGrowFails, RemoveCur, Cur
  <2>c. /\ c2s' \in [Conns -> Seq(ReqPart)] /\ srvEnd' \in [Conns -> {"none", "open", "closed"}]
        /\ srvEnd' = [srvEnd EXCEPT ![fdTab[gone]] = "closed"]
        /\ \A d \in Conns \ {fdTab[gone]} : srvEnd'[d] = srvEnd[d] /\ c2s'[d] = c2s[d]
    <3>1. srvEnd' = [srvEnd EXCEPT ![fdTab[gone]] = "closed"]
      BY <2>0, <1>t DEF CloseEnds, TableTypes
    <3> QED
      BY <2>0, <3>1, <1>t, ClosedTypes DEF TableTypes
  <2>1. /\ nClients \in 1 .. MaxClients /\ last \in Slots /\ idx \in 0 .. last
        /\ gone \in Fds /\ fdTab[gone] \in Conns
        /\ \A i \in 0 .. last : i \in Slots /\ clientFds[i] \in Fds
    BY <2>0, <1>t, <1>e DEF TableTypes, TableExact, InLoop, Serving
  <2>2. /\ \A i, j \in 0 .. last : clientFds[i] = clientFds[j] => i = j
        /\ \A i \in 0 .. last : fdTab[clientFds[i]] # NoConn
        /\ \A f \in Fds : fdTab[f] # NoConn => \E i \in 0 .. last : clientFds[i] = f
    BY <2>0, <1>e DEF TableExact, InLoop
  <2>3. /\ clientFds'[idx] = clientFds[last]
        /\ \A i \in 0 .. last : i # idx => clientFds'[i] = clientFds[i]
        /\ fdTab'[gone] = NoConn /\ \A f \in Fds \ {gone} : fdTab'[f] = fdTab[f]
    BY <2>0, <2>1, <1>t DEF TableTypes
  <2>4. TableTypes'
    BY SMTT(30), <2>0, <2>1, <2>c, <1>t DEF TableTypes
  <2>5. TableExact'
    <3>1. \A i, j \in 0 .. last - 1 : clientFds'[i] = clientFds'[j] => i = j
      BY <2>1, <2>2, <2>3
    <3>2. \A i \in 0 .. last - 1 : clientFds'[i] \in Fds \ {gone} /\ fdTab[clientFds'[i]] # NoConn
      BY <2>1, <2>2, <2>3
    <3>3. ASSUME NEW f \in Fds, fdTab'[f] # NoConn PROVE \E i \in 0 .. last - 1 : clientFds'[i] = f
      <4>1. f # gone /\ fdTab[f] # NoConn
        BY <2>3, <3>3
      <4>2. PICK i \in 0 .. last : clientFds[i] = f
        BY <2>2, <4>1
      <4>3. CASE i = last
        BY <2>1, <2>3, <4>1, <4>2, <4>3
      <4>4. CASE i # last
        BY <2>1, <2>3, <4>1, <4>2, <4>4
      <4> QED
        BY <4>3, <4>4
    <3> QED
      BY <2>0, <2>3, <3>1, <3>2, <3>3 DEF TableExact, InLoop, Serving
  <2>6. OwnersExact'
    BY SMTT(30), <2>0, <2>1, <2>3, <2>c, <1>t, <1>o DEF OwnersExact, TableTypes
  <2>7. BacklogFresh'
    <3>1. \A i \in 1 .. Len(backlog) : backlog[i] \in Conns \ {fdTab[gone]}
      <4>1. srvEnd[fdTab[gone]] = "open"
        BY <2>1, <1>o DEF OwnersExact
      <4>2. \A i \in 1 .. Len(backlog) : backlog[i] \in Conns
        BY <1>t DEF TableTypes
      <4> QED
        BY <4>1, <4>2, <1>b DEF BacklogFresh
    <3>2. cli[fdTab[gone]] # "new"
      BY <2>1, <1>o, <1>b DEF OwnersExact, BacklogFresh
    <3>3. \A d \in Conns \ {fdTab[gone]} : srvEnd'[d] = srvEnd[d]
      BY <2>c
    <3> QED
      BY <2>0, <2>1, <3>1, <3>2, <3>3, <1>b DEF BacklogFresh
  <2>8. ReportsHold'
    <3>1. ASSUME NEW i \in 0 .. last - 1, i >= idx, clientFds'[i] \in rfds
          PROVE  Readable(fdTab[clientFds[i]])'
      <4>1. PICK k \in 0 .. last : k > idx /\ clientFds'[i] = clientFds[k]
        BY <2>1, <2>3, <3>1
      <4>2. clientFds[k] \in Fds \ {gone}
        BY <2>1, <2>2, <4>1
      <4>3. Readable(fdTab[clientFds[k]])
        BY <2>0, <2>1, <3>1, <4>1, <1>r DEF ReportsHold, Serving
      <4>4. fdTab[clientFds[k]] \in Conns \ {fdTab[gone]}
        <5>1. fdTab[clientFds[k]] # NoConn
          BY <2>2, <4>1
        <5> QED
          BY <2>1, <4>2, <5>1, <1>t, <1>o DEF TableTypes, OwnersExact
      <4>5. c2s'[fdTab[clientFds[k]]] = c2s[fdTab[clientFds[k]]] /\ cli' = cli
        BY <2>0, <2>c, <4>4
      <4>6. fdTab'[clientFds[k]] = fdTab[clientFds[k]]
        BY <2>3, <4>2
      <4> QED
        BY <4>1, <4>3, <4>5, <4>6 DEF Readable, CliOpen
    <3> QED
      BY <2>0, <3>1 DEF ReportsHold, Serving
  <2> QED
    BY <2>4, <2>5, <2>6, <2>7, <2>8 DEF TableInv
<1>15. CASE Handle
  BY <1>15, <1>t, <1>e, <1>o, <1>b, <1>r DEF Handle, TableInv, TableTypes, TableExact, OwnersExact, BacklogFresh, ReportsHold, InLoop, Serving, Readable, CliOpen
<1>16. CASE HandleUnknown
  BY <1>16, <1>t, <1>e, <1>o, <1>b, <1>r DEF HandleUnknown, TableInv, TableTypes, TableExact, OwnersExact, BacklogFresh, ReportsHold, InLoop, Serving, Readable, CliOpen
<1>17. CASE ReplyHdr
  <2>0. /\ pc = "replyHdr" /\ UNCHANGED <<clientFds, nClients, fdTab, rfds, backlog, srvEnd, cli, call, c2s>>
        /\ \/ pc' = "replyBody" /\ idx' = idx
           \/ pc' = "scan" /\ idx' = idx + 1
    BY <1>17 DEF ReplyHdr, NextClient
  <2>1. TableTypes'
    BY <2>0, <1>t, <1>e DEF TableTypes, TableExact, Serving
  <2>2. TableExact'
    BY <1>17, <1>t, <1>e DEF ReplyHdr, TableTypes, TableExact, InLoop, Serving, NextClient
  <2>3. OwnersExact'
    BY <1>17, <1>o DEF ReplyHdr, OwnersExact
  <2>4. BacklogFresh'
    BY <1>17, <1>b DEF ReplyHdr, BacklogFresh
  <2>5. ReportsHold'
    BY <2>0, <1>t, <1>r DEF TableTypes, ReportsHold, Serving, Readable, CliOpen
  <2> QED
    BY <2>1, <2>2, <2>3, <2>4, <2>5 DEF TableInv
<1>18. CASE ReplyBody
  <2>1. TableTypes'
    BY <1>18, <1>t, <1>e DEF ReplyBody, TableTypes, TableExact, Serving, NextClient
  <2>2. TableExact'
    BY <1>18, <1>t, <1>e DEF ReplyBody, TableTypes, TableExact, InLoop, Serving, NextClient
  <2>3. OwnersExact'
    BY <1>18, <1>o DEF ReplyBody, OwnersExact
  <2>4. BacklogFresh'
    BY <1>18, <1>b DEF ReplyBody, BacklogFresh
  <2>5. ReportsHold'
    BY <1>18, <1>t, <1>e, <1>r DEF ReplyBody, TableTypes, TableExact, ReportsHold, InLoop, Serving, Readable, CliOpen, NextClient
  <2> QED
    BY <2>1, <2>2, <2>3, <2>4, <2>5 DEF TableInv
<1>19. CASE ReplyToGonePeer
  <2>1. CloseEnds({d \in Conns : cli[d] # "new"})
    BY <1>19 DEF ReplyToGonePeer
  <2>2. /\ c2s' \in [Conns -> Seq(ReqPart)] /\ srvEnd' \in [Conns -> {"none", "open", "closed"}]
        /\ \A d \in Conns : IF cli[d] = "new" THEN srvEnd'[d] = srvEnd[d] ELSE srvEnd'[d] = "closed"
    <3>1. c2s \in [Conns -> Seq(ReqPart)] /\ srvEnd \in [Conns -> {"none", "open", "closed"}]
      BY <1>t DEF TableTypes
    <3> QED
      BY <2>1, <3>1, ClosedTypes
  <2>3. TableTypes'
    BY <1>19, <1>t, <2>2 DEF ReplyToGonePeer, TableTypes
  <2>4. TableExact'
    BY <1>19, <2>1 DEF ReplyToGonePeer, TableExact, InLoop, Serving
  <2>5. OwnersExact'
    <3>1. fdTab' = [fd \in Fds |-> NoConn]
      BY <1>19 DEF ReplyToGonePeer
    <3>2. \A d \in Conns : srvEnd'[d] # "open"
      BY <2>2, <1>b DEF BacklogFresh
    <3> QED
      BY <3>1, <3>2 DEF OwnersExact
  <2>6. BacklogFresh'
    <3>1. backlog' = <<>> /\ cli' = cli
      BY <1>19 DEF ReplyToGonePeer
    <3>2. Len(backlog') = 0
      BY <3>1
    <3> QED
      BY <3>1, <3>2, <2>2, <1>b DEF BacklogFresh
  <2>7. ReportsHold'
    BY <1>19 DEF ReplyToGonePeer, ReportsHold, Serving
  <2> QED
    BY <2>3, <2>4, <2>5, <2>6, <2>7 DEF TableInv
<1>20. CASE Destroy
  <2>1. \A i \in 1 .. Len(backlog) : backlog[i] \in Conns /\ srvEnd[backlog[i]] = "none" /\ cli[backlog[i]] # "new"
    <3>1. backlog \in Seq(Conns)
      BY <1>t DEF TableTypes
    <3>2. \A i \in 1 .. Len(backlog) : backlog[i] \in Conns
      BY <3>1
    <3>3. \A i \in 1 .. Len(backlog) : srvEnd[backlog[i]] = "none" /\ cli[backlog[i]] # "new"
      BY <1>b DEF BacklogFresh
    <3> QED
      BY <3>2, <3>3
  <2>2. /\ \A d \in Conns : srvEnd'[d] = "open" <=> srvEnd[d] = "open"
        /\ \A d \in Conns : cli[d] = "new" => srvEnd'[d] = "none"
    <3>1. \A d \in Conns : srvEnd'[d] = IF \E i \in 1 .. Len(backlog) : backlog[i] = d
                                        THEN "closed" ELSE srvEnd[d]
      BY <1>20 DEF Destroy, CloseEnds
    <3> QED
      BY <2>1, <3>1, <1>b DEF BacklogFresh
  <2>3. c2s' \in [Conns -> Seq(ReqPart)] /\ srvEnd' \in [Conns -> {"none", "open", "closed"}]
    BY <1>20, <1>t, ClosedTypes DEF Destroy, TableTypes
  <2>4. TableTypes'
    BY <1>20, <1>t, <2>3 DEF Destroy, TableTypes
  <2>5. TableExact'
    BY <1>20, <1>e DEF Destroy, TableExact, InLoop, Serving
  <2>6. OwnersExact'
    <3>1. fdTab' = fdTab /\ \A f \in Fds : fdTab[f] # NoConn => fdTab[f] \in Conns
      BY <1>20, <1>t DEF Destroy, TableTypes
    <3> QED
      BY <1>o, <2>2, <3>1 DEF OwnersExact
  <2>7. BacklogFresh'
    <3>1. backlog' = <<>> /\ cli' = cli
      BY <1>20 DEF Destroy
    <3>2. Len(backlog') = 0
      BY <3>1
    <3> QED
      BY <3>1, <3>2, <2>2 DEF BacklogFresh
  <2>8. ReportsHold'
    BY <1>20 DEF Destroy, ReportsHold, Serving
  <2> QED
    BY <2>4, <2>5, <2>6, <2>7, <2>8 DEF TableInv
<1> QED
  BY <1>1, <1>2, <1>3, <1>4, <1>5, <1>6, <1>7, <1>8, <1>9, <1>10, <1>11, <1>12, <1>13, <1>14, <1>15, <1>16, <1>17, <1>18, <1>19, <1>20 DEF ServerStep

(* TableInv is inductive. *)
LEMMA NextTable == TableInv /\ [Next]_vars => TableInv'
<1> SUFFICES ASSUME TableInv, [Next]_vars PROVE TableInv'
  OBVIOUS
<1>1. CASE Stop
  BY <1>1 DEF Stop, clientVars, TableInv, TableTypes, TableExact, OwnersExact, BacklogFresh, ReportsHold, InLoop, Serving, Readable, CliOpen
<1>2. CASE UNCHANGED vars
  BY <1>2 DEF vars, serverVars, clientVars, TableInv, TableTypes, TableExact, OwnersExact, BacklogFresh, ReportsHold, InLoop, Serving, Readable, CliOpen
<1> QED
  BY <1>1, <1>2, ClientTable, ServerTable DEF Next, Terminated

(* The client table of the daemon is exact in every reachable state: see          *)
(* ClientTableExact in NovaIpc.                                                   *)
THEOREM TableAlwaysExact == Spec => []ClientTableExact
<1>1. TableInv => ClientTableExact
  <2> SUFFICES ASSUME TableInv PROVE ClientTableExact
    OBVIOUS
  <2>1. \A i \in 0 .. nClients - 1 : clientFds[i] \in Fds
    BY DEF TableInv, TableTypes
  <2>2. InLoop => ClientFdSet = OpenFds
    BY <2>1 DEF TableInv, TableExact, ClientFdSet, OpenFds
  <2> QED
    BY <2>2 DEF TableInv, TableExact, ClientTableExact, OpenFds, InLoop
<1> QED
  BY <1>1, InitTable, NextTable, PTL DEF Spec

(* The read of a request header is never the read that blocks the loop.           *)
THEOREM HeaderReadsNeverBlock == Spec => []HeaderReadNeverBlocks
<1>1. TableInv => HeaderReadNeverBlocks
  BY DEF TableInv, TableTypes, TableExact, ReportsHold, InLoop, Serving, HeaderReadNeverBlocks, Cur
<1> QED
  BY <1>1, InitTable, NextTable, PTL DEF Spec
=============================================================================

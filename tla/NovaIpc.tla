------------------------------ MODULE NovaIpc ------------------------------
(***************************************************************************)
(* The Unix-socket RPC transport of nova-daemon (libnova_ipc/nova_ipc.c):   *)
(* the single-threaded select() server loop of nova_ipc_server_run, the     *)
(* client side of nova_ipc_transact, and the stream sockets between them.   *)
(*                                                                          *)
(* A connection (a member of Conns) is one nova_ipc_client handle from      *)
(* nova_ipc_client_connect to nova_ipc_client_destroy, or to the death of   *)
(* the process that owns it.  A stream carries parts: a fixed-size header,  *)
(* then the data when data_len is not zero.  send_request and send_reply    *)
(* write the two parts with two separate writes, so everything that can     *)
(* happen between two writes can happen here.  Payload bytes are left out.  *)
(* The field "call" of a part is not on the wire: it numbers the calls of a *)
(* connection so that the properties can tell which request a reply is for. *)
(*                                                                          *)
(* Each side grows a parcel between reading a header and reading its data,  *)
(* and either may find no memory for it.  The server then closes the        *)
(* connection.  The client only returns: the data stays in the stream of a  *)
(* handle that can still be used, and the next call reads it as a header.   *)
(***************************************************************************)
EXTENDS Integers, Sequences, FiniteSets

CONSTANTS
  Conns,         \* client handles
  NoConn,        \* the content of a free slot of the descriptor table
  MaxClients,    \* MAX_CLIENTS
  ListenBacklog, \* second argument of listen()
  SvcIds,        \* service ids a client may name
  Registered,    \* the ones nova_ipc_server_register was called with
  HandlerRcs,    \* what the handlers may return: 0 or negative
  MaxCalls,      \* bound on the calls made through one handle
  Garbage,       \* statuses a client may find in bytes that are no reply header
  Word           \* 2^32 in the code: the number of values of a uint32_t

ASSUME ConnAssumption == NoConn \notin Conns
ASSUME SizeAssumption == /\ MaxClients \in Nat \ {0}
                         /\ ListenBacklog \in Nat
                         /\ MaxCalls \in Nat
ASSUME ServiceAssumption == Registered \subseteq SvcIds
ASSUME WordAssumption ==
  /\ Word \in Nat \ {0}
  /\ Garbage \subseteq 0 .. Word - 1
  /\ \A rc \in HandlerRcs : rc \in Int /\ rc <= 0 /\ -rc < Word \div 2

Fds == 1 .. MaxClients + 1      \* descriptors accept() may return
Slots == 0 .. MaxClients - 1    \* indices of client_fds

\* NOVA_IPC_ERR_SEND, NOVA_IPC_ERR_RECV, and the status of an unknown service.
ErrSend == -2
ErrRecv == -3
UnknownStatus == Word - 1
UnknownCode == 1

\* (uint32_t)(-rc) in the server, -(int)status in the client.
ToStatus(rc) == (-rc) % Word
MutantFromStatus(s) == -s   \* mutant: the status is not made signed
FromStatus(s) == IF s < Word \div 2 THEN -s ELSE Word - s

ServerPcs == {"created", "loop", "select", "accept", "scan", "recvHdr",
              "recvBody", "handle", "replyHdr", "replyBody",
              "returned", "destroyed", "killed"}
ClientStates == {"new", "ready", "sendBody", "recvHdr", "recvBody", "gone"}

\* A request being served; NoRequest when the locals of the loop body are out of scope.
Request == [call : 1 .. MaxCalls, svc : SvcIds, status : 0 .. Word - 1, out : BOOLEAN]
NoRequest == [call |-> 0]

ReqPart == [part : {"hdr"}, call : 1 .. MaxCalls, svc : SvcIds, body : BOOLEAN]
             \cup [part : {"body"}, call : 0 .. MaxCalls]
RepPart == [part : {"hdr"}, call : 0 .. MaxCalls, status : 0 .. Word - 1, body : BOOLEAN]
             \cup [part : {"body"}, call : 0 .. MaxCalls]

VARIABLES
  pc,          \* where the server's thread is
  running,     \* srv->running
  stopCalled,  \* nova_ipc_server_stop has been called (history)
  clientFds,   \* client_fds
  nClients,    \* n_clients
  fdTab,       \* the server's descriptors: the connection behind each
  rfds,        \* client descriptors select() reported readable
  listenReady, \* select() reported listen_fd readable
  idx,         \* i of the scan over client_fds
  cur,         \* the request being served: call, svc, status, out
  backlog,     \* connections waiting for accept()
  srvEnd,      \* the server's end of a connection: none, open, closed
  cli,         \* the client's state on a connection
  c2s,         \* parts written by the client and not yet read
  s2c,         \* parts written by the server and not yet read
  call,        \* number of calls started on a connection
  result,      \* what nova_ipc_transact returned last, or its status so far
  garbled,     \* a reply was read in part: the client is out of step with s2c
  served       \* handled calls of a connection with their codes (history)

serverVars == <<pc, running, stopCalled, clientFds, nClients, fdTab, rfds,
                listenReady, idx, cur>>
clientVars == <<cli, call, result, garbled>>
vars == <<serverVars, backlog, srvEnd, clientVars, c2s, s2c, served>>

ClientFdSet == {clientFds[i] : i \in 0 .. nClients - 1}
OpenFds == {fd \in Fds : fdTab[fd] # NoConn}
CliOpen(c) == cli[c] \in {"ready", "sendBody", "recvHdr", "recvBody"}
Listening == pc \notin {"destroyed", "killed"}

\* select() reports a stream readable when it holds data or has hit its end.
Readable(c) == c2s[c] # <<>> \/ ~CliOpen(c)

\* The connection the scan is at.
Cur == fdTab[clientFds[idx]]

Init ==
  /\ pc = "created" /\ running = FALSE /\ stopCalled = FALSE
  /\ clientFds = [i \in Slots |-> 1] /\ nClients = 0
  /\ fdTab = [fd \in Fds |-> NoConn]
  /\ rfds = {} /\ listenReady = FALSE /\ idx = 0
  /\ cur = NoRequest
  /\ backlog = <<>>
  /\ srvEnd = [c \in Conns |-> "none"]
  /\ cli = [c \in Conns |-> "new"]
  /\ c2s = [c \in Conns |-> <<>>] /\ s2c = [c \in Conns |-> <<>>]
  /\ call = [c \in Conns |-> 0] /\ result = [c \in Conns |-> 0]
  /\ garbled = [c \in Conns |-> FALSE]
  /\ served = [c \in Conns |-> <<>>]

-----------------------------------------------------------------------------
(* The server's thread.                                                     *)

\* Entry of nova_ipc_server_run: running is set, the client table is empty.
Run ==
  /\ pc = "created" /\ pc' = "loop"
  /\ running' = TRUE /\ nClients' = 0
  /\ UNCHANGED <<stopCalled, clientFds, fdTab, rfds, listenReady, idx, cur,
                 backlog, srvEnd, clientVars, c2s, s2c, served>>

\* while (srv->running): the fd_set is built from the client table.
LoopCheck ==
  /\ pc = "loop" /\ running /\ pc' = "select"
  /\ UNCHANGED <<running, stopCalled, clientFds, nClients, fdTab, rfds,
                 listenReady, idx, cur, backlog, srvEnd, clientVars, c2s, s2c, served>>

\* Server's ends are closed: what they have not read is lost.
CloseEnds(S) ==
  /\ srvEnd' = [c \in Conns |-> IF c \in S THEN "closed" ELSE srvEnd[c]]
  /\ c2s' = [c \in Conns |-> IF c \in S THEN <<>> ELSE c2s[c]]

\* The loop ends: every client descriptor is closed and run returns.
LoopExit ==
  /\ pc = "loop" /\ ~running /\ pc' = "returned"
  /\ fdTab' = [fd \in Fds |-> IF fd \in ClientFdSet THEN NoConn ELSE fdTab[fd]]
  /\ CloseEnds({fdTab[fd] : fd \in ClientFdSet})
  /\ UNCHANGED <<running, stopCalled, clientFds, nClients, rfds, listenReady, idx,
                 cur, backlog, clientVars, s2c, served>>

\* What select() would report now.
ReadyFds == {fd \in ClientFdSet : fdTab[fd] \in Conns /\ Readable(fdTab[fd])}

Select ==
  /\ pc = "select" /\ pc' = "accept"
  /\ backlog # <<>> \/ ReadyFds # {}
  /\ rfds' = ReadyFds /\ listenReady' = (backlog # <<>>)
  /\ UNCHANGED <<running, stopCalled, clientFds, nClients, fdTab, idx, cur,
                 backlog, srvEnd, clientVars, c2s, s2c, served>>

\* Mutant: select() is called without a timeout.
MutantSelectTimeout == FALSE /\ UNCHANGED vars

\* select() returned 0 after its second, or -1 with EINTR: look at running again.
SelectTimeout ==
  /\ pc = "select" /\ pc' = "loop"
  /\ backlog = <<>> /\ ReadyFds = {}
  /\ UNCHANGED <<running, stopCalled, clientFds, nClients, fdTab, rfds,
                 listenReady, idx, cur, backlog, srvEnd, clientVars, c2s, s2c, served>>

NoAccept ==
  /\ pc = "accept" /\ ~listenReady /\ pc' = "scan" /\ idx' = 0
  /\ UNCHANGED <<running, stopCalled, clientFds, nClients, fdTab, rfds, listenReady,
                 cur, backlog, srvEnd, clientVars, c2s, s2c, served>>

\* Mutant: the size of client_fds is not tested.
MutantAccept ==
  /\ pc = "accept" /\ listenReady /\ backlog # <<>>
  /\ \E fd \in Fds \ OpenFds :
       /\ fdTab' = [fdTab EXCEPT ![fd] = Head(backlog)]
       /\ clientFds' = [clientFds EXCEPT ![nClients] = fd]
  /\ nClients' = nClients + 1
  /\ srvEnd' = [srvEnd EXCEPT ![Head(backlog)] = "open"]
  /\ backlog' = Tail(backlog)
  /\ pc' = "scan" /\ idx' = 0
  /\ UNCHANGED <<running, stopCalled, rfds, listenReady, cur, clientVars, c2s, s2c, served>>

\* accept() returns the lowest free descriptor; there is room in client_fds.
Accept ==
  /\ pc = "accept" /\ listenReady /\ backlog # <<>> /\ nClients < MaxClients
  /\ \E fd \in Fds \ OpenFds :
       /\ \A other \in Fds \ OpenFds : fd <= other
       /\ fdTab' = [fdTab EXCEPT ![fd] = Head(backlog)]
       /\ clientFds' = [clientFds EXCEPT ![nClients] = fd]
  /\ nClients' = nClients + 1
  /\ srvEnd' = [srvEnd EXCEPT ![Head(backlog)] = "open"]
  /\ backlog' = Tail(backlog)
  /\ pc' = "scan" /\ idx' = 0
  /\ UNCHANGED <<running, stopCalled, rfds, listenReady, cur, clientVars, c2s, s2c, served>>

\* Mutant: at a full table the connection is accepted and forgotten.
MutantAcceptFull ==
  /\ pc = "accept" /\ listenReady /\ backlog # <<>> /\ nClients >= MaxClients
  /\ backlog' = Tail(backlog)
  /\ pc' = "scan" /\ idx' = 0
  /\ UNCHANGED <<running, stopCalled, clientFds, nClients, fdTab, rfds, listenReady,
                 cur, srvEnd, clientVars, c2s, s2c, served>>

\* Mutant: at a full table nothing is accepted.
MutantAcceptNothing ==
  /\ pc = "accept" /\ listenReady /\ backlog # <<>> /\ nClients >= MaxClients
  /\ pc' = "scan" /\ idx' = 0
  /\ UNCHANGED <<running, stopCalled, clientFds, nClients, fdTab, rfds, listenReady,
                 cur, backlog, srvEnd, clientVars, c2s, s2c, served>>

\* The table is full: the accepted descriptor is closed at once.
AcceptFull ==
  /\ pc = "accept" /\ listenReady /\ backlog # <<>> /\ nClients >= MaxClients
  /\ CloseEnds({Head(backlog)})
  /\ backlog' = Tail(backlog)
  /\ pc' = "scan" /\ idx' = 0
  /\ UNCHANGED <<running, stopCalled, clientFds, nClients, fdTab, rfds, listenReady,
                 cur, clientVars, s2c, served>>

ScanSkip ==
  /\ pc = "scan" /\ idx < nClients /\ clientFds[idx] \notin rfds
  /\ idx' = idx + 1
  /\ UNCHANGED <<pc, running, stopCalled, clientFds, nClients, fdTab, rfds, listenReady,
                 cur, backlog, srvEnd, clientVars, c2s, s2c, served>>

ScanRead ==
  /\ pc = "scan" /\ idx < nClients /\ clientFds[idx] \in rfds
  /\ pc' = "recvHdr"
  /\ UNCHANGED <<running, stopCalled, clientFds, nClients, fdTab, rfds, listenReady, idx,
                 cur, backlog, srvEnd, clientVars, c2s, s2c, served>>

\* The end of the loop body: its locals go out of scope.
ScanEnd ==
  /\ pc = "scan" /\ idx >= nClients /\ pc' = "loop"
  /\ rfds' = {} /\ listenReady' = FALSE /\ idx' = 0
  /\ UNCHANGED <<running, stopCalled, clientFds, nClients, fdTab, cur, backlog, srvEnd, clientVars, c2s, s2c, served>>

\* recv_request blocks in read_all until the header is there.
RecvHdr ==
  /\ pc = "recvHdr" /\ c2s[Cur] # <<>>
  /\ LET h == Head(c2s[Cur]) IN
       /\ cur' = [call |-> h.call, svc |-> h.svc, status |-> 0, out |-> FALSE]
       /\ pc' = IF h.body THEN "recvBody" ELSE "handle"
  /\ c2s' = [c2s EXCEPT ![Cur] = Tail(@)]
  /\ UNCHANGED <<running, stopCalled, clientFds, nClients, fdTab, rfds, listenReady, idx,
                 backlog, srvEnd, clientVars, s2c, served>>

\* ... and then until data_len bytes have followed it.
RecvBody ==
  /\ pc = "recvBody" /\ c2s[Cur] # <<>> /\ pc' = "handle"
  /\ c2s' = [c2s EXCEPT ![Cur] = Tail(@)]
  /\ UNCHANGED <<running, stopCalled, clientFds, nClients, fdTab, rfds, listenReady, idx,
                 cur, backlog, srvEnd, clientVars, s2c, served>>

\* Mutant: the last descriptor is dropped instead of moved.
MutantRemoveCur ==
  /\ fdTab' = [fdTab EXCEPT ![clientFds[idx]] = NoConn]
  /\ CloseEnds({Cur})
  /\ nClients' = nClients - 1
  /\ pc' = "scan" /\ cur' = NoRequest
  /\ UNCHANGED <<running, stopCalled, rfds, listenReady, idx, backlog, clientFds,
                 clientVars, s2c, served>>

\* recv_request failed: close, and move the last descriptor into the free place.
\* idx stays: the moved descriptor is looked at next.
RemoveCur ==
  /\ fdTab' = [fdTab EXCEPT ![clientFds[idx]] = NoConn]
  /\ CloseEnds({Cur})
  /\ clientFds' = [clientFds EXCEPT ![idx] = clientFds[nClients - 1]]
  /\ nClients' = nClients - 1
  /\ pc' = "scan" /\ cur' = NoRequest
  /\ UNCHANGED <<running, stopCalled, rfds, listenReady, idx, backlog,
                 clientVars, s2c, served>>

\* End of stream.
RecvEof ==
  /\ pc \in {"recvHdr", "recvBody"} /\ c2s[Cur] = <<>> /\ ~CliOpen(Cur)
  /\ RemoveCur

\* The header announces data and parcel_grow finds no memory for them: the
\* client is dropped, although it may be waiting for its reply.
RecvGrowFails ==
  /\ pc = "recvHdr" /\ c2s[Cur] # <<>> /\ Head(c2s[Cur]).body
  /\ RemoveCur

\* The handler of the service runs to completion; its code becomes the status.
Handle ==
  /\ pc = "handle" /\ pc' = "replyHdr" /\ cur.svc \in Registered
  /\ \E rc \in HandlerRcs, out \in BOOLEAN :
       /\ cur' = [cur EXCEPT !.status = ToStatus(rc), !.out = out]
       /\ served' = [served EXCEPT ![Cur] = Append(@, [call |-> cur.call, code |-> rc])]
  /\ UNCHANGED <<running, stopCalled, clientFds, nClients, fdTab, rfds, listenReady, idx,
                 backlog, srvEnd, clientVars, c2s, s2c>>

\* No service has this id: status 0xFFFFFFFF and no data.
HandleUnknown ==
  /\ pc = "handle" /\ pc' = "replyHdr" /\ cur.svc \notin Registered
  /\ cur' = [cur EXCEPT !.status = UnknownStatus, !.out = FALSE]
  /\ served' = [served EXCEPT ![Cur] = Append(@, [call |-> cur.call, code |-> UnknownCode])]
  /\ UNCHANGED <<running, stopCalled, clientFds, nClients, fdTab, rfds, listenReady, idx,
                 backlog, srvEnd, clientVars, c2s, s2c>>

\* Mutant: i stays at the client that has just been served.
MutantNextClient == pc' = "scan" /\ idx' = idx /\ cur' = NoRequest

\* i++: the request has been answered.
NextClient == pc' = "scan" /\ idx' = idx + 1 /\ cur' = NoRequest

\* send_reply: the header, then the data if there is any; then i++.
ReplyHdr ==
  /\ pc = "replyHdr" /\ CliOpen(Cur)
  /\ s2c' = [s2c EXCEPT ![Cur] = Append(@, [part |-> "hdr", call |-> cur.call,
                                            status |-> cur.status, body |-> cur.out])]
  /\ IF cur.out THEN pc' = "replyBody" /\ UNCHANGED <<idx, cur>> ELSE NextClient
  /\ UNCHANGED <<running, stopCalled, clientFds, nClients, fdTab, rfds, listenReady,
                 backlog, srvEnd, clientVars, c2s, served>>

ReplyBody ==
  /\ pc = "replyBody" /\ CliOpen(Cur)
  /\ s2c' = [s2c EXCEPT ![Cur] = Append(@, [part |-> "body", call |-> cur.call])]
  /\ NextClient
  /\ UNCHANGED <<running, stopCalled, clientFds, nClients, fdTab, rfds, listenReady,
                 backlog, srvEnd, clientVars, c2s, served>>

\* A write to a connection whose peer is gone raises SIGPIPE.  The daemon only
\* handles SIGTERM and SIGINT, so the process dies and the kernel closes all.
ReplyToGonePeer ==
  /\ pc \in {"replyHdr", "replyBody"} /\ ~CliOpen(Cur)
  /\ pc' = "killed" /\ running' = FALSE
  /\ fdTab' = [fd \in Fds |-> NoConn] /\ backlog' = <<>>
  /\ CloseEnds({c \in Conns : cli[c] # "new"})
  /\ rfds' = {} /\ listenReady' = FALSE /\ idx' = 0 /\ cur' = NoRequest
  /\ UNCHANGED <<stopCalled, clientFds, nClients, clientVars, s2c, served>>

\* nova_ipc_server_destroy, called by main after run has returned: closing the
\* listening socket resets the connections nobody accepted.
Destroy ==
  /\ pc = "returned" /\ pc' = "destroyed"
  /\ backlog' = <<>>
  /\ CloseEnds({backlog[i] : i \in 1 .. Len(backlog)})
  /\ UNCHANGED <<running, stopCalled, clientFds, nClients, fdTab, rfds, listenReady, idx,
                 cur, clientVars, s2c, served>>

\* nova_ipc_server_stop, from the handler of SIGTERM or SIGINT: at any moment
\* after the handlers are installed, which is before nova_ipc_server_run.
Stop ==
  /\ Listening /\ ~stopCalled
  /\ stopCalled' = TRUE /\ running' = FALSE
  /\ UNCHANGED <<pc, clientFds, nClients, fdTab, rfds, listenReady, idx, cur,
                 backlog, srvEnd, clientVars, c2s, s2c, served>>

ServerStep ==
  \/ Run \/ LoopCheck \/ LoopExit \/ Select \/ SelectTimeout
  \/ NoAccept \/ Accept \/ AcceptFull
  \/ ScanSkip \/ ScanRead \/ ScanEnd
  \/ RecvHdr \/ RecvBody \/ RecvEof \/ RecvGrowFails \/ Handle \/ HandleUnknown
  \/ ReplyHdr \/ ReplyBody \/ ReplyToGonePeer \/ Destroy

-----------------------------------------------------------------------------
(* The clients.                                                             *)

\* connect() completes as soon as the connection is queued for accept().
Connect(c) ==
  /\ cli[c] = "new" /\ Listening /\ Len(backlog) <= ListenBacklog
  /\ cli' = [cli EXCEPT ![c] = "ready"]
  /\ backlog' = Append(backlog, c)
  /\ UNCHANGED <<serverVars, srvEnd, call, result, garbled, c2s, s2c, served>>

ConnectRefused(c) ==
  /\ cli[c] = "new" /\ ~Listening
  /\ cli' = [cli EXCEPT ![c] = "gone"]
  /\ UNCHANGED <<serverVars, backlog, srvEnd, call, result, garbled, c2s, s2c, served>>

\* nova_ipc_transact begins: send_request writes the header.
SendHdr(c, svc, body) ==
  /\ cli[c] = "ready" /\ call[c] < MaxCalls /\ srvEnd[c] # "closed"
  /\ call' = [call EXCEPT ![c] = @ + 1]
  /\ c2s' = [c2s EXCEPT ![c] = Append(@, [part |-> "hdr", call |-> call[c] + 1,
                                          svc |-> svc, body |-> body])]
  /\ cli' = [cli EXCEPT ![c] = IF body THEN "sendBody" ELSE "recvHdr"]
  /\ result' = [result EXCEPT ![c] = 0]
  /\ UNCHANGED <<serverVars, backlog, srvEnd, garbled, s2c, served>>

SendBody(c) ==
  /\ cli[c] = "sendBody" /\ srvEnd[c] # "closed"
  /\ c2s' = [c2s EXCEPT ![c] = Append(@, [part |-> "body", call |-> call[c]])]
  /\ cli' = [cli EXCEPT ![c] = "recvHdr"]
  /\ UNCHANGED <<serverVars, backlog, srvEnd, call, result, garbled, s2c, served>>

\* The kernel closes the client's end: what it has not read is lost.
Quit(c) ==
  /\ cli' = [cli EXCEPT ![c] = "gone"] /\ result' = [result EXCEPT ![c] = 0]
  /\ s2c' = [s2c EXCEPT ![c] = <<>>]

\* The server's end is closed: the write fails with EPIPE and transact returns
\* NOVA_IPC_ERR_SEND in a process that blocks SIGPIPE; any other process dies.
SendFails(c) ==
  /\ srvEnd[c] = "closed"
  /\ \/ cli[c] = "ready" /\ call[c] < MaxCalls /\ call' = [call EXCEPT ![c] = @ + 1]
     \/ cli[c] = "sendBody" /\ UNCHANGED call
  /\ \/ Quit(c)
     \/ /\ cli' = [cli EXCEPT ![c] = "ready"] /\ result' = [result EXCEPT ![c] = ErrSend]
        /\ UNCHANGED s2c
  /\ UNCHANGED <<serverVars, backlog, srvEnd, garbled, c2s, served>>

\* Mutant: recv_reply does not read the data.
MutantRecvReplyHdr(c) ==
  /\ cli[c] = "recvHdr" /\ ~garbled[c] /\ s2c[c] # <<>>
  /\ result' = [result EXCEPT ![c] = FromStatus(Head(s2c[c]).status)]
  /\ cli' = [cli EXCEPT ![c] = "ready"]
  /\ s2c' = [s2c EXCEPT ![c] = Tail(@)]
  /\ UNCHANGED <<serverVars, backlog, srvEnd, call, garbled, c2s, served>>

\* recv_reply reads the header, and the data if the header announces any and
\* there is memory for them.
RecvReplyHdr(c) ==
  /\ cli[c] = "recvHdr" /\ ~garbled[c] /\ s2c[c] # <<>>
  /\ result' = [result EXCEPT ![c] = FromStatus(Head(s2c[c]).status)]
  /\ cli' = [cli EXCEPT ![c] = IF Head(s2c[c]).body THEN "recvBody" ELSE "ready"]
  /\ s2c' = [s2c EXCEPT ![c] = Tail(@)]
  /\ UNCHANGED <<serverVars, backlog, srvEnd, call, garbled, c2s, served>>

\* The header announces data and parcel_grow finds no memory for them: transact
\* fails, and the data stay in the stream of a handle that can still be used.
ReplyGrowFails(c) ==
  /\ cli[c] = "recvHdr" /\ ~garbled[c] /\ s2c[c] # <<>> /\ Head(s2c[c]).body
  /\ result' = [result EXCEPT ![c] = ErrRecv]
  /\ cli' = [cli EXCEPT ![c] = "ready"]
  /\ garbled' = [garbled EXCEPT ![c] = TRUE]
  /\ s2c' = [s2c EXCEPT ![c] = Tail(@)]
  /\ UNCHANGED <<serverVars, backlog, srvEnd, call, c2s, served>>

\* A later call on such a handle takes whatever comes next for its header: it
\* consumes any part of the stream, and fails or returns what it found there.
Misread(c) ==
  /\ cli[c] = "recvHdr" /\ garbled[c] /\ s2c[c] # <<>>
  /\ \E n \in 0 .. Len(s2c[c]) : s2c' = [s2c EXCEPT ![c] = SubSeq(@, n + 1, Len(@))]
  /\ \E r \in {ErrRecv} \cup {FromStatus(s) : s \in Garbage} : result' = [result EXCEPT ![c] = r]
  /\ cli' = [cli EXCEPT ![c] = "ready"]
  /\ UNCHANGED <<serverVars, backlog, srvEnd, call, garbled, c2s, served>>

RecvReplyBody(c) ==
  /\ cli[c] = "recvBody" /\ s2c[c] # <<>>
  /\ cli' = [cli EXCEPT ![c] = "ready"]
  /\ s2c' = [s2c EXCEPT ![c] = Tail(@)]
  /\ UNCHANGED <<serverVars, backlog, srvEnd, call, result, garbled, c2s, served>>

RecvFails(c) ==
  /\ cli[c] \in {"recvHdr", "recvBody"} /\ s2c[c] = <<>> /\ srvEnd[c] = "closed"
  /\ result' = [result EXCEPT ![c] = ErrRecv]
  /\ cli' = [cli EXCEPT ![c] = "ready"]
  /\ UNCHANGED <<serverVars, backlog, srvEnd, call, garbled, c2s, s2c, served>>

\* The handle goes away: nova_ipc_client_destroy between two calls, or the death
\* of its process at any moment, when the kernel closes the client's end.
Leave(c) ==
  /\ CliOpen(c) /\ Quit(c)
  /\ UNCHANGED <<serverVars, backlog, srvEnd, call, garbled, c2s, served>>

\* The rest of a call that has begun.
FinishCall(c) ==
  \/ SendBody(c) \/ SendFails(c)
  \/ RecvReplyHdr(c) \/ ReplyGrowFails(c) \/ RecvReplyBody(c) \/ RecvFails(c)

ClientStep(c) ==
  \/ Connect(c) \/ ConnectRefused(c)
  \/ \E svc \in SvcIds, body \in BOOLEAN : SendHdr(c, svc, body)
  \/ FinishCall(c) \/ Misread(c) \/ Leave(c)

\* Nothing is left to do: the daemon is gone and so is every client.
Terminated ==
  /\ ~Listening /\ \A c \in Conns : cli[c] # "new" /\ ~CliOpen(c)
  /\ UNCHANGED vars

Next == ServerStep \/ Stop \/ (\E c \in Conns : ClientStep(c)) \/ Terminated

Spec == Init /\ [][Next]_vars

\* The server's thread is scheduled while it can run, and so is a client that
\* is inside nova_ipc_transact.  Starting a call, connecting and leaving are the
\* client's own choice, and so is sending a signal.  A call that misreads its
\* stream may wait for ever for bytes that a length it made up announces.
Fairness == WF_vars(ServerStep) /\ \A c \in Conns : WF_vars(cli[c] # "ready" /\ FinishCall(c))
FairSpec == Spec /\ Fairness
-----------------------------------------------------------------------------
(* Properties.                                                              *)

\* Types of all variables: the table stays within its bounds, and the server
\* finds a header where it expects one, also on a connection whose client no
\* longer waits for its replies.
TypeOK ==
  /\ pc \in ServerPcs /\ running \in BOOLEAN /\ stopCalled \in BOOLEAN
  /\ clientFds \in [Slots -> Fds] /\ nClients \in 0 .. MaxClients
  /\ fdTab \in [Fds -> Conns \cup {NoConn}]
  /\ rfds \in SUBSET Fds /\ listenReady \in BOOLEAN /\ idx \in 0 .. MaxClients
  /\ cur \in Request \cup {NoRequest}
  /\ backlog \in Seq(Conns)
  /\ srvEnd \in [Conns -> {"none", "open", "closed"}]
  /\ cli \in [Conns -> ClientStates]
  /\ c2s \in [Conns -> Seq(ReqPart)] /\ s2c \in [Conns -> Seq(RepPart)]
  /\ call \in [Conns -> 0 .. MaxCalls]
  /\ result \in [Conns -> Int] /\ garbled \in [Conns -> BOOLEAN]
  /\ served \in [Conns -> Seq([call : 1 .. MaxCalls, code : Int])]

\* The client table is exact while run is in its loop: no descriptor is in it
\* twice (a later swap-remove would close a stranger's), every descriptor in it
\* is open, and every open descriptor is in it (none leaks through accept at a
\* full table, end of file, or the swap).  When run has returned none is left open.
ClientTableExact ==
  IF pc \in {"created", "returned", "destroyed", "killed"}
  THEN OpenFds = {}
  ELSE /\ \A i, j \in 0 .. nClients - 1 : clientFds[i] = clientFds[j] => i = j
       /\ ClientFdSet = OpenFds

\* The server starts to read a request only from a connection on which select
\* saw data or end of file, and which nobody has drained since: the read of the
\* header never blocks the loop, although descriptors are closed, moved and
\* reused between select and the read.
HeaderReadNeverBlocks == pc = "recvHdr" => Readable(Cur)

\* A handle between two calls has nothing in flight in either direction, so the
\* next call cannot take an earlier call's reply for its own: as long as memory
\* was found for every reply of the handle.
QuietBetweenCalls ==
  \A c \in Conns : cli[c] = "ready" /\ ~garbled[c] =>
                     s2c[c] = <<>> /\ (srvEnd[c] # "closed" => c2s[c] = <<>>)

\* Every call begun on a handle that is in step returns, or its process dies,
\* whatever the other clients do: crash half way through a request, disconnect,
\* fill the table, misread their own replies.
CallsReturn ==
  \A c \in Conns : (cli[c] \in {"sendBody", "recvHdr", "recvBody"} /\ ~garbled[c]) ~>
                     cli[c] \in {"ready", "gone"}

\* A connection waiting for accept is accepted or closed eventually, although
\* only one is taken per turn of the loop.
PendingIsTaken ==
  \A c \in Conns : (cli[c] = "ready" /\ srvEnd[c] = "none") ~> srvEnd[c] # "none"

\* A stop that arrives once run has set running ends the loop: also one that
\* falls between the test of running and select, thanks to the timeout.
StopEndsRun == (stopCalled /\ ~running /\ pc # "created") ~> pc \in {"destroyed", "killed"}

-----------------------------------------------------------------------------
(* The transport implements remote calls with at-most-once execution.       *)

\* No result of a call: codes are 0, negative or 1.
NotRun == 2
Pending == 3
LastServed(c) == served[c][Len(served[c])]
\* A request, or a part of one, is in the stream or in the server's hands.
InFlight(c) ==
  \/ srvEnd[c] # "closed" /\ c2s[c] # <<>>
  \/ pc \in {"recvBody", "handle"} /\ Cur = c
RpcStateOf(c) == IF garbled[c] THEN "broken"
                 ELSE IF cli[c] \in {"new", "ready"} THEN "idle"
                 ELSE IF cli[c] # "gone" THEN "calling"
                 ELSE IF InFlight(c) THEN "orphan" ELSE "gone"
RpcCallOf(c) == IF garbled[c] THEN 0 ELSE call[c]
RpcDoneOf(c) == IF ~garbled[c] /\ Len(served[c]) > 0 /\ LastServed(c).call = call[c]
                THEN LastServed(c).code ELSE NotRun
RpcRetOf(c) == IF garbled[c] THEN ErrRecv
               ELSE IF cli[c] \in {"new", "ready"} THEN result[c] ELSE Pending
RpcState == [c \in Conns |-> RpcStateOf(c)]
RpcCall == [c \in Conns |-> RpcCallOf(c)]
RpcDone == [c \in Conns |-> RpcDoneOf(c)]
RpcRet == [c \in Conns |-> RpcRetOf(c)]
Rpc == INSTANCE NovaRpc WITH
  Codes <- HandlerRcs \cup {UnknownCode}, NotRun <- NotRun, Pending <- Pending,
  state <- RpcState, call <- RpcCall, done <- RpcDone, ret <- RpcRet

\* The handle of nova_ipc_transact behaves as NovaRpc says: at most one
\* execution per call, none after the call has returned, none at all for a call
\* that failed with NOVA_IPC_ERR_SEND, and the execution's code as the result,
\* up to the first reply of the handle for which there is no memory.
CallsAreAtMostOnce == Rpc!Spec

-----------------------------------------------------------------------------
(* What nova_ipc.h says and the code does not do.                           *)

\* nova_ipc.h:54 "Run the server event loop (blocks until nova_ipc_server_stop
\* is called)": run does not end before stop is called.
RunsUntilStopped == pc \in {"returned", "destroyed", "killed"} => stopCalled
=============================================================================

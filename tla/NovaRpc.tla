------------------------------ MODULE NovaRpc ------------------------------
(***************************************************************************)
(* What a caller of nova_ipc_transact may rely on, whatever the sockets,    *)
(* the daemon's loop and the other clients do.  Each handle makes calls one *)
(* after the other.  A call is executed at most once, and only between its  *)
(* beginning and its return, unless the caller died in it.  A code that is  *)
(* no transport error is the code of that execution.  After NOVA_IPC_ERR_SEND *)
(* the call has not been executed and never will be, so it may be repeated; *)
(* after NOVA_IPC_ERR_RECV it may have been executed.  Where that error      *)
(* means that the caller had no memory for a reply, the handle is broken:    *)
(* nothing is promised of the calls made through it afterwards.              *)
(***************************************************************************)
EXTENDS Integers

CONSTANTS Conns, Codes, MaxCalls, NotRun, Pending

ErrSend == -2
ErrRecv == -3

VARIABLES
  state,  \* idle or calling; gone, or orphan when what a dead caller has sent is
          \* still on its way; broken after a reply there was no memory for
  call,   \* calls made so far
  done,   \* the code of the execution of the last call, or NotRun
  ret     \* what the last call returned, Pending when there is nothing to see

rpcVars == <<state, call, done, ret>>

Init ==
  /\ state = [c \in Conns |-> "idle"] /\ call = [c \in Conns |-> 0]
  /\ done = [c \in Conns |-> NotRun] /\ ret = [c \in Conns |-> 0]

NewCall(c) ==
  /\ state[c] = "idle" /\ call[c] < MaxCalls
  /\ call' = [call EXCEPT ![c] = @ + 1]
  /\ done' = [done EXCEPT ![c] = NotRun]

Begin(c) ==
  /\ NewCall(c)
  /\ state' = [state EXCEPT ![c] = "calling"]
  /\ ret' = [ret EXCEPT ![c] = Pending]

\* The write of the header already fails.
BeginFails(c) ==
  /\ NewCall(c)
  /\ ret' = [ret EXCEPT ![c] = ErrSend]
  /\ UNCHANGED state

\* The handler runs; the caller of a call that was sent may be dead by now.
Execute(c) ==
  /\ state[c] \in {"calling", "orphan"} /\ call[c] > 0 /\ done[c] = NotRun
  /\ \E code \in Codes : done' = [done EXCEPT ![c] = code]
  /\ state' = [state EXCEPT ![c] = IF @ = "orphan" THEN "gone" ELSE @]
  /\ UNCHANGED <<call, ret>>

Return(c) ==
  /\ state[c] = "calling"
  /\ state' = [state EXCEPT ![c] = "idle"]
  /\ \/ done[c] # NotRun /\ ret' = [ret EXCEPT ![c] = done[c]]
     \/ done[c] = NotRun /\ ret' = [ret EXCEPT ![c] = ErrSend]
     \/ ret' = [ret EXCEPT ![c] = ErrRecv]
  /\ UNCHANGED <<call, done>>

\* The call was executed, but there is no memory for its reply: the caller is
\* told no more than NOVA_IPC_ERR_RECV, and the handle should not be used again.
Break(c) ==
  /\ state[c] = "calling" /\ done[c] # NotRun
  /\ state' = [state EXCEPT ![c] = "broken"]
  /\ call' = [call EXCEPT ![c] = 0]
  /\ done' = [done EXCEPT ![c] = NotRun]
  /\ ret' = [ret EXCEPT ![c] = ErrRecv]

\* The handle is destroyed, or its process dies, between two calls or in the
\* first write of one that fails: a call that has returned runs no more.
Leave(c) ==
  /\ state[c] = "idle"
  /\ state' = [state EXCEPT ![c] = "gone"]
  /\ ret' = [ret EXCEPT ![c] = Pending]
  /\ UNCHANGED <<call, done>> \/ NewCall(c)

\* The process dies inside a call.
Die(c) ==
  /\ state[c] = "calling"
  /\ \E left \in {"gone", "orphan"} : state' = [state EXCEPT ![c] = left]
  /\ UNCHANGED <<call, done, ret>>

\* What dead callers have sent is dropped, of several at once when the daemon ends.
Drop ==
  /\ \E S \in SUBSET Conns :
       state' = [c \in Conns |-> IF c \in S /\ state[c] = "orphan" THEN "gone" ELSE state[c]]
  /\ UNCHANGED <<call, done, ret>>

Next ==
  \/ \E c \in Conns : \/ Begin(c) \/ BeginFails(c) \/ Execute(c)
                       \/ Return(c) \/ Break(c) \/ Leave(c) \/ Die(c)
  \/ Drop

Spec == Init /\ [][Next]_rpcVars
=============================================================================

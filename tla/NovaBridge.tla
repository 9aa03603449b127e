----------------------------- MODULE NovaBridge -----------------------------
(***************************************************************************)
(* The Java side of the RPC transport: one NovaBinderTransport object, the    *)
(* JNI functions of transport_jni.c and the nova_ipc_client structures they   *)
(* allocate and free.  Neither class nor functions hold a lock, and the       *)
(* handle is read again for the native call after it has been tested.         *)
(*                                                                          *)
(* What a call does on the wire is NovaIpc's; here it begins and ends.        *)
(***************************************************************************)
EXTENDS Naturals, FiniteSets

CONSTANTS
  Threads,  \* Java threads that use the object
  Clients   \* nova_ipc_client structures: bounds the connects

Null == "null"

VARIABLES
  handle,     \* mNativeHandle
  pc,         \* where each thread is
  arg,        \* the handle a thread has passed to the native function it is in
  open,       \* clients that are allocated, with their descriptor
  freed,      \* clients that were destroyed
  misuse,     \* a destroyed client was used, or two calls met on one client
  overlapped, \* two threads have been inside methods of the object at once
  replaced    \* clients whose handle a connect has overwritten

vars == <<handle, pc, arg, open, freed, misuse, overlapped, replaced>>

Init ==
  /\ handle = Null /\ pc = [t \in Threads |-> "out"] /\ arg = [t \in Threads |-> Null]
  /\ open = {} /\ freed = {} /\ misuse = FALSE /\ overlapped = FALSE /\ replaced = {}

Goto(t, l) == pc' = [pc EXCEPT ![t] = l]

\* A thread enters a method.
Enter(t, l) ==
  /\ pc[t] = "out" /\ Goto(t, l)
  /\ overlapped' = (overlapped \/ \E u \in Threads \ {t} : pc[u] # "out")

-----------------------------------------------------------------------------
(* connect.                                                                 *)

ConnectEnter(t) == Enter(t, "connect") /\ UNCHANGED <<handle, arg, open, freed, misuse, replaced>>

\* nativeConnect: a new client, or 0 when nobody listens.
NativeConnect(t) ==
  /\ pc[t] = "connect" /\ Goto(t, "store")
  /\ \/ UNCHANGED open /\ arg' = [arg EXCEPT ![t] = Null]
     \/ \E c \in Clients \ (open \cup freed) : open' = open \cup {c} /\ arg' = [arg EXCEPT ![t] = c]
  /\ UNCHANGED <<handle, freed, misuse, overlapped, replaced>>

\* The handle is stored whatever it held.
Store(t) ==
  /\ pc[t] = "store" /\ Goto(t, "out")
  /\ handle' = arg[t] /\ arg' = [arg EXCEPT ![t] = Null]
  /\ replaced' = replaced \cup ({handle} \ {Null})
  /\ UNCHANGED <<open, freed, misuse, overlapped>>

-----------------------------------------------------------------------------
(* transact and close.                                                      *)

\* Both begin with a test of the handle; close and transact of an object that
\* is not connected return.
Test(t, l) ==
  /\ IF handle = Null
     THEN pc[t] = "out" /\ UNCHANGED <<pc, overlapped>>
     ELSE Enter(t, l)
  /\ UNCHANGED <<handle, arg, open, freed, misuse, replaced>>

TransactEnter(t) == Test(t, "load")
CloseEnter(t) == Test(t, "loadClose")

\* The argument of the native function: a second read.
Load(t) ==
  /\ pc[t] \in {"load", "loadClose"} /\ Goto(t, IF pc[t] = "load" THEN "begin" ELSE "destroy")
  /\ arg' = [arg EXCEPT ![t] = handle]
  /\ UNCHANGED <<handle, open, freed, misuse, overlapped, replaced>>

\* nativeTransact: NULL for 0; else nova_ipc_transact begins on the client's
\* stream, which another call must not be using.
Begin(t) ==
  /\ pc[t] = "begin" /\ Goto(t, IF arg[t] = Null THEN "out" ELSE "call")
  /\ misuse' = (misuse \/ \/ arg[t] \in freed
                          \/ \E u \in Threads : pc[u] = "call" /\ arg[u] = arg[t])
  /\ UNCHANGED <<handle, arg, open, freed, overlapped, replaced>>

\* The reply, or the error, comes through the same structure.
End(t) ==
  /\ pc[t] = "call" /\ Goto(t, "out")
  /\ misuse' = (misuse \/ arg[t] \in freed)
  /\ arg' = [arg EXCEPT ![t] = Null]
  /\ UNCHANGED <<handle, open, freed, overlapped, replaced>>

\* Mutant: the structure is not freed, only the handle cleared.
MutantDestroy(t) ==
  /\ pc[t] = "destroy" /\ Goto(t, "clear")
  /\ arg' = [arg EXCEPT ![t] = Null]
  /\ UNCHANGED <<handle, open, freed, misuse, overlapped, replaced>>

\* nativeClose: nova_ipc_client_destroy, which accepts NULL.
Destroy(t) ==
  /\ pc[t] = "destroy" /\ Goto(t, "clear")
  /\ misuse' = (misuse \/ arg[t] \in freed)
  /\ open' = open \ {arg[t]} /\ freed' = freed \cup ({arg[t]} \ {Null})
  /\ arg' = [arg EXCEPT ![t] = Null]
  /\ UNCHANGED <<handle, overlapped, replaced>>

\* Mutant: close leaves the handle.
MutantClear(t) ==
  /\ pc[t] = "clear" /\ Goto(t, "out")
  /\ UNCHANGED <<handle, arg, open, freed, misuse, overlapped, replaced>>

\* mNativeHandle = 0.
Clear(t) ==
  /\ pc[t] = "clear" /\ Goto(t, "out") /\ handle' = Null
  /\ UNCHANGED <<arg, open, freed, misuse, overlapped, replaced>>

Next ==
  \E t \in Threads :
    \/ ConnectEnter(t) \/ NativeConnect(t) \/ Store(t)
    \/ TransactEnter(t) \/ CloseEnter(t) \/ Load(t)
    \/ Begin(t) \/ End(t) \/ Destroy(t) \/ Clear(t)

Spec == Init /\ [][Next]_vars

-----------------------------------------------------------------------------
(* Properties.                                                              *)

\* Types; a structure is not open and freed at once.
TypeOK ==
  /\ handle \in Clients \cup {Null} /\ arg \in [Threads -> Clients \cup {Null}]
  /\ pc \in [Threads -> {"out", "connect", "store", "load", "loadClose", "begin", "call", "destroy", "clear"}]
  /\ open \subseteq Clients /\ freed \subseteq Clients \ open /\ replaced \subseteq Clients
  /\ misuse \in BOOLEAN /\ overlapped \in BOOLEAN

\* Callers that keep out of each other's way, whichever threads they are and in
\* whatever order they connect, transact and close, never use or free a client
\* that was freed and never meet on one stream.
SerialUseIsSafe == misuse => overlapped

\* As long as they do, every client that is open and no one can reach was lost
\* by a connect on an object that was connected.
Reachable == {handle} \cup {arg[t] : t \in Threads}
OnlyReconnectLeaks == ~overlapped => open \ Reachable \subseteq replaced
=============================================================================

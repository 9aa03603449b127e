-------------------------- MODULE NovaNativesProofs --------------------------
(***************************************************************************)
(* Proofs about the parts of NovaNatives, for all values of their constants. *)
(* A step of the whole is a step of one part and leaves the others alone, so  *)
(* each part has an inductive invariant of its own.                          *)
(***************************************************************************)
EXTENDS NovaNatives, SequenceTheorems, FiniteSetTheorems, WellFoundedInduction, TLAPS

\* What a step of the whole is to each part.
LEMMA PartSteps ==
  ASSUME [Next]_vars
  PROVE  /\ [Bridge!Next]_bridgeVars /\ [Props!Next]_propsVars /\ [Parcel!Next]_parcelVars
         /\ [Canvas!Next]_canvasVars /\ [Input!Next]_inputVars /\ [GLThread!Next]_glVars
BY DEF Next, vars

-----------------------------------------------------------------------------
(* NovaBridge.                                                              *)

\* What a thread alone in the object's methods has read, and what it is true of.
BridgeAlone ==
  /\ \A t, u \in Threads : pc[t] # "out" /\ pc[u] # "out" => t = u
  /\ \A t \in Threads :
       /\ pc[t] \in {"out", "connect", "load", "loadClose", "clear"} => arg[t] = Bridge!Null
       /\ pc[t] = "store" => arg[t] \in open \cup {Bridge!Null}
       /\ pc[t] \in {"load", "loadClose"} => handle # Bridge!Null
       /\ pc[t] \in {"begin", "call", "destroy"} => arg[t] = handle /\ handle # Bridge!Null
       /\ pc[t] = "clear" => handle \notin open
  /\ handle \in open \cup {Bridge!Null} \/ \E t \in Threads : pc[t] = "clear"

BridgeInv ==
  /\ Bridge!TypeOK
  /\ ~overlapped => BridgeAlone /\ ~misuse /\ Bridge!OnlyReconnectLeaks

LEMMA BridgeInit == Bridge!Init => BridgeInv
BY DEF Bridge!Init, BridgeInv, Bridge!TypeOK, BridgeAlone, Bridge!OnlyReconnectLeaks, Bridge!Reachable

LEMMA BridgeNext == BridgeInv /\ [Bridge!Next]_bridgeVars => BridgeInv'
<1> SUFFICES ASSUME BridgeInv, [Bridge!Next]_bridgeVars PROVE BridgeInv'  OBVIOUS
<1> USE DEF BridgeInv, Bridge!TypeOK, Bridge!Goto
<1>1. ASSUME NEW t \in Threads, Bridge!ConnectEnter(t) PROVE BridgeInv'
  BY <1>1 DEF Bridge!ConnectEnter, Bridge!Enter, BridgeAlone, Bridge!OnlyReconnectLeaks, Bridge!Reachable
<1>2. ASSUME NEW t \in Threads, Bridge!NativeConnect(t) PROVE BridgeInv'
  <2>1. Bridge!TypeOK'  BY <1>2 DEF Bridge!NativeConnect
  <2>2. ~overlapped' => ~misuse' /\ BridgeAlone'  BY <1>2 DEF Bridge!NativeConnect, BridgeAlone
  <2>3. ASSUME ~overlapped', NEW c \in open', c \notin Bridge!Reachable' PROVE c \in replaced'
    <3>1. ~overlapped /\ replaced' = replaced /\ handle' = handle /\ arg[t] = Bridge!Null
      BY <1>2, <2>3 DEF Bridge!NativeConnect, BridgeAlone
    <3>2. c # handle /\ \A u \in Threads : c # arg'[u]  BY <2>3, <3>1 DEF Bridge!Reachable
    <3>3. c \in open
      BY <1>2, <2>3, <3>2 DEF Bridge!NativeConnect
    <3>4. \A u \in Threads : u # t => arg'[u] = arg[u]  BY <1>2 DEF Bridge!NativeConnect
    <3> QED  BY <3>1, <3>2, <3>3, <3>4, NothingAssumption DEF Bridge!OnlyReconnectLeaks, Bridge!Reachable
  <2> QED  BY <2>1, <2>2, <2>3 DEF Bridge!OnlyReconnectLeaks
<1>3. ASSUME NEW t \in Threads, Bridge!Store(t) PROVE BridgeInv'
  BY <1>3 DEF Bridge!Store, BridgeAlone, Bridge!OnlyReconnectLeaks, Bridge!Reachable
<1>4. ASSUME NEW t \in Threads, Bridge!TransactEnter(t) \/ Bridge!CloseEnter(t) PROVE BridgeInv'
  <2>1. Bridge!TypeOK'  BY <1>4 DEF Bridge!TransactEnter, Bridge!CloseEnter, Bridge!Test, Bridge!Enter
  <2>2. ~overlapped' => ~misuse' /\ BridgeAlone'  BY ZenonT(60), <1>4 DEF Bridge!TransactEnter, Bridge!CloseEnter, Bridge!Test, Bridge!Enter, BridgeAlone
  <2>3. ~overlapped' => Bridge!OnlyReconnectLeaks'
    BY <1>4 DEF Bridge!TransactEnter, Bridge!CloseEnter, Bridge!Test, Bridge!Enter, BridgeAlone, Bridge!OnlyReconnectLeaks, Bridge!Reachable
  <2> QED  BY <2>1, <2>2, <2>3
<1>5. ASSUME NEW t \in Threads, Bridge!Load(t) PROVE BridgeInv'
  <2>1. Bridge!TypeOK'  BY <1>5 DEF Bridge!Load
  <2>2. ~overlapped' => ~misuse' /\ BridgeAlone'  BY <1>5 DEF Bridge!Load, BridgeAlone
  <2>3. ASSUME ~overlapped', NEW c \in open', c \notin Bridge!Reachable' PROVE c \in replaced'
    <3>1. /\ ~overlapped /\ replaced' = replaced /\ handle' = handle /\ open' = open
          /\ arg[t] = Bridge!Null /\ arg'[t] = handle
          /\ \A u \in Threads : u # t => arg'[u] = arg[u]
      BY <1>5, <2>3 DEF Bridge!Load, BridgeAlone
    <3>2. c # handle /\ \A u \in Threads : c # arg'[u]  BY <2>3, <3>1 DEF Bridge!Reachable
    <3> QED  BY <3>1, <3>2, <2>3, NothingAssumption DEF Bridge!OnlyReconnectLeaks, Bridge!Reachable
  <2> QED  BY <2>1, <2>2, <2>3 DEF Bridge!OnlyReconnectLeaks
<1>6. ASSUME NEW t \in Threads, Bridge!Begin(t) PROVE BridgeInv'
  BY <1>6 DEF Bridge!Begin, BridgeAlone, Bridge!OnlyReconnectLeaks, Bridge!Reachable
<1>7. ASSUME NEW t \in Threads, Bridge!End(t) PROVE BridgeInv'
  BY <1>7 DEF Bridge!End, BridgeAlone, Bridge!OnlyReconnectLeaks, Bridge!Reachable
<1>8. ASSUME NEW t \in Threads, Bridge!Destroy(t) PROVE BridgeInv'
  BY <1>8 DEF Bridge!Destroy, BridgeAlone, Bridge!OnlyReconnectLeaks, Bridge!Reachable
<1>9. ASSUME NEW t \in Threads, Bridge!Clear(t) PROVE BridgeInv'
  BY <1>9 DEF Bridge!Clear, BridgeAlone, Bridge!OnlyReconnectLeaks, Bridge!Reachable
<1>10. CASE UNCHANGED bridgeVars
  BY <1>10 DEF bridgeVars, BridgeAlone, Bridge!OnlyReconnectLeaks, Bridge!Reachable
<1> QED  BY <1>1, <1>2, <1>3, <1>4, <1>5, <1>6, <1>7, <1>8, <1>9, <1>10 DEF Bridge!Next

LEMMA BridgeInvariant == Spec => []BridgeInv
<1>1. Init => BridgeInv  BY BridgeInit DEF Init
<1>2. BridgeInv /\ [Next]_vars => BridgeInv'  BY BridgeNext, PartSteps
<1> QED  BY <1>1, <1>2, PTL DEF Spec

\* Any number of threads, used one at a time: no client is used or destroyed
\* after it was destroyed, and no two calls share a stream.
THEOREM BridgeIsSafe == Spec => []SerialUseIsSafe
<1>1. BridgeInv => SerialUseIsSafe
  BY DEF BridgeInv, Bridge!TypeOK, SerialUseIsSafe, Bridge!SerialUseIsSafe
<1> QED  BY <1>1, BridgeInvariant, PTL

\* Used so, a client that nothing refers to was overwritten by a connect.
THEOREM BridgeLeaksByReconnect == Spec => []OnlyReconnectLeaks
<1>1. BridgeInv => OnlyReconnectLeaks
  BY DEF BridgeInv, OnlyReconnectLeaks, Bridge!OnlyReconnectLeaks
<1> QED  BY <1>1, BridgeInvariant, PTL

-----------------------------------------------------------------------------
(* NovaInput.                                                               *)

\* Until the seat's devices change, only the answers to the bindings come, and
\* they come before the seat has a listener: there are no devices, hence no
\* event that stores anything, and the pointer of nova_art_init stays.
InputQuiet ==
  /\ devices = {} /\ ~entered /\ hostPc # "crashed"
  /\ hostPc = "connect" => seat = "none"
  /\ hostPc = "roundtrip" =>
       /\ seat # "listened"
       /\ wire = <<Input!Event("done")>> \/ \E c \in SUBSET Input!Devices : wire = <<Input!Capabilities(c), Input!Event("done")>>
  /\ hostPc # "roundtrip" => wire = <<>>
  /\ hostPc \in {"loop", "shutdown"} => mem[Input!HostLayout.jvm] = "vm"

InputInv ==
  /\ mem \in [Input!Words -> {Input!Zero, "vm", "env", "lib", "coords", "pressed"}] /\ changes \in Nat
  /\ caps \subseteq Input!Devices /\ (changes = 0 => InputQuiet)

LEMMA InputInit == Input!Init => InputInv
BY DEF Input!Init, InputInv, InputQuiet, Input!Zero

LEMMA InputNext == InputInv /\ [Input!Next]_inputVars => InputInv'
<1> SUFFICES ASSUME InputInv, [Input!Next]_inputVars PROVE InputInv'  OBVIOUS
<1> USE DEF InputInv, Input!Words, Input!Zero, Input!HostLayout, Input!WaylandLayout
<1>1. CASE Input!Dispatch
  <2>1. mem' \in [Input!Words -> {Input!Zero, "vm", "env", "lib", "coords", "pressed"}] /\ changes' \in Nat /\ caps' = caps
    BY <1>1 DEF Input!Dispatch, Input!SeatCapabilities, Input!Enter, Input!Motion, Input!Button, Input!Key,
                Input!StoreCoords, Input!userVars
  <2>2. ASSUME changes' = 0 PROVE InputQuiet'
    <3>1. changes = 0 /\ InputQuiet /\ hostPc = "roundtrip" /\ UNCHANGED <<seat, entered>>
      BY <1>1, <2>2 DEF Input!Dispatch, InputQuiet, Input!userVars
    <3>2. CASE wire = <<Input!Event("done")>>
      <4>1. Head(wire).kind = "done" /\ Tail(wire) = <<>>  BY <3>2 DEF Input!Event
      <4> QED  BY <1>1, <3>1, <4>1 DEF Input!Dispatch, InputQuiet
    <3>3. ASSUME NEW c \in SUBSET Input!Devices, wire = <<Input!Capabilities(c), Input!Event("done")>>
          PROVE  InputQuiet'
      <4>1. Head(wire).kind = "capabilities" /\ Tail(wire) = <<Input!Event("done")>>
        BY <3>3 DEF Input!Capabilities
      <4>2. devices' = devices /\ hostPc' = hostPc /\ wire' = Tail(wire)
        BY <1>1, <3>1, <4>1 DEF Input!Dispatch, Input!SeatCapabilities, InputQuiet
      <4> QED  BY <3>1, <4>1, <4>2 DEF InputQuiet
    <3> QED  BY <3>1, <3>2, <3>3 DEF InputQuiet
  <2> QED  BY <2>1, <2>2
<1>2. CASE Input!Connect
  <2>1. changes = 0 => InputQuiet'
    <3> SUFFICES ASSUME changes = 0 PROVE InputQuiet'  OBVIOUS
    <3>1. devices' = {} /\ ~entered' /\ hostPc' \in {"exit", "roundtrip"}
      BY <1>2 DEF Input!Connect, InputQuiet, Input!userVars
    <3>2. hostPc' = "exit" => wire' = <<>>  BY <1>2 DEF Input!Connect, InputQuiet
    <3>4. hostPc' = "roundtrip" =>
            /\ seat' # "listened"
            /\ wire' = <<Input!Event("done")>> \/ \E c \in SUBSET Input!Devices : wire' = <<Input!Capabilities(c), Input!Event("done")>>
      BY <1>2 DEF Input!Connect, InputQuiet
    <3> QED  BY <3>1, <3>2, <3>4 DEF InputQuiet
  <2> QED  BY <1>2, <2>1 DEF Input!Connect, Input!userVars
<1>3. CASE Input!Listen
  BY <1>3 DEF Input!Listen, InputQuiet, Input!userVars
<1>4. CASE Input!Configured
  BY <1>4 DEF Input!Configured, InputQuiet, Input!userVars
<1>5. CASE Input!ArtInit
  BY <1>5 DEF Input!ArtInit, InputQuiet, Input!userVars
<1>6. CASE Input!ArtShutdown
  BY <1>6 DEF Input!ArtShutdown, InputQuiet, Input!userVars
<1>7. CASE Input!LoopEnds
  BY <1>7 DEF Input!LoopEnds, InputQuiet, Input!userVars
<1>8. CASE Input!CapabilitiesChange
  BY <1>8 DEF Input!CapabilitiesChange, Input!clientVars
<1>9. CASE Input!UserMoves
  BY <1>9 DEF Input!UserMoves, InputQuiet, Input!clientVars
<1>10. CASE Input!UserClicks \/ Input!UserTypes
  BY <1>10 DEF Input!UserClicks, Input!UserTypes, InputQuiet, Input!clientVars, Input!userVars
<1>11. CASE UNCHANGED inputVars
  BY <1>11 DEF inputVars, InputQuiet
<1> QED  BY <1>1, <1>2, <1>3, <1>4, <1>5, <1>6, <1>7, <1>8, <1>9, <1>10, <1>11 DEF Input!Next, Input!HostStep

\* The pointer to the virtual machine that nova_art_init leaves is what shutdown
\* finds, in every behaviour in which the seat's devices do not change.
THEOREM InputKeepsVmPointer == Spec => []VmPointerKept
<1>1. Init => InputInv  BY InputInit DEF Init
<1>2. InputInv /\ [Next]_vars => InputInv'  BY InputNext, PartSteps
<1>3. InputInv => VmPointerKept
  BY DEF InputInv, InputQuiet, VmPointerKept, Input!VmPointerKept
<1> QED  BY <1>1, <1>2, <1>3, PTL DEF Spec

-----------------------------------------------------------------------------
(* NovaCanvas.                                                              *)

CanvasState == [shift : Int, left : Int, right : Int]

\* The levels that have a place hold what they were saved with, deeper ones or not.
LevelsKept ==
  /\ Len(ideal) = depth - 1
  /\ \A i \in 1..Len(ideal) : i <= Levels => saved[i] = ideal[i]

CanvasInv ==
  /\ width \in Nat /\ state \in CanvasState /\ depth \in Nat \ {0}
  /\ saved \in [1..Levels -> CanvasState] /\ ideal \in Seq(CanvasState) /\ skewed \in BOOLEAN
  /\ (~skewed => LevelsKept)

LEMMA CanvasFront ==
  ASSUME NEW S, NEW s \in Seq(S), Len(s) > 0
  PROVE  /\ Canvas!Front(s) \in Seq(S) /\ Len(Canvas!Front(s)) = Len(s) - 1
         /\ \A i \in 1..(Len(s) - 1) : Canvas!Front(s)[i] = s[i]
<1>1. Len(s) \in Nat \ {0} /\ DOMAIN s = 1..Len(s) /\ \A i \in 1..(Len(s) - 1) : s[i] \in S
  BY LenProperties
<1>2. /\ SubSeq(s, 1, Len(s) - 1) \in Seq(S) /\ Len(SubSeq(s, 1, Len(s) - 1)) = Len(s) - 1
      /\ \A i \in 1..(Len(s) - 1) : SubSeq(s, 1, Len(s) - 1)[i] = s[i]
  BY <1>1, SubSeqProperties
<1> QED  BY <1>2 DEF Canvas!Front

LEMMA CanvasInit == Canvas!Init => CanvasInv
<1> SUFFICES ASSUME Canvas!Init PROVE CanvasInv  OBVIOUS
<1>1. width \in Nat  BY NativesAssumption DEF Canvas!Init
<1>2. \A w \in Nat : Canvas!Whole(w) \in CanvasState  BY DEF Canvas!Whole, CanvasState
<1>3. state \in CanvasState  BY <1>1, <1>2 DEF Canvas!Init
<1>4. saved \in [1..Levels -> CanvasState] /\ ideal \in Seq(CanvasState) /\ Len(ideal) = 0
  BY <1>2, NativesAssumption DEF Canvas!Init
<1>5. depth = 1 /\ skewed \in BOOLEAN  BY DEF Canvas!Init
<1>6. LevelsKept  BY <1>4, <1>5 DEF LevelsKept
<1> QED  BY <1>1, <1>3, <1>4, <1>5, <1>6 DEF CanvasInv

LEMMA CanvasRestore ==
  ASSUME CanvasInv, Canvas!NativeRestore, skewed' \in BOOLEAN, skewed => skewed'
  PROVE  /\ CanvasInv'
         /\ depth' <= Levels /\ ~skewed' => state' = ideal[depth']
<1> USE DEF CanvasInv, Canvas!NativeRestore
<1>1. Levels \in Nat  BY NativesAssumption
<1>2. depth' \in Nat \ {0} /\ depth' = depth - 1 /\ width' \in Nat /\ saved' = saved  OBVIOUS
<1>3. state' \in CanvasState  BY <1>1, <1>2
<1>4. CASE skewed'
  BY <1>2, <1>3, <1>4
<1>5. CASE ~skewed'
  <2>1. Len(ideal) = depth - 1 /\ Len(ideal) > 0 /\ ideal' = Canvas!Front(ideal)  BY <1>2, <1>5 DEF LevelsKept
  <2>2. ideal' \in Seq(CanvasState) /\ Len(ideal') = Len(ideal) - 1
        /\ \A i \in 1..(Len(ideal) - 1) : ideal'[i] = ideal[i]
    BY <2>1, CanvasFront
  <2>3. LevelsKept'  BY <1>2, <1>5, <2>1, <2>2 DEF LevelsKept
  <2>4. depth' <= Levels => state' = ideal[depth']  BY <1>1, <1>2, <1>5, <2>1 DEF LevelsKept
  <2> QED  BY <1>2, <1>3, <1>5, <2>2, <2>3, <2>4
<1> QED  BY <1>4, <1>5

LEMMA CanvasNext ==
  ASSUME CanvasInv, [Canvas!Next]_canvasVars
  PROVE  CanvasInv' /\ (depth' < depth /\ depth' <= Levels /\ ~skewed' => state' = ideal[depth'])
<1>0. Levels \in Nat /\ Shifts \subseteq Int /\ Coords \subseteq Int /\ Widths \subseteq Nat  BY NativesAssumption
<1> USE DEF CanvasInv
<1>1. ASSUME NEW w \in Widths, Canvas!SetBitmap(w)
      PROVE  CanvasInv' /\ depth' = depth
  <2>1. w \in Int /\ state' = [state EXCEPT !.left = 0, !.right = w]  BY <1>0, <1>1 DEF Canvas!SetBitmap
  <2>2. state' = [shift |-> state.shift, left |-> 0, right |-> w] /\ state.shift \in Int  BY <2>1 DEF CanvasState
  <2>3. state' \in CanvasState  BY <2>1, <2>2 DEF CanvasState
  <2> QED  BY <1>0, <1>1, <2>3 DEF Canvas!SetBitmap, LevelsKept
<1>2. CASE Canvas!Save
  <2>1. /\ depth' = depth + 1 /\ UNCHANGED <<width, state, skewed>>
        /\ saved' = IF depth <= Levels THEN [saved EXCEPT ![depth] = state] ELSE saved
        /\ ideal' = IF skewed THEN <<>> ELSE Append(ideal, state)
    BY <1>2 DEF Canvas!Save
  <2>2. saved' \in [1..Levels -> CanvasState] /\ ideal' \in Seq(CanvasState)  BY <1>0, <2>1
  <2>3. ASSUME ~skewed' PROVE LevelsKept'
    <3>1. ideal' = Append(ideal, state) /\ Len(ideal) = depth - 1  BY <2>1, <2>3 DEF LevelsKept
    <3>2. /\ Len(ideal') = depth /\ ideal'[depth] = state
          /\ \A i \in 1..(depth - 1) : ideal'[i] = ideal[i]
      BY <3>1
    <3>3. \A i \in 1..(depth - 1) : i <= Levels => saved'[i] = ideal[i]  BY <1>0, <2>1, <2>3, <3>1 DEF LevelsKept
    <3>4. depth <= Levels => saved'[depth] = state  BY <1>0, <2>1
    <3> QED  BY <2>1, <3>2, <3>3, <3>4 DEF LevelsKept
  <2> QED  BY <2>1, <2>2, <2>3
<1>3. CASE Canvas!Restore \/ \E c \in 2..depth : Canvas!RestoreToCount(c)
  BY <1>3, CanvasRestore DEF Canvas!Restore, Canvas!RestoreToCount
<1>4. ASSUME NEW d \in Shifts, Canvas!Translate(d)
      PROVE  CanvasInv' /\ depth' = depth
  <2>1. state' \in CanvasState  BY <1>0, <1>4 DEF Canvas!Translate, CanvasState
  <2> QED  BY <1>4, <2>1 DEF Canvas!Translate, LevelsKept
<1>5. ASSUME NEW a \in Coords, NEW b \in Coords, Canvas!ClipRect(a, b)
      PROVE  CanvasInv' /\ depth' = depth
  <2>1. \A v, l, r \in Int : Canvas!Clamp(v, l, r) \in Int  BY DEF Canvas!Clamp
  <2>2. a \in Int /\ b \in Int /\ width \in Int /\ state.shift \in Int /\ state.left \in Int /\ state.right \in Int
    BY <1>0 DEF CanvasState
  <2> HIDE DEF CanvasInv
  <2>3. /\ (IF b < a THEN b ELSE a) + state.shift \in Int
        /\ (IF b < a THEN a ELSE b) + state.shift \in Int
    BY <2>2
  <2>4. \E l, r \in Int : state' = [state EXCEPT !.left = l, !.right = r]
    <3> DEFINE x == (IF b < a THEN b ELSE a) + state.shift
               y == (IF b < a THEN a ELSE b) + state.shift
               lo == Canvas!Clamp(x, 0, width)
               hi == Canvas!Clamp(y, 0, width)
               left == IF lo > state.left THEN lo ELSE state.left
               right == IF hi < state.right THEN hi ELSE state.right
    <3>0. x \in Int /\ y \in Int  BY <2>3
    <3> HIDE DEF x, y
    <3>1. lo \in Int /\ hi \in Int
      <4>1. width \in Int /\ 0 \in Int  BY <2>2
      <4> QED  BY <2>1, <3>0, <4>1
    <3>2. left \in Int /\ right \in Int  BY <2>2, <3>1
    <3>3. state' = [state EXCEPT !.left = IF left > right THEN right ELSE left, !.right = right]
      BY <1>5 DEF Canvas!ClipRect, x, y
    <3> QED  BY <3>2, <3>3
  <2>5. state' \in CanvasState  BY <2>4 DEF CanvasState, CanvasInv
  <2> QED  BY <1>5, <2>5 DEF CanvasInv, Canvas!ClipRect, LevelsKept
<1>6. CASE UNCHANGED canvasVars
  BY <1>6 DEF canvasVars, LevelsKept
<1> QED  BY <1>1, <1>2, <1>3, <1>4, <1>5, <1>6 DEF Canvas!Next

\* Every restore to a level that has a place brings back what that level was
\* saved with, however many places there are and however deep the saves went.
THEOREM CanvasRestoresLevels == Spec => RestoreBringsBack
<1>1. Init => CanvasInv  BY CanvasInit DEF Init
<1>2. CanvasInv /\ [Next]_vars => CanvasInv'  BY CanvasNext, PartSteps
<1>3. CanvasInv /\ [Next]_vars =>
        [depth' < depth /\ depth' <= Levels /\ ~skewed' => state' = ideal[depth']]_Canvas!vars
  BY CanvasNext, PartSteps DEF canvasVars, Canvas!vars
<1> QED  BY <1>1, <1>2, <1>3, PTL DEF Spec, RestoreBringsBack, Canvas!RestoreBringsBack

-----------------------------------------------------------------------------
(* NovaProps.                                                               *)

PropRows == (Keys \cup {Props!Empty}) \X (Vals \cup {Props!Empty})

PropsTypes ==
  /\ table \in [1..(MaxProps + 1) -> PropRows] /\ count \in 0..MaxProps
  /\ wr \in [Writers -> [pc : {"out", "key", "val", "load", "store"}, key : Keys \cup {Props!Empty},
                         val : Vals \cup {Props!Empty}, n : Nat]]
  /\ rd \in [Readers -> [pc : {"out", "scan", "back"}, key : Keys \cup {Props!Empty}, i : Nat \ {0},
                         result : Vals \cup {Props!None, Props!Empty}, known : Vals \cup {Props!None}]]
  /\ first \in [Keys -> Vals \cup {Props!None}]

\* One set at a time: the row behind the last is the one it writes.
WritersOK ==
  /\ ~overrun
  /\ \A t, u \in Writers : wr[t].pc # "out" /\ wr[u].pc # "out" => t = u
  /\ \A t \in Writers :
       /\ wr[t].pc # "out" => count < MaxProps /\ wr[t].key \in Keys /\ wr[t].val \in Vals
       /\ wr[t].pc \in {"val", "load", "store"} => table[count + 1][1] = wr[t].key
       /\ wr[t].pc \in {"load", "store"} => table[count + 1][2] = wr[t].val
       /\ wr[t].pc = "store" => wr[t].n = count

\* The key is in none of the n first rows.
AbsentBelow(rows, k, n) == \A i \in 1..n : rows[i][1] # k

\* first says what the first row of a key holds.
FirstOK ==
  \A k \in Keys :
    \/ first[k] = Props!None /\ AbsentBelow(table, k, count)
    \/ \E i \in 1..count : table[i][1] = k /\ table[i][2] = first[k] /\ first[k] \in Vals /\ AbsentBelow(table, k, i - 1)

\* A get has passed rows of other keys only.
ReadersOK ==
  \A t \in Readers :
    /\ rd[t].pc # "out" => rd[t].key \in Keys
    /\ rd[t].pc = "scan" => /\ rd[t].i \in 1..(count + 1) /\ AbsentBelow(table, rd[t].key, rd[t].i - 1)
                            /\ rd[t].result = Props!None /\ rd[t].known \in {Props!None, first[rd[t].key]}
    /\ rd[t].pc = "back" => \/ rd[t].result = first[rd[t].key] /\ rd[t].result \in Vals
                            \/ rd[t].result = Props!None /\ rd[t].known = Props!None

PropsInv == raced \/ (PropsTypes /\ WritersOK /\ FirstOK /\ ReadersOK)

\* What a copy into one half of a row makes of it.
LEMMA RowExcept ==
  ASSUME NEW r \in PropRows
  PROVE  /\ \A k \in Keys \cup {Props!Empty} : [r EXCEPT ![1] = k] \in PropRows /\ [r EXCEPT ![1] = k][1] = k
         /\ \A v \in Vals \cup {Props!Empty} : /\ [r EXCEPT ![2] = v] \in PropRows
                                               /\ [r EXCEPT ![2] = v][1] = r[1] /\ [r EXCEPT ![2] = v][2] = v
<1>1. DOMAIN r = {1, 2}
  BY DEF PropRows
<1>2. r = <<r[1], r[2]>> /\ r[1] \in Keys \cup {Props!Empty} /\ r[2] \in Vals \cup {Props!Empty}
  BY DEF PropRows
<1>3. \A k : [r EXCEPT ![1] = k] = <<k, r[2]>>
  BY <1>1, <1>2
<1>4. \A k : [r EXCEPT ![2] = k] = <<r[1], k>>
  BY <1>1, <1>2
<1> QED  BY <1>2, <1>3, <1>4 DEF PropRows

\* A set of numbers has a least one.
LEMMA RowsMin ==
  ASSUME NEW S \in SUBSET Nat, S # {}
  PROVE  \E x \in S : \A y \in S : x <= y
<1>1. PICK x \in S : \A y \in S : <<y, x>> \notin OpToRel(<, Nat)  BY NatLessThanWellFounded, WFMin
<1>2. ASSUME NEW y \in S PROVE x <= y
  <2>1. ~(y < x)  BY <1>1 DEF OpToRel
  <2> QED  BY <2>1
<1> QED  BY <1>2

LEMMA PropsInit == Props!Init => PropsInv
<1> SUFFICES ASSUME Props!Init PROVE PropsInv  OBVIOUS
<1>0. /\ MaxProps \in Nat /\ Seed \in Seq(Keys \X Vals) /\ Len(Seed) <= MaxProps /\ Len(Seed) \in Nat
      /\ \A i \in 1..Len(Seed) : Seed[i] \in Keys \X Vals
  BY NativesAssumption
<1>1. \A i \in 1..Len(Seed) : Seed[i] \in PropRows /\ Seed[i][1] \in Keys /\ Seed[i][2] \in Vals
  BY <1>0 DEF PropRows
<1>2. table \in [1..(MaxProps + 1) -> PropRows] /\ \A i \in 1..Len(Seed) : table[i] = Seed[i]
  BY <1>0, <1>1 DEF Props!Init, PropRows
<1>3. count = Len(Seed) /\ count \in 0..MaxProps  BY <1>0 DEF Props!Init
<1> DEFINE Rows(k) == {i \in 1..Len(Seed) : Seed[i][1] = k}
<1>4. ASSUME NEW k \in Keys
      PROVE  /\ first[k] \in Vals \cup {Props!None}
             /\ \/ first[k] = Props!None /\ AbsentBelow(table, k, count)
                \/ \E i \in 1..count : table[i][1] = k /\ table[i][2] = first[k] /\ first[k] \in Vals /\ AbsentBelow(table, k, i - 1)
  <2>1. first[k] = IF Rows(k) = {} THEN Props!None ELSE Seed[Props!Min(Rows(k))][2]
    BY DEF Props!Init
  <2>2. CASE Rows(k) = {}
    BY <1>2, <1>3, <2>1, <2>2 DEF AbsentBelow
  <2>3. CASE Rows(k) # {}
    <3>1. Props!Min(Rows(k)) = CHOOSE x \in Rows(k) : \A y \in Rows(k) : x <= y  BY DEF Props!Min
    <3>0. Rows(k) \in SUBSET Nat  BY <1>0
    <3>2. PICK x \in Rows(k) : \A y \in Rows(k) : x <= y  BY <2>3, <3>0, RowsMin
    <3>3. Props!Min(Rows(k)) \in Rows(k) /\ \A y \in Rows(k) : Props!Min(Rows(k)) <= y  BY <3>1, <3>2
    <3> DEFINE m == Props!Min(Rows(k))
    <3>4. m \in 1..Len(Seed) /\ Seed[m][1] = k /\ first[k] = Seed[m][2]  BY <2>1, <2>3, <3>3
    <3>5. \A i \in 1..(m - 1) : Seed[i][1] # k  BY <1>0, <3>3, <3>4
    <3> HIDE DEF m
    <3>6. AbsentBelow(table, k, m - 1)
      <4>1. \A i \in 1..(m - 1) : i \in 1..Len(Seed)  BY <1>0, <3>4
      <4> QED  BY <1>2, <3>5, <4>1 DEF AbsentBelow
    <3> QED  BY <1>1, <1>2, <1>3, <3>4, <3>6
  <2> QED  BY <2>2, <2>3
<1>5. first = [k \in Keys |-> first[k]]  BY DEF Props!Init
<1>6. FirstOK  BY <1>4 DEF FirstOK
<1>7. PropsTypes
  <2>1. first \in [Keys -> Vals \cup {Props!None}]  BY <1>4, <1>5
  <2> QED  BY <1>2, <1>3, <2>1 DEF PropsTypes, Props!Init, Props!Idle, Props!Resting
<1>8. WritersOK /\ ReadersOK  BY DEF WritersOK, ReadersOK, Props!Init, Props!Idle, Props!Resting
<1> QED  BY <1>6, <1>7, <1>8 DEF PropsInv, Props!Init

\* What holds of the rows below count is not disturbed by a copy behind them.
LEMMA RowsBelow ==
  ASSUME PropsTypes, FirstOK, ReadersOK, UNCHANGED <<count, first, rd>>,
         \A i \in 1..count : table'[i] = table[i]
  PROVE  FirstOK' /\ ReadersOK'
<1>1. count \in Nat  BY DEF PropsTypes
<1>2. ASSUME NEW k, NEW n \in Int, n <= count, AbsentBelow(table, k, n) PROVE AbsentBelow(table', k, n)
  BY <1>1, <1>2 DEF AbsentBelow
<1>3. FirstOK'
  <2> SUFFICES ASSUME NEW k \in Keys
               PROVE  \/ first[k] = Props!None /\ AbsentBelow(table', k, count)
                      \/ \E i \in 1..count : /\ table'[i][1] = k /\ table'[i][2] = first[k] /\ first[k] \in Vals
                                             /\ AbsentBelow(table', k, i - 1)
    BY DEF FirstOK
  <2>1. CASE first[k] = Props!None /\ AbsentBelow(table, k, count)  BY <1>1, <1>2, <2>1
  <2>2. ASSUME NEW i \in 1..count, table[i][1] = k, table[i][2] = first[k], first[k] \in Vals, AbsentBelow(table, k, i - 1)
        PROVE  table'[i][1] = k /\ table'[i][2] = first[k] /\ AbsentBelow(table', k, i - 1)
    <3>1. i - 1 \in Int /\ i - 1 <= count  BY <1>1
    <3> QED  BY <1>2, <2>2, <3>1
  <2> QED  BY <2>1, <2>2 DEF FirstOK
<1>4. ReadersOK'
  <2>1. ASSUME NEW t \in Readers, rd[t].pc = "scan"
        PROVE  AbsentBelow(table', rd[t].key, rd[t].i - 1)
    <3>1. rd[t].i - 1 \in Int /\ rd[t].i - 1 <= count  BY <1>1, <2>1 DEF ReadersOK
    <3> HIDE DEF PropsTypes
    <3> DEFINE k == rd[t].key
               n == rd[t].i - 1
    <3>2. AbsentBelow(table, k, n)  BY <2>1 DEF ReadersOK
    <3>3. \A i \in 1..n : table'[i][1] # k  BY <1>1, <3>1, <3>2 DEF AbsentBelow
    <3> QED  BY <3>3 DEF AbsentBelow
  <2> QED  BY <2>1 DEF ReadersOK
<1> QED  BY <1>3, <1>4

LEMMA PropsCopy ==
  ASSUME PropsInv, ~raced, NEW t \in Writers, Props!CopyKey(t) \/ Props!CopyVal(t)
  PROVE  PropsInv'
<1>0. PropsTypes /\ WritersOK /\ FirstOK /\ ReadersOK /\ ~raced'
  BY DEF PropsInv, Props!CopyKey, Props!CopyVal, Props!Copy
<1>1. /\ wr[t].pc \in {"key", "val"} /\ count < MaxProps /\ MaxProps \in Nat /\ count \in Nat
      /\ UNCHANGED <<count, first, rd, raced>>
  BY <1>0, NativesAssumption DEF WritersOK, PropsTypes, Props!CopyKey, Props!CopyVal, Props!Copy
<1>2. count + 1 \in 1..(MaxProps + 1) /\ count # MaxProps /\ DOMAIN table = 1..(MaxProps + 1) /\ table[count + 1] \in PropRows
  BY <1>0, <1>1 DEF PropsTypes
<1>3. wr[t].key \in Keys /\ wr[t].val \in Vals  BY <1>0, <1>1 DEF WritersOK
<1>4. \E next \in {"val", "load"} : wr' = [wr EXCEPT ![t].pc = next] /\ (next = "val" <=> wr[t].pc = "key")
  BY <1>1 DEF Props!CopyKey, Props!CopyVal, Props!Copy
<1>5. ~overrun'  BY <1>0, <1>2 DEF WritersOK, Props!CopyKey, Props!CopyVal, Props!Copy
<1>6. \/ wr[t].pc = "key" /\ table' = [table EXCEPT ![count + 1] = [@ EXCEPT ![1] = wr[t].key]]
      \/ wr[t].pc = "val" /\ table' = [table EXCEPT ![count + 1] = [@ EXCEPT ![2] = wr[t].val]]
  BY <1>2 DEF Props!CopyKey, Props!CopyVal, Props!Copy
<1>7. /\ table' \in [1..(MaxProps + 1) -> PropRows] /\ \A i \in 1..count : table'[i] = table[i]
      /\ (wr[t].pc = "key" => table'[count + 1][1] = wr[t].key)
      /\ (wr[t].pc = "val" => table'[count + 1][1] = table[count + 1][1] /\ table'[count + 1][2] = wr[t].val)
  <2>1. \A r : [table EXCEPT ![count + 1] = r][count + 1] = r /\ \A i \in 1..count : [table EXCEPT ![count + 1] = r][i] = table[i]
    BY <1>0, <1>1, <1>2 DEF PropsTypes
  <2>2. \A r \in PropRows : [table EXCEPT ![count + 1] = r] \in [1..(MaxProps + 1) -> PropRows]
    BY <1>0 DEF PropsTypes
  <2>3. CASE wr[t].pc = "key"
    <3>1. table' = [table EXCEPT ![count + 1] = [table[count + 1] EXCEPT ![1] = wr[t].key]]  BY <1>6, <2>3
    <3> DEFINE r == [table[count + 1] EXCEPT ![1] = wr[t].key]
    <3>2. r \in PropRows /\ r[1] = wr[t].key  BY <1>2, <1>3, RowExcept
    <3> HIDE DEF r
    <3> QED  BY ZenonT(60), <2>1, <2>2, <2>3, <3>1, <3>2 DEF r
  <2>4. CASE wr[t].pc = "val"
    <3>1. table' = [table EXCEPT ![count + 1] = [table[count + 1] EXCEPT ![2] = wr[t].val]]  BY <1>6, <2>4
    <3> DEFINE r == [table[count + 1] EXCEPT ![2] = wr[t].val]
    <3>2. r \in PropRows /\ r[1] = table[count + 1][1] /\ r[2] = wr[t].val  BY <1>2, <1>3, RowExcept
    <3> HIDE DEF r
    <3> QED  BY <2>1, <2>2, <2>4, <3>1, <3>2 DEF r
  <2> QED  BY <1>1, <2>3, <2>4
<1>8. /\ wr'[t].key = wr[t].key /\ wr'[t].val = wr[t].val /\ \A u \in Writers : u # t => wr'[u] = wr[u]
      /\ wr'[t].pc = IF wr[t].pc = "key" THEN "val" ELSE "load"
  BY <1>0, <1>1, <1>4 DEF PropsTypes
<1>9. PropsTypes'
  <2>1. \A next \in {"val", "load"} : [wr[t] EXCEPT !.pc = next] \in
          [pc : {"out", "key", "val", "load", "store"}, key : Keys \cup {Props!Empty}, val : Vals \cup {Props!Empty}, n : Nat]
    BY ZenonT(60), <1>0 DEF PropsTypes
  <2>2. wr' \in [Writers -> [pc : {"out", "key", "val", "load", "store"}, key : Keys \cup {Props!Empty},
                              val : Vals \cup {Props!Empty}, n : Nat]]
    BY <1>0, <1>4, <2>1 DEF PropsTypes
  <2> QED  BY <1>0, <1>1, <1>7, <2>2 DEF PropsTypes
<1>10. WritersOK'
  <2>1. \A u \in Writers : u # t => wr[u].pc = "out"  BY <1>0, <1>1 DEF WritersOK
  <2> QED  BY <1>0, <1>1, <1>3, <1>5, <1>7, <1>8, <2>1 DEF WritersOK
<1>11. FirstOK' /\ ReadersOK'  BY <1>0, <1>1, <1>7, RowsBelow
<1> QED  BY <1>0, <1>9, <1>10, <1>11 DEF PropsInv

LEMMA PropsStoreCount ==
  ASSUME PropsInv, ~raced, NEW t \in Writers, Props!StoreCount(t)
  PROVE  PropsInv'
<1>0. PropsTypes /\ WritersOK /\ FirstOK /\ ReadersOK /\ ~raced'
  BY DEF PropsInv, Props!StoreCount
<1> DEFINE k == wr[t].key
           v == wr[t].val
<1>1. /\ count' = count + 1 /\ UNCHANGED <<table, rd, overrun>> /\ count \in Nat /\ count + 1 \in 1..MaxProps
      /\ MaxProps \in Nat /\ table[count + 1][1] = k /\ table[count + 1][2] = v /\ k \in Keys /\ v \in Vals
      /\ wr' = [wr EXCEPT ![t] = Props!Idle]
  BY SMTT(30), <1>0, NativesAssumption DEF WritersOK, PropsTypes, Props!StoreCount
<1>2. first' = [first EXCEPT ![k] = IF first[k] = Props!None THEN v ELSE first[k]]
  BY DEF Props!StoreCount
<1>3. Props!None \notin Vals  BY NothingAssumption
<1> HIDE DEF k, v
<1>4. PropsTypes'
  <2>1. first' \in [Keys -> Vals \cup {Props!None}]  BY <1>0, <1>1, <1>2 DEF PropsTypes
  <2>2. count' \in 0..MaxProps  BY <1>1
  <2> QED  BY <1>0, <1>1, <2>1, <2>2 DEF PropsTypes, Props!Idle
<1>5. WritersOK'
  <2>1. \A u \in Writers : u # t => wr[u].pc = "out"
    BY <1>0 DEF WritersOK, Props!StoreCount
  <2>2. \A u \in Writers : wr'[u].pc = "out"  BY <1>0, <1>1, <2>1 DEF PropsTypes, Props!Idle
  <2> QED  BY <1>0, <1>1, <2>2 DEF WritersOK
<1>6. \A j, n : AbsentBelow(table, j, n) => AbsentBelow(table', j, n)  BY <1>1 DEF AbsentBelow
<1>7. \A j \in Keys : first[j] \in Vals => first'[j] = first[j]
  BY <1>0, <1>2, <1>3 DEF PropsTypes
<1>8. FirstOK'
  <2> SUFFICES ASSUME NEW j \in Keys
               PROVE  \/ first'[j] = Props!None /\ AbsentBelow(table', j, count + 1)
                      \/ \E i \in 1..(count + 1) : /\ table[i][1] = j /\ table[i][2] = first'[j] /\ first'[j] \in Vals
                                                   /\ AbsentBelow(table', j, i - 1)
    BY <1>1 DEF FirstOK
  <2>1. CASE first[j] = Props!None /\ AbsentBelow(table, j, count) /\ j = k
    <3>1. first'[j] = v /\ (count + 1) - 1 = count  BY <1>0, <1>1, <1>2, <2>1 DEF PropsTypes
    <3>2. AbsentBelow(table', j, count)  BY <1>1, <2>1 DEF AbsentBelow
    <3> QED  BY <1>1, <2>1, <3>1, <3>2
  <2>2. CASE first[j] = Props!None /\ AbsentBelow(table, j, count) /\ j # k
    <3>1. first'[j] = Props!None  BY <1>0, <1>1, <1>2, <2>2 DEF PropsTypes
    <3>2. \A i \in 1..(count + 1) : table[i][1] # j  BY <1>1, <2>2 DEF AbsentBelow
    <3>3. AbsentBelow(table', j, count + 1)  BY <1>1, <3>2 DEF AbsentBelow
    <3> QED  BY <3>1, <3>3
  <2>3. ASSUME NEW i \in 1..count, table[i][1] = j, table[i][2] = first[j], first[j] \in Vals, AbsentBelow(table, j, i - 1)
        PROVE  first'[j] = first[j] /\ i \in 1..(count + 1) /\ AbsentBelow(table', j, i - 1)
    BY <1>1, <1>6, <1>7, <2>3
  <2> QED  BY <1>0, <2>1, <2>2, <2>3 DEF FirstOK
<1>9. ReadersOK'
  <2> SUFFICES ASSUME NEW r \in Readers
               PROVE  /\ rd[r].pc # "out" => rd[r].key \in Keys
                      /\ rd[r].pc = "scan" => /\ rd[r].i \in 1..(count' + 1) /\ AbsentBelow(table', rd[r].key, rd[r].i - 1)
                                              /\ rd[r].result = Props!None /\ rd[r].known \in {Props!None, first'[rd[r].key]}
                      /\ rd[r].pc = "back" => \/ rd[r].result = first'[rd[r].key] /\ rd[r].result \in Vals
                                              \/ rd[r].result = Props!None /\ rd[r].known = Props!None
    BY <1>1 DEF ReadersOK
  <2>1. rd[r].pc # "out" => rd[r].key \in Keys  BY <1>0 DEF ReadersOK
  <2>2. rd[r].known = Props!None \/ rd[r].known \in Vals  BY <1>0 DEF PropsTypes
  <2>3. ASSUME rd[r].pc = "scan"
        PROVE  /\ rd[r].i \in 1..(count' + 1) /\ AbsentBelow(table', rd[r].key, rd[r].i - 1)
               /\ rd[r].result = Props!None /\ rd[r].known \in {Props!None, first'[rd[r].key]}
    <3>1. /\ rd[r].i \in 1..(count + 1) /\ AbsentBelow(table, rd[r].key, rd[r].i - 1) /\ rd[r].result = Props!None
          /\ rd[r].known \in {Props!None, first[rd[r].key]}
      BY <1>0, <2>3 DEF ReadersOK
    <3>2. rd[r].i \in 1..(count' + 1)  BY <1>1, <3>1
    <3>3. rd[r].known \in {Props!None, first'[rd[r].key]}  BY <1>7, <2>1, <2>2, <2>3, <3>1
    <3>4. AbsentBelow(table', rd[r].key, rd[r].i - 1)  BY <1>1, <3>1 DEF AbsentBelow
    <3> QED  BY <3>1, <3>2, <3>3, <3>4
  <2>4. rd[r].pc = "back" => \/ rd[r].result = first'[rd[r].key] /\ rd[r].result \in Vals
                             \/ rd[r].result = Props!None /\ rd[r].known = Props!None
    BY <1>0, <1>7, <2>1 DEF ReadersOK
  <2> QED  BY <2>1, <2>3, <2>4
<1> QED  BY <1>0, <1>4, <1>5, <1>8, <1>9 DEF PropsInv

LEMMA PropsScan ==
  ASSUME PropsInv, ~raced, NEW t \in Readers, Props!Scan(t)
  PROVE  PropsInv'
<1>0. PropsTypes /\ WritersOK /\ FirstOK /\ ReadersOK /\ UNCHANGED <<table, count, wr, first, overrun, raced>>
  BY DEF PropsInv, Props!Scan
<1> DEFINE r == rd[t]
<1>1. /\ rd[t].pc = "scan" /\ rd[t].key \in Keys /\ rd[t].i \in 1..(count + 1) /\ AbsentBelow(table, rd[t].key, rd[t].i - 1)
      /\ rd[t].result = Props!None /\ rd[t].known \in {Props!None, first[rd[t].key]}
      /\ count \in Nat /\ count <= MaxProps /\ MaxProps \in Nat /\ DOMAIN table = 1..(MaxProps + 1)
  BY SMTT(30), <1>0, NativesAssumption DEF ReadersOK, PropsTypes, Props!Scan
<1>2. rd' = [rd EXCEPT ![t] =
           IF rd[t].i > count THEN [rd[t] EXCEPT !.pc = "back"]
           ELSE IF table[rd[t].i][1] = rd[t].key THEN [rd[t] EXCEPT !.pc = "back", !.result = table[rd[t].i][2]]
           ELSE [rd[t] EXCEPT !.i = rd[t].i + 1]]
  <2>1. ~(rd[t].i > count) => rd[t].i \in DOMAIN table  BY <1>1
  <2> QED  BY <2>1 DEF Props!Scan
<1>3. /\ rd[t] \in [pc : {"out", "scan", "back"}, key : Keys \cup {Props!Empty}, i : Nat \ {0},
                    result : Vals \cup {Props!None, Props!Empty}, known : Vals \cup {Props!None}]
      /\ (rd[t].i <= count => table[rd[t].i][2] \in Vals \cup {Props!Empty})
  <2>1. rd[t].i <= count => table[rd[t].i] \in PropRows  BY <1>0, <1>1 DEF PropsTypes
  <2> QED  BY <1>0, <2>1 DEF PropsTypes, PropRows
<1>4. \A u \in Readers \ {t} : rd'[u] = rd[u]  BY <1>0, <1>2 DEF PropsTypes
<1>a. rd'[t] = IF rd[t].i > count THEN [rd[t] EXCEPT !.pc = "back"]
                  ELSE IF table[rd[t].i][1] = rd[t].key THEN [rd[t] EXCEPT !.pc = "back", !.result = table[rd[t].i][2]]
                  ELSE [rd[t] EXCEPT !.i = rd[t].i + 1]
  BY <1>0, <1>2 DEF PropsTypes
<1>5. PropsTypes'
  <2>1. rd'[t] \in [pc : {"out", "scan", "back"}, key : Keys \cup {Props!Empty}, i : Nat \ {0},
                    result : Vals \cup {Props!None, Props!Empty}, known : Vals \cup {Props!None}]
    <3>1. CASE rd[t].i > count  BY <1>3, <1>a, <3>1
    <3>2. CASE rd[t].i <= count /\ table[rd[t].i][1] = rd[t].key  BY ZenonT(60), <1>1, <1>3, <1>a, <3>2
    <3>3. CASE rd[t].i <= count /\ table[rd[t].i][1] # rd[t].key
      <4>1. rd'[t] = [rd[t] EXCEPT !.i = rd[t].i + 1] /\ rd[t].i + 1 \in Nat \ {0}  BY <1>1, <1>a, <3>3
      <4> QED  BY <1>3, <4>1
    <3> QED  BY <1>1, <3>1, <3>2, <3>3
  <2> QED  BY <1>0, <1>2, <2>1 DEF PropsTypes
<1>6. /\ rd'[t].key = rd[t].key /\ rd'[t].known = rd[t].known
      /\ \/ rd[t].i > count /\ rd'[t].pc = "back" /\ rd'[t].result = Props!None
         \/ rd[t].i <= count /\ table[rd[t].i][1] = rd[t].key /\ rd'[t].pc = "back" /\ rd'[t].result = table[rd[t].i][2]
         \/ rd[t].i <= count /\ table[rd[t].i][1] # rd[t].key /\ rd'[t].pc = "scan" /\ rd'[t].i = rd[t].i + 1
            /\ rd'[t].result = Props!None
  BY <1>1, <1>3, <1>a
<1> DEFINE k == rd[t].key
           n == rd[t].i
<1> HIDE DEF k, n
<1>7. CASE n > count
  <2>1. AbsentBelow(table, k, count)  BY <1>1, <1>7 DEF AbsentBelow, k, n
  <2>2. first[k] = Props!None  BY <1>0, <1>1, <2>1 DEF FirstOK, AbsentBelow, k
  <2>3. rd'[t].pc = "back" /\ rd'[t].result = Props!None /\ rd'[t].known = Props!None
    BY <1>1, <1>6, <1>7, <2>2 DEF k, n
  <2>4. ReadersOK'  BY <1>0, <1>1, <1>4, <1>6, <2>3 DEF ReadersOK
  <2> QED  BY <1>0, <1>5, <2>4 DEF PropsInv, WritersOK, FirstOK
<1>8. CASE n <= count /\ table[n][1] = k
  <2>1. n \in 1..count /\ AbsentBelow(table, k, n - 1) /\ k \in Keys  BY <1>1, <1>8 DEF k, n
  <2>2. first[k] # Props!None \/ ~AbsentBelow(table, k, count)  BY <1>8, <2>1 DEF AbsentBelow
  <2>3. PICK i \in 1..count : table[i][1] = k /\ table[i][2] = first[k] /\ first[k] \in Vals /\ AbsentBelow(table, k, i - 1)
    BY <1>0, <2>1, <1>8 DEF FirstOK, AbsentBelow
  <2>4. i = n  BY <1>1, <1>8, <2>1, <2>3 DEF AbsentBelow
  <2>5. rd'[t].pc = "back" /\ rd'[t].result = first[rd[t].key] /\ rd'[t].result \in Vals
    BY <1>1, <1>6, <1>8, <2>1, <2>3, <2>4 DEF k, n
  <2>6. ReadersOK'  BY <1>0, <1>1, <1>4, <1>6, <2>5 DEF ReadersOK
  <2> QED  BY <1>0, <1>5, <2>6 DEF PropsInv, WritersOK, FirstOK
<1>9. CASE n <= count /\ table[n][1] # k
  <2>1. AbsentBelow(table, k, n) /\ n + 1 \in 1..(count + 1) /\ (n + 1) - 1 = n  BY SMTT(30), <1>1, <1>9 DEF AbsentBelow, k, n
  <2>2. rd'[t].pc = "scan" /\ rd'[t].i = n + 1 /\ rd'[t].result = Props!None  BY <1>1, <1>6, <1>9 DEF k, n
  <2>3. ReadersOK'  BY SMTT(30), <1>0, <1>1, <1>4, <1>6, <2>1, <2>2 DEF ReadersOK, k
  <2> QED  BY <1>0, <1>5, <2>3 DEF PropsInv, WritersOK, FirstOK
<1> QED  BY <1>1, <1>7, <1>8, <1>9 DEF n

LEMMA PropsNext == PropsInv /\ [Props!Next]_propsVars => PropsInv'
<1> SUFFICES ASSUME PropsInv, [Props!Next]_propsVars, ~raced' PROVE PropsInv'  BY DEF PropsInv
<1>0. ~raced
  BY DEF Props!Next, Props!Set, Props!CopyKey, Props!CopyVal, Props!Copy, Props!LoadCount, Props!StoreCount,
         Props!Get, Props!Scan, Props!Back, propsVars
<1>r. PropsTypes /\ WritersOK /\ FirstOK /\ ReadersOK  BY <1>0 DEF PropsInv
<1>1. ASSUME NEW t \in Writers, NEW k \in Keys, NEW v \in Vals, Props!Set(t, k, v) PROVE PropsInv'
  <2>1. PropsTypes'  BY <1>r, <1>1 DEF Props!Set, PropsTypes
  <2>2. \A u \in Writers : u # t => wr[u].pc = "out" /\ wr'[u] = wr[u]  BY <1>r, <1>1 DEF Props!Set, PropsTypes
  <2>3. wr'[t].pc = "key" /\ wr'[t].key = k /\ wr'[t].val = v  BY <1>r, <1>1 DEF Props!Set, PropsTypes
  <2>4. WritersOK'  BY <1>1, <1>r, <2>2, <2>3 DEF WritersOK, Props!Set
  <2> QED  BY <2>1, <1>1, <1>r, <2>4 DEF FirstOK, ReadersOK, Props!Set, PropsInv
<1>2. ASSUME NEW t \in Writers, Props!CopyKey(t) \/ Props!CopyVal(t) \/ Props!StoreCount(t) PROVE PropsInv'
  BY <1>0, <1>2, PropsCopy, PropsStoreCount
<1>3. ASSUME NEW t \in Writers, Props!LoadCount(t) PROVE PropsInv'
  <2> DEFINE w == [wr[t] EXCEPT !.pc = "store", !.n = count]
  <2>0. wr' = [wr EXCEPT ![t] = w] /\ UNCHANGED <<table, count, rd, first, overrun, raced>>
    BY <1>r, <1>3 DEF Props!LoadCount, PropsTypes
  <2>a. w \in [pc : {"out", "key", "val", "load", "store"}, key : Keys \cup {Props!Empty},
               val : Vals \cup {Props!Empty}, n : Nat]
    <3>1. count \in Nat  BY <1>r DEF PropsTypes
    <3>2. wr[t] \in [pc : {"out", "key", "val", "load", "store"}, key : Keys \cup {Props!Empty},
                     val : Vals \cup {Props!Empty}, n : Nat]
      BY <1>r DEF PropsTypes
    <3> QED  BY <3>1, <3>2
  <2>1. PropsTypes'
    <3> HIDE DEF w
    <3> QED  BY <1>r, <2>0, <2>a DEF PropsTypes
  <2>2. /\ \A u \in Writers : u # t => wr[u].pc = "out" /\ wr'[u] = wr[u]
        /\ wr[t].pc = "load" /\ wr'[t].pc = "store" /\ wr'[t].key = wr[t].key /\ wr'[t].val = wr[t].val /\ wr'[t].n = count
    BY <1>r, <1>3 DEF Props!LoadCount, PropsTypes, WritersOK
  <2>3. WritersOK'  BY <1>r, <2>0, <2>2 DEF WritersOK
  <2> QED  BY <2>1, <1>3, <1>r, <2>3 DEF FirstOK, ReadersOK, Props!LoadCount, PropsInv
<1>4. ASSUME NEW t \in Readers, NEW k \in Keys, Props!Get(t, k) PROVE PropsInv'
  <2>1. PropsTypes'  BY <1>r, <1>4 DEF Props!Get, PropsTypes
  <2>2. /\ \A u \in Readers : u # t => rd'[u] = rd[u]
        /\ rd'[t] = [pc |-> "scan", key |-> k, i |-> 1, result |-> Props!None, known |-> first[k]]
    BY <1>r, <1>4 DEF Props!Get, PropsTypes
  <2>3. AbsentBelow(table, k, 0)  BY DEF AbsentBelow
  <2>4. 1 \in 1..(count + 1) /\ 1 - 1 = 0  BY <1>r DEF PropsTypes
  <2>5. ReadersOK'  BY <1>4, <1>r, <2>2, <2>3, <2>4 DEF ReadersOK, Props!Get
  <2> QED  BY <2>1, <1>4, <1>r, <2>5 DEF FirstOK, WritersOK, Props!Get, PropsInv
<1>5. ASSUME NEW t \in Readers, Props!Scan(t) PROVE PropsInv'
  BY <1>0, <1>5, PropsScan
<1>6. ASSUME NEW t \in Readers, Props!Back(t) PROVE PropsInv'
  <2>1. PropsTypes'  BY <1>r, <1>6 DEF Props!Back, Props!Resting, PropsTypes
  <2>2. (\A u \in Readers : u # t => rd'[u] = rd[u]) /\ rd'[t].pc = "out"
    BY <1>r, <1>6 DEF Props!Back, Props!Resting, PropsTypes
  <2>3. ReadersOK'  BY <1>6, <1>r, <2>2 DEF ReadersOK, Props!Back
  <2> QED  BY <2>1, <1>6, <1>r, <2>3 DEF FirstOK, WritersOK, Props!Back, PropsInv
<1>7. CASE UNCHANGED propsVars
  BY <1>7 DEF propsVars, PropsInv, PropsTypes, WritersOK, FirstOK, ReadersOK
<1> QED
  BY <1>1, <1>2, <1>3, <1>4, <1>5, <1>6, <1>7 DEF Props!Next

\* Any number of threads that get, and of threads that set one at a time: the
\* table keeps to its bounds, and a get gives what the first set of its key gave.
THEOREM PropsAreWriteOnce == Spec => []WriteOnceMap
<1>1. Init => PropsInv  BY PropsInit DEF Init
<1>2. PropsInv /\ [Next]_vars => PropsInv'  BY PropsNext, PartSteps
<1>3. PropsInv => WriteOnceMap
  BY DEF PropsInv, WritersOK, ReadersOK, WriteOnceMap, Props!WriteOnceMap
<1> QED  BY <1>1, <1>2, <1>3, PTL DEF Spec

-----------------------------------------------------------------------------
(* NovaGLThread.                                                            *)

GLStates == [pc : {"none", "pass", "event", "create", "draw", "swap", "exit", "exiting", "dead"},
             shouldExit : BOOLEAN, exited : BOOLEAN, requestPaused : BOOLEAN, paused : BOOLEAN,
             hasSurface : BOOLEAN, surfaceIsBad : BOOLEAN, waitingForSurface : BOOLEAN,
             haveEglContext : BOOLEAN, haveEglSurface : BOOLEAN, finishedCreating : BOOLEAN,
             sized : BOOLEAN, continuous : BOOLEAN, requestRender : BOOLEAN, wantNotification : BOOLEAN,
             renderComplete : BOOLEAN, events : Nat, sizeChanged : BOOLEAN, collected : BOOLEAN,
             createEglSurface : BOOLEAN, lostEglContext : BOOLEAN, notify : BOOLEAN, doNotification : BOOLEAN]
GLDisplays == [initialized : BOOLEAN, config : BOOLEAN, contexts : SUBSET Views, surfaces : SUBSET Views]
GLLives == {"none", "made", "shown", "running", "paused", "gone"}
GLCalls == [op : {"none", "surfaceCreated", "onWindowResize", "onPause", "onResume", "requestExitAndWait"},
            view : Views \cup {"none"}]

GLTypes ==
  /\ gl \in [Views -> GLStates] /\ egl \in GLDisplays
  /\ life \in [Views -> GLLives]
  /\ call \in [GLThread!Callers -> GLCalls]

\* What a thread holds, by where it is.
Held(t, v) ==
  /\ t.haveEglSurface => t.haveEglContext
  /\ t.haveEglContext => t.hasSurface
  /\ t.pc \in {"create", "draw", "swap"} => t.haveEglSurface /\ ~t.paused
  /\ t.pc = "create" => t.createEglSurface
  /\ t.pc \in {"draw", "swap"} => ~t.createEglSurface
  /\ t.paused => ~t.haveEglSurface /\ (v \notin Preserving => ~t.haveEglContext)
  /\ t.pc \in {"none", "exiting", "dead"} => ~t.haveEglContext
  /\ t.exited => t.pc = "dead"

\* A view's thread and its life as the application sees it.
LivesOK ==
  \A v \in Views :
    /\ life[v] = "none" => gl[v].pc = "none"
    /\ life[v] \in {"none", "made"} => ~gl[v].hasSurface
    /\ life[v] = "paused" => gl[v].requestPaused /\ (gl[v].paused \/ gl[v].exited)

CallsOK ==
  /\ \A c \in GLThread!Callers : call[c] # GLThread!Idle => call[c].view \in Views
  /\ call["finalizer"].op \in {"none", "requestExitAndWait"}
  /\ call["main"].op = "onPause" => gl[call["main"].view].requestPaused /\ life[call["main"].view] = "running"
  /\ call["main"].op \in {"surfaceCreated", "onWindowResize"} => life[call["main"].view] = "shown"

\* A view that may hold something of the display.
AtWork(v) ==
  /\ GLThread!Started(v) /\ ~gl[v].exited
  /\ ~(gl[v].requestPaused /\ gl[v].paused /\ v \notin Preserving)

\* One view at work, and the display has what its thread believes it has.
OneAtWork ==
  /\ \A u, v \in Views : AtWork(u) /\ AtWork(v) => u = v
  /\ \A v \in Views :
       /\ gl[v].haveEglContext => egl.initialized /\ v \in egl.contexts
       /\ gl[v].haveEglSurface /\ ~gl[v].createEglSurface => v \in egl.surfaces

SurfacesHeld == \A v \in egl.surfaces : gl[v].haveEglSurface

GLInv ==
  /\ GLTypes /\ (\A v \in Views : Held(gl[v], v)) /\ SurfacesHeld /\ LivesOK /\ CallsOK
  /\ (~rude => OneAtWork)

LEMMA GLInit == GLThread!Init => GLInv
BY DEF GLThread!Init, GLThread!Unstarted, GLThread!Idle, GLThread!Callers, GLInv, GLTypes, GLStates, GLDisplays,
       GLLives, GLCalls,        Held, SurfacesHeld, LivesOK, CallsOK, OneAtWork, AtWork, GLThread!Started

\* Who is not at work holds nothing.
LEMMA AtWorkHolds ==
  ASSUME GLInv, NEW v \in Views, gl[v].haveEglContext
  PROVE  AtWork(v)
<1>1. life[v] \notin {"none", "made"}  BY DEF GLInv, LivesOK, Held
<1>2. ~gl[v].exited  BY DEF GLInv, Held
<1>3. ~(gl[v].paused /\ v \notin Preserving)  BY DEF GLInv, Held
<1> QED  BY <1>1, <1>2, <1>3 DEF AtWork, GLThread!Started

\* What a round before readyToDraw makes of the thread and of the display.
LEMMA UpdatedFacts ==
  ASSUME GLInv, NEW v \in Views, NEW s, s = GLThread!Updated(v)
  PROVE  /\ s.t \in GLStates
         /\ s.t.pc = gl[v].pc /\ s.t.requestPaused = gl[v].requestPaused /\ s.t.paused = gl[v].requestPaused
         /\ s.t.hasSurface = gl[v].hasSurface /\ s.t.exited = gl[v].exited /\ s.t.collected = gl[v].collected
         /\ s.t.createEglSurface = gl[v].createEglSurface
         /\ (s.t.haveEglContext => gl[v].haveEglContext)
         /\ (s.t.haveEglSurface => gl[v].haveEglSurface /\ s.t.haveEglContext /\ s.e = egl)
         /\ (s.t.paused => ~s.t.haveEglSurface /\ (v \notin Preserving => ~s.t.haveEglContext))
         /\ s.e \in GLDisplays
         /\ (v \in s.e.surfaces => s.t.haveEglSurface)
         /\ \/ s.e = GLThread!Terminated /\ gl[v].haveEglContext /\ ~s.t.haveEglContext
            \/ /\ s.e.initialized = egl.initialized /\ s.e.contexts = egl.contexts
               /\ s.e.surfaces \subseteq egl.surfaces /\ egl.surfaces \ {v} \subseteq s.e.surfaces
<1> DEFINE t == gl[v]
           turns == t.paused # t.requestPaused
           pausing == turns /\ t.requestPaused
           gone == ~t.hasSurface /\ ~t.waitingForSurface
           stopSurface == t.lostEglContext \/ pausing \/ gone
           stopContext == t.lostEglContext \/ (pausing /\ (v \notin Preserving \/ t.collected))
<1>1. t \in GLStates /\ Held(t, v) /\ egl \in GLDisplays  BY DEF GLInv, GLTypes
<1>2. s.t = [t EXCEPT !.paused = t.requestPaused, !.lostEglContext = FALSE,
                      !.haveEglSurface = t.haveEglSurface /\ ~stopSurface, !.haveEglContext = t.haveEglContext /\ ~stopContext,
                      !.waitingForSurface = ~t.hasSurface, !.surfaceIsBad = t.surfaceIsBad /\ ~gone,
                      !.wantNotification = t.wantNotification /\ ~t.doNotification,
                      !.renderComplete = t.renderComplete \/ t.doNotification, !.doNotification = FALSE]
  BY DEF GLThread!Updated
<1>3. s.e = GLThread!Released(v, stopContext, stopSurface)
  BY DEF GLThread!Updated
<1>4. v \in egl.surfaces => t.haveEglSurface  BY DEF GLInv, SurfacesHeld
<1> HIDE DEF t
<1>5. s.t \in GLStates
  <2>1. \A a, b, c \in BOOLEAN :
          [t EXCEPT !.paused = a, !.lostEglContext = FALSE, !.haveEglSurface = b, !.haveEglContext = c] \in GLStates
    BY ZenonT(60), <1>1 DEF GLStates
  <2>2. t.requestPaused \in BOOLEAN  BY <1>1 DEF GLStates
  <2> HIDE DEF stopSurface, stopContext, gone
  <2>3. /\ (t.haveEglSurface /\ ~stopSurface) \in BOOLEAN /\ (t.haveEglContext /\ ~stopContext) \in BOOLEAN
        /\ (~t.hasSurface) \in BOOLEAN /\ (t.surfaceIsBad /\ ~gone) \in BOOLEAN
        /\ (t.wantNotification /\ ~t.doNotification) \in BOOLEAN /\ (t.renderComplete \/ t.doNotification) \in BOOLEAN
    OBVIOUS
  <2> DEFINE r == [t EXCEPT !.paused = t.requestPaused, !.lostEglContext = FALSE,
                            !.haveEglSurface = t.haveEglSurface /\ ~stopSurface,
                            !.haveEglContext = t.haveEglContext /\ ~stopContext]
  <2>4. r \in GLStates  BY <2>1, <2>2, <2>3
  <2>5. s.t = [r EXCEPT !.waitingForSurface = ~t.hasSurface, !.surfaceIsBad = t.surfaceIsBad /\ ~gone,
                        !.wantNotification = t.wantNotification /\ ~t.doNotification,
                        !.renderComplete = t.renderComplete \/ t.doNotification, !.doNotification = FALSE]
    BY <1>2
  <2> HIDE DEF r
  <2>6. ASSUME NEW a \in BOOLEAN, NEW b \in BOOLEAN, NEW c \in BOOLEAN, NEW d \in BOOLEAN, NEW e \in BOOLEAN
        PROVE  [r EXCEPT !.waitingForSurface = a, !.surfaceIsBad = b, !.wantNotification = c,
                         !.renderComplete = d, !.doNotification = e] \in GLStates
    BY <2>4 DEF GLStates
  <2> QED  BY ZenonT(60), <2>3, <2>5, <2>6
<1>6. /\ s.t.pc = t.pc /\ s.t.requestPaused = t.requestPaused /\ s.t.paused = t.requestPaused
      /\ s.t.hasSurface = t.hasSurface /\ s.t.exited = t.exited /\ s.t.collected = t.collected
      /\ s.t.createEglSurface = t.createEglSurface
      /\ s.t.haveEglContext = (t.haveEglContext /\ ~stopContext)
      /\ s.t.haveEglSurface = (t.haveEglSurface /\ ~stopSurface)
  BY <1>1, <1>2 DEF GLStates
<1>7. stopContext => stopSurface  OBVIOUS
<1>8. /\ (t.haveEglSurface => t.haveEglContext /\ ~gone)
      /\ (t.paused => ~t.haveEglSurface /\ (v \notin Preserving => ~t.haveEglContext))
  BY <1>1 DEF Held
<1>9. t.haveEglContext /\ stopContext => s.e = GLThread!Terminated
  BY <1>3 DEF GLThread!Released, t
<1>10. ~(t.haveEglContext /\ stopContext) =>
         s.e = [egl EXCEPT !.surfaces = IF t.haveEglSurface /\ stopSurface /\ ~t.collected THEN egl.surfaces \ {v} ELSE egl.surfaces]
  BY <1>3 DEF GLThread!Released, t
<1>11. (t.requestPaused /\ ~pausing) => t.paused
  BY <1>1 DEF GLStates
<1>12. t.haveEglSurface /\ stopSurface /\ t.collected => stopContext
  BY <1>8
<1>19. pausing => stopSurface /\ (v \notin Preserving => stopContext)  OBVIOUS
<1> HIDE DEF stopSurface, stopContext, turns, pausing, gone
<1>13. s.t.haveEglSurface => ~stopSurface /\ t.haveEglSurface /\ s.t.haveEglContext  BY <1>6, <1>7, <1>8
<1>14. s.t.haveEglContext => ~stopContext /\ t.haveEglContext  BY <1>6
<1>15. s.e \in GLDisplays
  <2>1. GLThread!Terminated \in GLDisplays  BY DEF GLDisplays, GLThread!Terminated
  <2>2. \A x \in SUBSET Views : [egl EXCEPT !.surfaces = x] \in GLDisplays  BY <1>1 DEF GLDisplays
  <2>3. egl.surfaces \ {v} \in SUBSET Views /\ egl.surfaces \in SUBSET Views  BY <1>1 DEF GLDisplays
  <2> QED  BY <1>9, <1>10, <2>1, <2>2, <2>3
<1>16. v \in s.e.surfaces => s.t.haveEglSurface
  <2>1. CASE t.haveEglContext /\ stopContext  BY <1>9, <2>1 DEF GLThread!Terminated
  <2>2. CASE ~(t.haveEglContext /\ stopContext)
    <3>1. v \in s.e.surfaces => v \in egl.surfaces /\ ~(t.haveEglSurface /\ stopSurface /\ ~t.collected)
      BY <1>1, <1>10, <2>2 DEF GLDisplays
    <3> QED  BY <1>4, <1>6, <1>8, <1>12, <2>2, <3>1
  <2> QED  BY <2>1, <2>2
<1>17. s.t.haveEglSurface => s.e = egl
  BY <1>1, <1>7, <1>10, <1>13 DEF GLDisplays
<1>18. s.t.paused => ~s.t.haveEglSurface /\ (v \notin Preserving => ~s.t.haveEglContext)
  BY <1>6, <1>8, <1>11, <1>19
<1>20. \/ s.e = GLThread!Terminated /\ t.haveEglContext /\ ~s.t.haveEglContext
       \/ /\ s.e.initialized = egl.initialized /\ s.e.contexts = egl.contexts
          /\ s.e.surfaces \subseteq egl.surfaces /\ egl.surfaces \ {v} \subseteq s.e.surfaces
  BY <1>1, <1>6, <1>9, <1>10 DEF GLDisplays
<1> QED  BY <1>5, <1>6, <1>13, <1>14, <1>15, <1>16, <1>17, <1>18, <1>20 DEF t

\* A step of v's thread that makes it t and the display e, and keeps to its own:
\* what it takes from another's it must hold a context for.
OwnStep(v, t, e) ==
  /\ t \in GLStates /\ e \in GLDisplays /\ Held(t, v) /\ gl[v].pc # "none"
  /\ t.requestPaused = gl[v].requestPaused /\ t.hasSurface = gl[v].hasSurface
  /\ gl[v].exited => t.exited
  /\ gl[v].requestPaused /\ gl[v].paused => t.paused
  /\ v \in e.surfaces => t.haveEglSurface
  /\ e.surfaces \ {v} \subseteq egl.surfaces
  /\ \/ gl[v].haveEglContext
     \/ /\ egl.surfaces \ {v} \subseteq e.surfaces /\ egl.contexts \subseteq e.contexts
        /\ egl.initialized => e.initialized
  /\ (gl[v].haveEglContext => egl.initialized /\ v \in egl.contexts) /\ t.haveEglContext =>
       e.initialized /\ v \in e.contexts
  /\ (gl[v].haveEglSurface /\ ~gl[v].createEglSurface => v \in egl.surfaces)
       /\ t.haveEglSurface /\ ~t.createEglSurface => v \in e.surfaces

LEMMA OwnStepKeeps ==
  ASSUME GLInv, NEW v \in Views, NEW t, NEW e, OwnStep(v, t, e),
         gl' = [gl EXCEPT ![v] = t], egl' = e, UNCHANGED <<call, life, rude>>
  PROVE  GLInv'
<1>1. gl'[v] = t /\ \A u \in Views : u # v => gl'[u] = gl[u]  BY DEF GLInv, GLTypes
<1>2. GLTypes'  BY DEF GLInv, GLTypes, OwnStep
<1>3. \A u \in Views : Held(gl'[u], u)  BY <1>1 DEF GLInv, OwnStep
<1>4. egl.surfaces \subseteq Views /\ e.surfaces \subseteq Views  BY DEF GLInv, GLTypes, GLDisplays, OwnStep
<1>5. \A u \in e.surfaces : gl'[u].haveEglSurface
  BY <1>1, <1>4 DEF GLInv, SurfacesHeld, OwnStep
<1>6. \A u \in Views : gl'[u].requestPaused = gl[u].requestPaused /\ gl'[u].hasSurface = gl[u].hasSurface
  BY <1>1 DEF OwnStep
<1>7. \A u \in Views : gl[u].requestPaused /\ gl[u].paused => gl'[u].paused  BY <1>1 DEF OwnStep
<1>8. \A u \in Views : gl[u].exited => gl'[u].exited  BY <1>1 DEF OwnStep
<1>9. LivesOK'
  <2>1. life[v] # "none"  BY DEF GLInv, LivesOK, OwnStep
  <2> QED  BY <1>1, <1>6, <1>7, <1>8, <2>1 DEF GLInv, LivesOK
<1>10. CallsOK'
  <2>1. call["main"].op = "onPause" => call["main"].view \in Views
    BY DEF GLInv, CallsOK, GLThread!Callers, GLThread!Idle
  <2> QED  BY <1>6, <2>1 DEF GLInv, CallsOK
<1>11. ASSUME ~rude PROVE OneAtWork'
  <2>0. OneAtWork  BY <1>11 DEF GLInv
  <2>1. \A u \in Views : AtWork(u)' => AtWork(u)
    BY <1>1, <1>6, <1>7, <1>8 DEF AtWork, GLThread!Started
  <2>2. \A u \in Views : gl[u].haveEglContext => AtWork(u)  BY AtWorkHolds
  <2>3. \A u, w \in Views : AtWork(u)' /\ AtWork(w)' => u = w  BY <2>0, <2>1 DEF OneAtWork
  <2>4. gl'[v].haveEglContext => egl'.initialized /\ v \in egl'.contexts
    BY <1>1, <2>0 DEF OwnStep, OneAtWork
  <2>5. gl'[v].haveEglSurface /\ ~gl'[v].createEglSurface => v \in egl'.surfaces
    BY <1>1, <2>0 DEF OwnStep, OneAtWork
  <2>6. ASSUME NEW u \in Views, u # v, gl'[u].haveEglContext
        PROVE  /\ egl'.initialized /\ u \in egl'.contexts
               /\ (gl'[u].haveEglSurface /\ ~gl'[u].createEglSurface => u \in egl'.surfaces)
    <3>1. gl'[u] = gl[u] /\ ~gl[v].haveEglContext  BY <1>1, <2>0, <2>2, <2>6 DEF OneAtWork
    <3> QED  BY <2>0, <2>6, <3>1 DEF OwnStep, OneAtWork
  <2>7. \A u \in Views : gl'[u].haveEglSurface => gl'[u].haveEglContext  BY <1>3 DEF Held
  <2> QED  BY <2>3, <2>4, <2>5, <2>6, <2>7 DEF OneAtWork
<1>12. ~rude' => OneAtWork'  BY <1>11
<1> QED  BY <1>2, <1>3, <1>5, <1>9, <1>10, <1>12 DEF GLInv, SurfacesHeld

\* A step that leaves the display, and of the thread all but where it is.
LEMMA MovesOn ==
  ASSUME GLInv, NEW v \in Views, NEW t \in GLStates, Held(t, v), gl[v].pc # "none",
         t.requestPaused = gl[v].requestPaused, t.hasSurface = gl[v].hasSurface, t.paused = gl[v].paused,
         t.haveEglContext = gl[v].haveEglContext, t.haveEglSurface = gl[v].haveEglSurface,
         t.createEglSurface = gl[v].createEglSurface, gl[v].exited => t.exited
  PROVE  OwnStep(v, t, egl)
BY DEF GLInv, GLTypes, SurfacesHeld, OwnStep

LEMMA RoundKeeps ==
  ASSUME GLInv, NEW v \in Views, gl[v].pc = "pass", NEW s, s = GLThread!Updated(v)
  PROVE  /\ OwnStep(v, s.t, s.e)
         /\ OwnStep(v, [s.t EXCEPT !.pc = "exit"], s.e)
<1> DEFINE x == [s.t EXCEPT !.pc = "exit"]
<1>1. /\ s.t \in GLStates
      /\ s.t.pc = gl[v].pc /\ s.t.requestPaused = gl[v].requestPaused /\ s.t.paused = gl[v].requestPaused
      /\ s.t.hasSurface = gl[v].hasSurface /\ s.t.exited = gl[v].exited
      /\ s.t.createEglSurface = gl[v].createEglSurface
      /\ (s.t.haveEglContext => gl[v].haveEglContext)
      /\ (s.t.haveEglSurface => gl[v].haveEglSurface /\ s.t.haveEglContext /\ s.e = egl)
      /\ (s.t.paused => ~s.t.haveEglSurface /\ (v \notin Preserving => ~s.t.haveEglContext))
      /\ s.e \in GLDisplays /\ (v \in s.e.surfaces => s.t.haveEglSurface)
      /\ \/ s.e = GLThread!Terminated /\ gl[v].haveEglContext /\ ~s.t.haveEglContext
         \/ /\ s.e.initialized = egl.initialized /\ s.e.contexts = egl.contexts
            /\ s.e.surfaces \subseteq egl.surfaces /\ egl.surfaces \ {v} \subseteq s.e.surfaces
  BY UpdatedFacts
<1>2. Held(gl[v], v)  BY DEF GLInv
<1>3. Held(s.t, v)  BY <1>1, <1>2 DEF Held
<1>4. s.e.surfaces \ {v} \subseteq egl.surfaces  BY <1>1 DEF GLThread!Terminated
<1>5. OwnStep(v, s.t, s.e)  BY <1>1, <1>3, <1>4 DEF OwnStep
<1>6. /\ x \in GLStates /\ x.pc = "exit" /\ x.requestPaused = s.t.requestPaused /\ x.hasSurface = s.t.hasSurface
      /\ x.paused = s.t.paused /\ x.exited = s.t.exited /\ x.haveEglContext = s.t.haveEglContext
      /\ x.haveEglSurface = s.t.haveEglSurface /\ x.createEglSurface = s.t.createEglSurface
  BY <1>1 DEF GLStates
<1> HIDE DEF x
<1>7. Held(x, v)  BY <1>1, <1>3, <1>6 DEF Held
<1>8. OwnStep(v, x, s.e)  BY <1>5, <1>6, <1>7 DEF OwnStep
<1> QED  BY <1>5, <1>8 DEF x

LEMMA DrawKeeps ==
  ASSUME GLInv, NEW v \in Views, GLThread!PassDraw(v)
  PROVE  GLInv'
<1> DEFINE s == GLThread!Updated(v)
           makes == ~s.t.haveEglSurface \/ s.t.sizeChanged \/ s.t.createEglSurface
           t == [s.t EXCEPT !.pc = IF makes THEN "create" ELSE "draw", !.createEglSurface = makes,
                     !.haveEglContext = TRUE, !.haveEglSurface = TRUE, !.sizeChanged = FALSE,
                     !.wantNotification = s.t.wantNotification \/ s.t.sizeChanged,
                     !.notify = s.t.notify \/ s.t.wantNotification \/ s.t.sizeChanged,
                     !.requestRender = FALSE]
           e == IF s.t.haveEglContext THEN s.e
                ELSE [s.e EXCEPT !.initialized = TRUE, !.contexts = s.e.contexts \cup {v}]
<1>1. /\ gl[v].pc = "pass" /\ GLThread!ReadyToDraw(s.t) /\ gl' = [gl EXCEPT ![v] = t] /\ egl' = e
      /\ UNCHANGED <<call, life, rude>>
  BY DEF GLThread!PassDraw, GLThread!Runs, GLThread!Becomes
<1> HIDE DEF s
<1>2. /\ s.t \in GLStates
      /\ s.t.requestPaused = gl[v].requestPaused /\ s.t.paused = gl[v].requestPaused
      /\ s.t.hasSurface = gl[v].hasSurface /\ s.t.exited = gl[v].exited
      /\ s.t.createEglSurface = gl[v].createEglSurface
      /\ (s.t.haveEglContext => gl[v].haveEglContext)
      /\ (s.t.haveEglSurface => gl[v].haveEglSurface /\ s.t.haveEglContext /\ s.e = egl)
      /\ s.e \in GLDisplays /\ (v \in s.e.surfaces => s.t.haveEglSurface)
      /\ \/ s.e = GLThread!Terminated /\ gl[v].haveEglContext /\ ~s.t.haveEglContext
         \/ /\ s.e.initialized = egl.initialized /\ s.e.contexts = egl.contexts
            /\ s.e.surfaces \subseteq egl.surfaces /\ egl.surfaces \ {v} \subseteq s.e.surfaces
  BY UpdatedFacts DEF s
<1>3. ~s.t.paused /\ s.t.hasSurface /\ ~s.t.exited
  BY <1>1, <1>2 DEF GLThread!ReadyToDraw, GLInv, Held
<1>4. t \in GLStates
  <2> DEFINE r == [s.t EXCEPT !.pc = IF makes THEN "create" ELSE "draw", !.createEglSurface = makes,
                     !.haveEglContext = TRUE, !.haveEglSurface = TRUE]
  <2>1. ASSUME NEW a \in {"create", "draw"}, NEW b \in BOOLEAN, NEW c \in BOOLEAN, NEW d \in BOOLEAN
        PROVE  [s.t EXCEPT !.pc = a, !.createEglSurface = b, !.haveEglContext = c, !.haveEglSurface = d] \in GLStates
    BY <1>2 DEF GLStates
  <2>2. makes \in BOOLEAN /\ (IF makes THEN "create" ELSE "draw") \in {"create", "draw"}  OBVIOUS
  <2>3. r \in GLStates
    <3> HIDE DEF makes
    <3> QED  BY <2>1, <2>2
  <2>4. t = [r EXCEPT !.sizeChanged = FALSE,
                     !.wantNotification = s.t.wantNotification \/ s.t.sizeChanged,
                     !.notify = s.t.notify \/ s.t.wantNotification \/ s.t.sizeChanged,
                     !.requestRender = FALSE]
    OBVIOUS
  <2> HIDE DEF r, t
  <2>5. ASSUME NEW a \in BOOLEAN, NEW b \in BOOLEAN, NEW c \in BOOLEAN, NEW d \in BOOLEAN
        PROVE  [r EXCEPT !.sizeChanged = a, !.wantNotification = b, !.notify = c, !.requestRender = d] \in GLStates
    BY <2>3 DEF GLStates
  <2>6. /\ (s.t.wantNotification \/ s.t.sizeChanged) \in BOOLEAN
        /\ (s.t.notify \/ s.t.wantNotification \/ s.t.sizeChanged) \in BOOLEAN
    OBVIOUS
  <2> QED  BY <2>4, <2>5, <2>6
<1>5. /\ t.pc = (IF makes THEN "create" ELSE "draw") /\ t.createEglSurface = makes
      /\ t.haveEglContext /\ t.haveEglSurface /\ t.paused = s.t.paused /\ t.requestPaused = s.t.requestPaused
      /\ t.hasSurface = s.t.hasSurface /\ t.exited = s.t.exited
  BY <1>2 DEF GLStates
<1> HIDE DEF t
<1>6. Held(t, v)  BY <1>3, <1>5 DEF Held
<1>7. e \in GLDisplays  BY <1>2 DEF GLDisplays
<1>8. e.surfaces = s.e.surfaces /\ e.surfaces \ {v} \subseteq egl.surfaces
  BY <1>2 DEF GLDisplays, GLThread!Terminated
<1>9. \/ gl[v].haveEglContext
      \/ /\ egl.surfaces \ {v} \subseteq e.surfaces /\ egl.contexts \subseteq e.contexts
         /\ (egl.initialized => e.initialized)
  BY <1>2, <1>8 DEF GLDisplays
<1>10. (gl[v].haveEglContext => egl.initialized /\ v \in egl.contexts) => e.initialized /\ v \in e.contexts
  <2>1. CASE s.t.haveEglContext  BY <1>2, <2>1
  <2>2. CASE ~s.t.haveEglContext  BY <1>2, <2>2 DEF GLDisplays
  <2> QED  BY <2>1, <2>2, OwnStepKeeps
<1>11. ~makes => s.t.haveEglSurface /\ ~s.t.createEglSurface  OBVIOUS
<1> HIDE DEF makes, e
<1>12. (gl[v].haveEglSurface /\ ~gl[v].createEglSurface => v \in egl.surfaces)
         /\ t.haveEglSurface /\ ~t.createEglSurface => v \in e.surfaces
  BY <1>2, <1>5, <1>8, <1>11
<1>13. OwnStep(v, t, e)
  BY <1>1, <1>2, <1>3, <1>4, <1>5, <1>6, <1>7, <1>8, <1>9, <1>10, <1>12 DEF OwnStep
<1> QED  BY <1>1, <1>13, OwnStepKeeps

LEMMA CreateKeeps ==
  ASSUME GLInv, NEW v \in Views, GLThread!CreateSurface(v)
  PROVE  GLInv'
<1>1. PICK surface, works \in BOOLEAN :
        /\ (surface => egl.initialized /\ GLThread!Others(v) = {} /\ ~gl[v].collected)
        /\ (works => surface /\ GLThread!MayCreate(v))
        /\ GLThread!Becomes(v, [gl[v] EXCEPT !.finishedCreating = TRUE, !.surfaceIsBad = @ \/ ~works,
                                  !.createEglSurface = ~works, !.pc = IF works THEN "draw" ELSE "pass"],
                            [egl EXCEPT !.surfaces = IF surface THEN {v} ELSE GLThread!Others(v)], TRUE, FALSE)
  BY DEF GLThread!CreateSurface
<1> DEFINE t == [gl[v] EXCEPT !.finishedCreating = TRUE, !.surfaceIsBad = gl[v].surfaceIsBad \/ ~works,
                    !.createEglSurface = ~works, !.pc = IF works THEN "draw" ELSE "pass"]
           e == [egl EXCEPT !.surfaces = IF surface THEN {v} ELSE GLThread!Others(v)]
<1>2. gl' = [gl EXCEPT ![v] = t] /\ egl' = e /\ UNCHANGED <<call, life, rude>> /\ gl[v].pc = "create"
  BY <1>1 DEF GLThread!CreateSurface, GLThread!Runs, GLThread!Becomes
<1>3. gl[v] \in GLStates /\ egl \in GLDisplays /\ Held(gl[v], v)  BY DEF GLInv, GLTypes
<1>4. t \in GLStates
  <2>1. ASSUME NEW a \in BOOLEAN, NEW b \in BOOLEAN, NEW c \in BOOLEAN, NEW d \in {"draw", "pass"}
        PROVE  [gl[v] EXCEPT !.finishedCreating = a, !.surfaceIsBad = b, !.createEglSurface = c, !.pc = d] \in GLStates
    BY <1>3 DEF GLStates
  <2>2. (gl[v].surfaceIsBad \/ ~works) \in BOOLEAN /\ (~works) \in BOOLEAN /\ (IF works THEN "draw" ELSE "pass") \in {"draw", "pass"}
    OBVIOUS
  <2> QED  BY <2>1, <2>2, OwnStepKeeps
<1>5. /\ t.pc = (IF works THEN "draw" ELSE "pass") /\ t.createEglSurface = ~works
      /\ t.haveEglContext = gl[v].haveEglContext /\ t.haveEglSurface = gl[v].haveEglSurface
      /\ t.paused = gl[v].paused /\ t.requestPaused = gl[v].requestPaused
      /\ t.hasSurface = gl[v].hasSurface /\ t.exited = gl[v].exited
  BY <1>3 DEF GLStates
<1> HIDE DEF t
<1>6. gl[v].haveEglSurface /\ gl[v].haveEglContext /\ ~gl[v].paused /\ ~gl[v].exited  BY <1>2, <1>3 DEF Held
<1>7. Held(t, v)  BY <1>3, <1>5, <1>6 DEF Held
<1>8. GLThread!Others(v) \subseteq egl.surfaces /\ egl.surfaces \subseteq Views  BY <1>3 DEF GLThread!Others, GLDisplays
<1>9. /\ e \in GLDisplays /\ e.initialized = egl.initialized /\ e.contexts = egl.contexts
      /\ e.surfaces = IF surface THEN {v} ELSE GLThread!Others(v)
  BY <1>3, <1>8 DEF GLDisplays
<1> HIDE DEF e
<1>10. e.surfaces \ {v} \subseteq egl.surfaces  BY <1>8, <1>9
<1>11. t.haveEglSurface /\ ~t.createEglSurface => v \in e.surfaces  BY <1>1, <1>5, <1>9
<1>12. OwnStep(v, t, e)
  BY <1>2, <1>4, <1>5, <1>6, <1>7, <1>9, <1>10, <1>11 DEF OwnStep
<1> QED  BY <1>2, <1>12, OwnStepKeeps

LEMMA SwapKeeps ==
  ASSUME GLInv, NEW v \in Views, GLThread!Swap(v)
  PROVE  GLInv'
<1> DEFINE t == GLThread!Swapped(gl[v])
<1>1. gl[v].pc = "swap" /\ UNCHANGED <<call, life, rude, egl>>
  BY DEF GLThread!Swap, GLThread!Runs, GLThread!Becomes
<1>2. \E u \in {t, [t EXCEPT !.lostEglContext = TRUE], [t EXCEPT !.surfaceIsBad = TRUE]} :
        gl' = [gl EXCEPT ![v] = u]
  BY DEF GLThread!Swap, GLThread!Becomes
<1>3. gl[v] \in GLStates /\ Held(gl[v], v)  BY DEF GLInv, GLTypes
<1>4. /\ t \in GLStates /\ t.pc = "pass" /\ t.createEglSurface = gl[v].createEglSurface
      /\ t.haveEglContext = gl[v].haveEglContext /\ t.haveEglSurface = gl[v].haveEglSurface
      /\ t.paused = gl[v].paused /\ t.requestPaused = gl[v].requestPaused
      /\ t.hasSurface = gl[v].hasSurface /\ t.exited = gl[v].exited
  <2>1. (gl[v].doNotification \/ gl[v].notify) \in BOOLEAN  OBVIOUS
  <2>2. t = [gl[v] EXCEPT !.pc = "pass", !.doNotification = gl[v].doNotification \/ gl[v].notify, !.notify = FALSE]
    BY DEF GLThread!Swapped
  <2>3. ASSUME NEW b \in BOOLEAN
        PROVE  [gl[v] EXCEPT !.pc = "pass", !.doNotification = b, !.notify = FALSE] \in GLStates
    BY <1>3 DEF GLStates
  <2> HIDE DEF t
  <2>4. t \in GLStates  BY <2>1, <2>2, <2>3
  <2> QED  BY <1>3, <2>2, <2>4 DEF GLStates
<1> HIDE DEF t
<1>5. ASSUME NEW u \in {t, [t EXCEPT !.lostEglContext = TRUE], [t EXCEPT !.surfaceIsBad = TRUE]}
      PROVE  /\ u \in GLStates /\ u.pc = "pass" /\ u.createEglSurface = gl[v].createEglSurface
             /\ u.haveEglContext = gl[v].haveEglContext /\ u.haveEglSurface = gl[v].haveEglSurface
             /\ u.paused = gl[v].paused /\ u.requestPaused = gl[v].requestPaused
             /\ u.hasSurface = gl[v].hasSurface /\ u.exited = gl[v].exited
  <2>1. CASE u = t  BY <1>4, <2>1
  <2>2. CASE u = [t EXCEPT !.lostEglContext = TRUE]  BY <1>4, <2>2 DEF GLStates
  <2>3. CASE u = [t EXCEPT !.surfaceIsBad = TRUE]  BY <1>4, <2>3 DEF GLStates
  <2> QED  BY <1>5, <2>1, <2>2, <2>3
<1>6. PICK u \in {t, [t EXCEPT !.lostEglContext = TRUE], [t EXCEPT !.surfaceIsBad = TRUE]} :
        gl' = [gl EXCEPT ![v] = u]
  BY <1>2
<1>7. Held(u, v)  BY <1>1, <1>3, <1>5 DEF Held
<1>8. OwnStep(v, u, egl)  BY <1>1, <1>5, <1>7, MovesOn
<1> QED  BY <1>1, <1>6, <1>8, OwnStepKeeps

LEMMA CleanUpKeeps ==
  ASSUME GLInv, NEW v \in Views, GLThread!CleanUp(v)
  PROVE  GLInv'
<1> DEFINE t == [gl[v] EXCEPT !.pc = "exiting", !.haveEglContext = FALSE, !.haveEglSurface = FALSE]
           e == GLThread!Released(v, TRUE, TRUE)
<1>1. gl' = [gl EXCEPT ![v] = t] /\ egl' = e /\ UNCHANGED <<call, life, rude>> /\ gl[v].pc = "exit"
  BY DEF GLThread!CleanUp, GLThread!Runs, GLThread!Becomes
<1>2. gl[v] \in GLStates /\ egl \in GLDisplays /\ Held(gl[v], v) /\ (v \in egl.surfaces => gl[v].haveEglSurface)
  BY DEF GLInv, GLTypes, SurfacesHeld
<1>3. /\ t \in GLStates /\ t.pc = "exiting" /\ ~t.haveEglContext /\ ~t.haveEglSurface
      /\ t.paused = gl[v].paused /\ t.requestPaused = gl[v].requestPaused
      /\ t.hasSurface = gl[v].hasSurface /\ t.exited = gl[v].exited
  BY <1>2 DEF GLStates
<1> HIDE DEF t
<1>4. Held(t, v)  BY <1>1, <1>2, <1>3 DEF Held
<1>5. CASE gl[v].haveEglContext
  <2>1. e = GLThread!Terminated  BY <1>5 DEF GLThread!Released
  <2> HIDE DEF e
  <2>2. e \in GLDisplays /\ e.surfaces = {}  BY <2>1 DEF GLThread!Terminated, GLDisplays
  <2>3. OwnStep(v, t, e)  BY <1>1, <1>2, <1>3, <1>4, <1>5, <2>2 DEF OwnStep, Held
  <2> QED  BY <1>1, <2>3, OwnStepKeeps DEF e
<1>6. CASE ~gl[v].haveEglContext
  <2>1. ~gl[v].haveEglSurface  BY <1>2, <1>6 DEF Held
  <2>2. e = egl  BY <1>2, <1>6, <2>1 DEF GLThread!Released, GLDisplays
  <2> HIDE DEF e
  <2>3. OwnStep(v, t, e)  BY <1>1, <1>2, <1>3, <1>4, <2>1, <2>2 DEF OwnStep, Held
  <2> QED  BY <1>1, <2>3, OwnStepKeeps DEF e
<1> QED  BY <1>5, <1>6

LEMMA ThreadStepKeeps ==
  ASSUME GLInv, NEW v \in Views, GLThread!ThreadStep(v)
  PROVE  GLInv'
<1>0. gl[v] \in GLStates /\ Held(gl[v], v)  BY DEF GLInv, GLTypes
<1>1. ASSUME NEW next \in {"pass", "event", "swap", "exit"}, gl[v].pc \in {"pass", "event", "draw"},
             next = "swap" => gl[v].pc = "draw",
             gl' = [gl EXCEPT ![v] = [gl[v] EXCEPT !.pc = next]], UNCHANGED <<egl, call, life, rude>>
      PROVE  GLInv'
  <2> DEFINE t == [gl[v] EXCEPT !.pc = next]
  <2>1. /\ t \in GLStates /\ t.pc = next /\ t.createEglSurface = gl[v].createEglSurface
        /\ t.haveEglContext = gl[v].haveEglContext /\ t.haveEglSurface = gl[v].haveEglSurface
        /\ t.paused = gl[v].paused /\ t.requestPaused = gl[v].requestPaused
        /\ t.hasSurface = gl[v].hasSurface /\ t.exited = gl[v].exited
    BY <1>0 DEF GLStates
  <2> HIDE DEF t
  <2>2. Held(t, v)  BY <1>0, <1>1, <2>1 DEF Held
  <2>3. OwnStep(v, t, egl)  BY <1>1, <2>1, <2>2, MovesOn
  <2> QED  BY <1>1, <2>3, OwnStepKeeps DEF t
<1>2. CASE GLThread!PassExit(v)
  <2>1. gl' = [gl EXCEPT ![v] = [gl[v] EXCEPT !.pc = "exit"]]  BY <1>2 DEF GLThread!PassExit
  <2> QED  BY <1>1, <1>2, <2>1 DEF GLThread!PassExit, GLThread!Runs
<1>3. CASE GLThread!RunEvent(v) \/ GLThread!Draw(v)
  <2>1. \E next \in {"pass", "exit", "swap"} :
          gl' = [gl EXCEPT ![v] = [gl[v] EXCEPT !.pc = next]] /\ (next = "swap" => gl[v].pc = "draw")
    BY <1>3 DEF GLThread!RunEvent, GLThread!Draw, GLThread!Runs
  <2> QED  BY <1>1, <1>3, <2>1 DEF GLThread!RunEvent, GLThread!Draw, GLThread!Runs
<1>4. CASE GLThread!PassEvent(v)
  <2> DEFINE t == [gl[v] EXCEPT !.pc = "event", !.events = gl[v].events - 1]
  <2>1. gl' = [gl EXCEPT ![v] = t] /\ gl[v].pc = "pass" /\ gl[v].events > 0 /\ UNCHANGED <<egl, call, life, rude>>
    BY <1>4 DEF GLThread!PassEvent, GLThread!Runs
  <2>2. gl[v].events - 1 \in Nat  BY <1>0, <2>1 DEF GLStates
  <2>3. /\ t \in GLStates /\ t.pc = "event" /\ t.createEglSurface = gl[v].createEglSurface
        /\ t.haveEglContext = gl[v].haveEglContext /\ t.haveEglSurface = gl[v].haveEglSurface
        /\ t.paused = gl[v].paused /\ t.requestPaused = gl[v].requestPaused
        /\ t.hasSurface = gl[v].hasSurface /\ t.exited = gl[v].exited
    BY <1>0, <2>2 DEF GLStates
  <2> HIDE DEF t
  <2>4. Held(t, v)  BY <1>0, <2>1, <2>3 DEF Held
  <2>5. OwnStep(v, t, egl)  BY <2>1, <2>3, <2>4, MovesOn
  <2> QED  BY <2>1, <2>5, OwnStepKeeps
<1>5. CASE GLThread!PassThrows(v) \/ GLThread!PassWaits(v)
  <2> DEFINE s == GLThread!Updated(v)
  <2>1. /\ gl[v].pc = "pass" /\ egl' = s.e /\ UNCHANGED <<call, life, rude>>
        /\ gl' = [gl EXCEPT ![v] = s.t] \/ gl' = [gl EXCEPT ![v] = [s.t EXCEPT !.pc = "exit"]]
    BY <1>5 DEF GLThread!PassThrows, GLThread!PassWaits, GLThread!Runs, GLThread!Becomes
  <2> HIDE DEF s
  <2>2. OwnStep(v, s.t, s.e) /\ OwnStep(v, [s.t EXCEPT !.pc = "exit"], s.e)  BY <2>1, RoundKeeps DEF s
  <2> QED  BY <2>1, <2>2, OwnStepKeeps
<1>6. CASE GLThread!ThreadExiting(v)
  <2> DEFINE t == [gl[v] EXCEPT !.pc = "dead", !.exited = TRUE]
  <2>1. gl' = [gl EXCEPT ![v] = t] /\ gl[v].pc = "exiting" /\ UNCHANGED <<egl, call, life, rude>>
    BY <1>6 DEF GLThread!ThreadExiting, GLThread!Runs, GLThread!Becomes
  <2>2. /\ t \in GLStates /\ t.pc = "dead" /\ t.createEglSurface = gl[v].createEglSurface
        /\ t.haveEglContext = gl[v].haveEglContext /\ t.haveEglSurface = gl[v].haveEglSurface
        /\ t.paused = gl[v].paused /\ t.requestPaused = gl[v].requestPaused
        /\ t.hasSurface = gl[v].hasSurface /\ t.exited
    BY <1>0 DEF GLStates
  <2> HIDE DEF t
  <2>3. Held(t, v)  BY <1>0, <2>1, <2>2 DEF Held
  <2>4. OwnStep(v, t, egl)  BY <2>1, <2>2, <2>3, MovesOn
  <2> QED  BY <2>1, <2>4, OwnStepKeeps
<1> QED
  BY <1>2, <1>3, <1>4, <1>5, <1>6, DrawKeeps, CreateKeeps, SwapKeeps, CleanUpKeeps DEF GLThread!ThreadStep

\* A step of the application or the collector: what v's thread holds stays.
Outside(v, t) ==
  /\ t \in GLStates /\ gl' = [gl EXCEPT ![v] = t] /\ egl' = egl
  /\ t.haveEglContext = gl[v].haveEglContext /\ t.haveEglSurface = gl[v].haveEglSurface
  /\ t.createEglSurface = gl[v].createEglSurface /\ t.paused = gl[v].paused /\ t.exited = gl[v].exited
  /\ t.pc = gl[v].pc \/ (gl[v].pc = "none" /\ t.pc = "pass")
  /\ gl[v].hasSurface => t.hasSurface

LEMMA OutsideKeeps ==
  ASSUME GLInv, NEW v \in Views, NEW t, Outside(v, t),
         life' \in [Views -> GLLives], CallsOK', LivesOK',
         call' \in [GLThread!Callers -> GLCalls],
         rude => rude',
         ~rude' => \/ \A u \in Views : AtWork(u)' => AtWork(u)
                   \/ \A u \in Views : AtWork(u)' => u = v
  PROVE  GLInv'
<1>1. gl'[v] = t /\ (\A u \in Views : u # v => gl'[u] = gl[u]) /\ gl[v] \in GLStates /\ gl' \in [Views -> GLStates]
  BY DEF GLInv, GLTypes, Outside
<1>2. GLTypes'  BY <1>1 DEF GLInv, GLTypes, Outside
<1>3. Held(t, v)  BY DEF GLInv, Held, Outside
<1>4. \A u \in Views : Held(gl'[u], u)  BY <1>1, <1>3 DEF GLInv
<1>5. /\ \A u \in Views : /\ gl'[u].haveEglContext = gl[u].haveEglContext
                          /\ gl'[u].haveEglSurface = gl[u].haveEglSurface
                          /\ gl'[u].createEglSurface = gl[u].createEglSurface
      /\ egl' = egl
  BY <1>1 DEF Outside
<1>6. egl.surfaces \subseteq Views  BY DEF GLInv, GLTypes, GLDisplays
<1>7. \A u \in egl'.surfaces : gl'[u].haveEglSurface
  BY <1>5, <1>6 DEF GLInv, SurfacesHeld
<1>8. ASSUME ~rude' PROVE OneAtWork'
  <2>1. OneAtWork  BY <1>8 DEF GLInv
  <2>2. \A u, w \in Views : AtWork(u)' /\ AtWork(w)' => u = w  BY <1>8, <2>1 DEF OneAtWork
  <2> QED  BY <1>5, <2>1, <2>2 DEF OneAtWork
<1> QED  BY <1>2, <1>4, <1>7, <1>8 DEF GLInv, SurfacesHeld

\* What Disturbs tests is enough for no other view to be at work.
LEMMA NotDisturbed ==
  ASSUME GLInv, NEW v \in Views, ~GLThread!Disturbs(v), NEW u \in Views, AtWork(u)
  PROVE  u = v
<1>1. ASSUME u # v PROVE FALSE
  <2>1. life[u] = "paused" /\ u \notin Preserving  BY <1>1 DEF GLThread!Disturbs, AtWork
  <2>2. gl[u].requestPaused /\ (gl[u].paused \/ gl[u].exited)  BY <2>1 DEF GLInv, LivesOK
  <2> QED  BY <2>1, <2>2 DEF AtWork
<1> QED  BY <1>1

LEMMA BeginFacts ==
  ASSUME GLInv, NEW c \in GLThread!Callers, NEW op, NEW v \in Views, NEW t, GLThread!Begin(c, op, v, t),
         op \in {"surfaceCreated", "onPause", "onResume", "requestExitAndWait"}
  PROVE  /\ call[c].op = "none" /\ gl' = [gl EXCEPT ![v] = t] /\ egl' = egl
         /\ call' = [call EXCEPT ![c] = [op |-> op, view |-> v]]
         /\ call'[c].op = op /\ call'[c].view = v /\ \A d \in GLThread!Callers : d # c => call'[d] = call[d]
         /\ call' \in [GLThread!Callers -> GLCalls]
BY DEF GLInv, GLTypes, GLCalls, GLThread!Begin, GLThread!Idle

LEMMA CallsFacts ==
  ASSUME GLInv
  PROVE  /\ \A c \in GLThread!Callers : call[c].op # "none" => call[c].view \in Views
         /\ "main" \in GLThread!Callers /\ "finalizer" \in GLThread!Callers
         /\ \A c \in GLThread!Callers : c = "main" \/ c = "finalizer"
BY DEF GLInv, CallsOK, GLThread!Callers, GLThread!Idle

LEMMA SurfaceCreatedKeeps ==
  ASSUME GLInv, NEW v \in Views, GLThread!SurfaceCreated(v)
  PROVE  GLInv'
<1> DEFINE t == [gl[v] EXCEPT !.hasSurface = TRUE, !.finishedCreating = FALSE]
<1>0. gl[v] \in GLStates /\ GLTypes /\ LivesOK /\ CallsOK  BY DEF GLInv, GLTypes
<1>1. /\ life[v] = "made" /\ life' = [life EXCEPT ![v] = "shown"] /\ rude' = (rude \/ GLThread!Disturbs(v))
      /\ GLThread!Begin("main", "surfaceCreated", v, t)
  BY DEF GLThread!SurfaceCreated
<1>2. /\ t \in GLStates /\ t.hasSurface /\ t.haveEglContext = gl[v].haveEglContext /\ t.haveEglSurface = gl[v].haveEglSurface
      /\ t.createEglSurface = gl[v].createEglSurface /\ t.paused = gl[v].paused /\ t.exited = gl[v].exited
      /\ t.pc = gl[v].pc /\ t.requestPaused = gl[v].requestPaused
  BY <1>0 DEF GLStates
<1> HIDE DEF t
<1>3. /\ gl' = [gl EXCEPT ![v] = t] /\ egl' = egl /\ call'["main"].op = "surfaceCreated" /\ call'["main"].view = v
      /\ call'["finalizer"] = call["finalizer"]
      /\ call' \in [GLThread!Callers -> GLCalls]
  <2>1. "main" \in GLThread!Callers /\ "finalizer" \in GLThread!Callers  BY CallsFacts
  <2> QED  BY ZenonT(60), <1>1, <2>1, BeginFacts
<1>4. Outside(v, t)  BY <1>2, <1>3 DEF Outside
<1>5. gl'[v] = t /\ \A u \in Views : u # v => gl'[u] = gl[u] /\ life'[u] = life[u]  BY <1>0, <1>1, <1>3 DEF GLTypes
<1>6. life'[v] = "shown" /\ life' \in [Views -> GLLives]
  BY <1>0, <1>1 DEF GLTypes, GLLives
<1>7. LivesOK'  BY <1>0, <1>5, <1>6 DEF LivesOK
<1>8. CallsOK'
  <2>1. \A c \in GLThread!Callers : call'[c] # GLThread!Idle => call'[c].view \in Views
    BY <1>0, <1>3, CallsFacts DEF CallsOK
  <2> QED  BY <1>0, <1>3, <1>6, <2>1 DEF CallsOK
<1>9. \A u \in Views : u # v /\ AtWork(u)' => AtWork(u)  BY <1>5 DEF AtWork, GLThread!Started
<1>10. ~rude' => \A u \in Views : AtWork(u)' => u = v  BY <1>1, <1>9, NotDisturbed
<1>11. rude => rude'  BY <1>1
<1> QED  BY <1>3, <1>4, <1>6, <1>7, <1>8, <1>10, <1>11, OutsideKeeps

LEMMA OnPauseKeeps ==
  ASSUME GLInv, NEW v \in Views, GLThread!OnPause(v)
  PROVE  GLInv'
<1> DEFINE t == [gl[v] EXCEPT !.requestPaused = TRUE]
<1>0. gl[v] \in GLStates /\ GLTypes /\ LivesOK /\ CallsOK  BY DEF GLInv, GLTypes
<1>1. life[v] = "running" /\ UNCHANGED <<life, rude>> /\ GLThread!Begin("main", "onPause", v, t)
  BY DEF GLThread!OnPause
<1>2. /\ t \in GLStates /\ t.hasSurface = gl[v].hasSurface /\ t.haveEglContext = gl[v].haveEglContext
      /\ t.haveEglSurface = gl[v].haveEglSurface /\ t.createEglSurface = gl[v].createEglSurface
      /\ t.paused = gl[v].paused /\ t.exited = gl[v].exited /\ t.pc = gl[v].pc /\ t.requestPaused
  BY <1>0 DEF GLStates
<1> HIDE DEF t
<1>3. /\ gl' = [gl EXCEPT ![v] = t] /\ egl' = egl /\ call'["main"].op = "onPause" /\ call'["main"].view = v
      /\ call'["finalizer"] = call["finalizer"]
      /\ call' \in [GLThread!Callers -> GLCalls]
  <2>1. "main" \in GLThread!Callers /\ "finalizer" \in GLThread!Callers  BY CallsFacts
  <2> QED  BY ZenonT(60), <1>1, <2>1, BeginFacts
<1>4. Outside(v, t)  BY <1>2, <1>3 DEF Outside
<1>5. gl'[v] = t /\ \A u \in Views : u # v => gl'[u] = gl[u]  BY <1>0, <1>3 DEF GLTypes
<1>6. LivesOK'  BY <1>0, <1>1, <1>2, <1>5 DEF LivesOK
<1>7. CallsOK'
  <2>1. \A c \in GLThread!Callers : call'[c] # GLThread!Idle => call'[c].view \in Views
    BY <1>0, <1>3, CallsFacts DEF CallsOK
  <2> QED  BY <1>0, <1>1, <1>2, <1>3, <1>5, <2>1 DEF CallsOK
<1>8. \A u \in Views : AtWork(u)' => AtWork(u)  BY <1>1, <1>2, <1>5 DEF AtWork, GLThread!Started
<1>9. life' \in [Views -> GLLives]  BY <1>0, <1>1 DEF GLTypes, GLLives
<1> QED  BY <1>1, <1>3, <1>4, <1>6, <1>7, <1>8, <1>9, OutsideKeeps

LEMMA OnResumeKeeps ==
  ASSUME GLInv, NEW v \in Views, GLThread!OnResume(v)
  PROVE  GLInv'
<1> DEFINE t == [gl[v] EXCEPT !.requestPaused = FALSE, !.requestRender = TRUE, !.renderComplete = FALSE]
<1>0. gl[v] \in GLStates /\ GLTypes /\ LivesOK /\ CallsOK  BY DEF GLInv, GLTypes
<1>1. /\ life[v] \in {"running", "paused"} /\ life' = [life EXCEPT ![v] = "running"]
      /\ rude' = (rude \/ GLThread!Disturbs(v)) /\ GLThread!Begin("main", "onResume", v, t)
  BY DEF GLThread!OnResume
<1>2. /\ t \in GLStates /\ t.hasSurface = gl[v].hasSurface /\ t.haveEglContext = gl[v].haveEglContext
      /\ t.haveEglSurface = gl[v].haveEglSurface /\ t.createEglSurface = gl[v].createEglSurface
      /\ t.paused = gl[v].paused /\ t.exited = gl[v].exited /\ t.pc = gl[v].pc
  BY ZenonT(60), <1>0 DEF GLStates
<1> HIDE DEF t
<1>3. /\ gl' = [gl EXCEPT ![v] = t] /\ egl' = egl /\ call'["main"].op = "onResume" /\ call'["main"].view = v
      /\ call'["finalizer"] = call["finalizer"]
      /\ call' \in [GLThread!Callers -> GLCalls]
  <2>1. "main" \in GLThread!Callers /\ "finalizer" \in GLThread!Callers  BY CallsFacts
  <2> QED  BY ZenonT(60), <1>1, <2>1, BeginFacts
<1>4. Outside(v, t)  BY <1>2, <1>3 DEF Outside
<1>5. gl'[v] = t /\ \A u \in Views : u # v => gl'[u] = gl[u] /\ life'[u] = life[u]  BY <1>0, <1>1, <1>3 DEF GLTypes
<1>6. life'[v] = "running" /\ life' \in [Views -> GLLives]
  BY <1>0, <1>1 DEF GLTypes, GLLives
<1>7. LivesOK'  BY <1>0, <1>5, <1>6 DEF LivesOK
<1>8. CallsOK'
  <2>1. \A c \in GLThread!Callers : call'[c] # GLThread!Idle => call'[c].view \in Views
    BY <1>0, <1>3, CallsFacts DEF CallsOK
  <2> QED  BY <1>0, <1>3, <2>1 DEF CallsOK
<1>9. \A u \in Views : u # v /\ AtWork(u)' => AtWork(u)  BY <1>5 DEF AtWork, GLThread!Started
<1>10. ~rude' => \A u \in Views : AtWork(u)' => u = v  BY <1>1, <1>9, NotDisturbed
<1>11. rude => rude'  BY <1>1
<1> QED  BY <1>3, <1>4, <1>6, <1>7, <1>8, <1>10, <1>11, OutsideKeeps

\* A step that sets a field the display and the views at work do not depend on.
LEMMA QuietKeeps ==
  ASSUME GLInv, NEW v \in Views, NEW t, Outside(v, t), t.requestPaused = gl[v].requestPaused,
         t.pc = gl[v].pc, t.hasSurface = gl[v].hasSurface, UNCHANGED <<life, rude>>,
         call' = call \/ GLThread!Begin("finalizer", "requestExitAndWait", v, t)
  PROVE  GLInv'
<1>0. gl[v] \in GLStates /\ GLTypes /\ LivesOK /\ CallsOK  BY DEF GLInv, GLTypes
<1>1. gl'[v] = t /\ \A u \in Views : u # v => gl'[u] = gl[u]  BY <1>0 DEF GLTypes, Outside
<1>2. \A u \in Views : /\ gl'[u].requestPaused = gl[u].requestPaused /\ gl'[u].paused = gl[u].paused
                       /\ gl'[u].exited = gl[u].exited /\ gl'[u].hasSurface = gl[u].hasSurface /\ gl'[u].pc = gl[u].pc
  BY <1>1 DEF Outside
<1>3. LivesOK'  BY <1>0, <1>2 DEF LivesOK
<1>4. /\ call' \in [GLThread!Callers -> GLCalls] /\ call'["main"] = call["main"]
      /\ call'["finalizer"].op \in {"none", "requestExitAndWait"}
      /\ \A c \in GLThread!Callers : call'[c] # GLThread!Idle => call'[c].view \in Views
  <2>1. CASE call' = call  BY <1>0, <2>1 DEF CallsOK, GLTypes
  <2>2. CASE GLThread!Begin("finalizer", "requestExitAndWait", v, t)
    BY <1>0, <2>2, BeginFacts, CallsFacts DEF CallsOK
  <2> QED  BY <2>1, <2>2
<1>5. CallsOK'
  <2>1. call["main"].op # "none" => call["main"].view \in Views  BY CallsFacts
  <2> QED  BY <1>0, <1>2, <1>4, <2>1 DEF CallsOK
<1>6. \A u \in Views : AtWork(u)' => AtWork(u)  BY <1>2 DEF AtWork, GLThread!Started
<1>7. life' \in [Views -> GLLives]  BY <1>0 DEF GLTypes
<1> QED  BY <1>3, <1>4, <1>5, <1>6, <1>7, OutsideKeeps

LEMMA SetRendererKeeps ==
  ASSUME GLInv, NEW v \in Views, GLThread!SetRenderer(v)
  PROVE  GLInv'
<1> DEFINE t == [gl[v] EXCEPT !.pc = "pass", !.continuous = v \notin WhenDirty]
<1>0. gl[v] \in GLStates /\ GLTypes /\ LivesOK /\ CallsOK  BY DEF GLInv, GLTypes
<1>1. /\ call["main"] = GLThread!Idle /\ life[v] = "none" /\ life' = [life EXCEPT ![v] = "made"]
      /\ gl' = [gl EXCEPT ![v] = t] /\ UNCHANGED <<egl, call, rude>>
  BY DEF GLThread!SetRenderer
<1>2. t \in GLStates
  <2>1. \A b \in BOOLEAN : [gl[v] EXCEPT !.pc = "pass", !.continuous = b] \in GLStates  BY <1>0 DEF GLStates
  <2>2. (v \notin WhenDirty) \in BOOLEAN  OBVIOUS
  <2> QED  BY <2>1, <2>2
<1>3. /\ t.hasSurface = gl[v].hasSurface /\ t.haveEglContext = gl[v].haveEglContext
      /\ t.haveEglSurface = gl[v].haveEglSurface /\ t.createEglSurface = gl[v].createEglSurface
      /\ t.paused = gl[v].paused /\ t.exited = gl[v].exited /\ t.pc = "pass"
  BY <1>0 DEF GLStates
<1> HIDE DEF t
<1>4. gl[v].pc = "none" /\ ~gl[v].hasSurface  BY <1>0, <1>1 DEF LivesOK
<1>5. Outside(v, t)  BY <1>1, <1>2, <1>3, <1>4 DEF Outside
<1>6. gl'[v] = t /\ \A u \in Views : u # v => gl'[u] = gl[u] /\ life'[u] = life[u]  BY <1>0, <1>1 DEF GLTypes
<1>7. life'[v] = "made" /\ life' \in [Views -> GLLives]  BY <1>0, <1>1 DEF GLTypes, GLLives
<1>8. LivesOK'  BY <1>0, <1>3, <1>4, <1>6, <1>7 DEF LivesOK
<1>9. CallsOK'  BY <1>0, <1>1 DEF CallsOK, GLThread!Idle
<1>10. \A u \in Views : AtWork(u)' => AtWork(u)  BY <1>6, <1>7 DEF AtWork, GLThread!Started
<1>11. call' \in [GLThread!Callers -> GLCalls] /\ rude' = rude  BY <1>0, <1>1 DEF GLTypes
<1> QED  BY <1>5, <1>7, <1>8, <1>9, <1>10, <1>11, OutsideKeeps

LEMMA ForgetKeeps ==
  ASSUME GLInv, NEW v \in Views, GLThread!Forget(v)
  PROVE  GLInv'
<1>0. gl[v] \in GLStates /\ GLTypes /\ LivesOK /\ CallsOK  BY DEF GLInv, GLTypes
<1>1. /\ call["main"] = GLThread!Idle /\ life[v] \in {"running", "paused"} /\ life' = [life EXCEPT ![v] = "gone"]
      /\ UNCHANGED <<gl, egl, call, rude>>
  BY DEF GLThread!Forget
<1>2. Outside(v, gl[v])  BY <1>0, <1>1 DEF Outside, GLTypes
<1>3. (\A u \in Views : u # v => life'[u] = life[u]) /\ life'[v] = "gone" /\ life' \in [Views -> GLLives]
  BY <1>0, <1>1 DEF GLTypes, GLLives
<1>4. LivesOK'  BY <1>0, <1>1, <1>3 DEF LivesOK
<1>5. CallsOK'  BY <1>0, <1>1 DEF CallsOK, GLThread!Idle
<1>6. \A u \in Views : AtWork(u)' => AtWork(u)  BY <1>1, <1>3 DEF AtWork, GLThread!Started
<1>7. call' \in [GLThread!Callers -> GLCalls] /\ rude' = rude  BY <1>0, <1>1 DEF GLTypes
<1> QED  BY <1>2, <1>3, <1>4, <1>5, <1>6, <1>7, OutsideKeeps

LEMMA ReturnsKeeps ==
  ASSUME GLInv, NEW c \in GLThread!Callers, GLThread!Returns(c)
  PROVE  GLInv'
<1> DEFINE v == call[c].view
<1>0. GLTypes /\ LivesOK /\ CallsOK  BY DEF GLInv
<1>1. call[c] # GLThread!Idle /\ ~GLThread!MustWait(call[c].op, gl[v]) /\ UNCHANGED <<egl, rude>> /\ call[c] \in GLCalls
  BY <1>0 DEF GLThread!Returns, GLTypes
<1>2. v \in Views /\ gl[v] \in GLStates  BY <1>0, <1>1 DEF CallsOK, GLTypes
<1>3. c = "main" \/ call[c].op \in {"none", "requestExitAndWait"}  BY <1>0, CallsFacts DEF CallsOK
<1>4. CASE call[c].op = "surfaceCreated"
  <2> DEFINE t == [gl[v] EXCEPT !.sized = TRUE, !.sizeChanged = TRUE, !.requestRender = TRUE, !.renderComplete = FALSE]
  <2>1. gl' = [gl EXCEPT ![v] = t] /\ call' = [call EXCEPT ![c].op = "onWindowResize"] /\ UNCHANGED life
    BY <1>4 DEF GLThread!Returns
  <2>2. /\ t \in GLStates /\ t.hasSurface = gl[v].hasSurface /\ t.haveEglContext = gl[v].haveEglContext
        /\ t.haveEglSurface = gl[v].haveEglSurface /\ t.createEglSurface = gl[v].createEglSurface
        /\ t.paused = gl[v].paused /\ t.exited = gl[v].exited /\ t.pc = gl[v].pc /\ t.requestPaused = gl[v].requestPaused
    BY <1>2 DEF GLStates
  <2> HIDE DEF t, v
  <2>3. Outside(v, t)  BY <1>1, <2>1, <2>2 DEF Outside
  <2>4. gl'[v] = t /\ \A u \in Views : u # v => gl'[u] = gl[u]  BY <1>0, <1>2, <2>1 DEF GLTypes
  <2>5. LivesOK'  BY <1>0, <2>1, <2>2, <2>4 DEF LivesOK
  <2>6. /\ call' \in [GLThread!Callers -> GLCalls] /\ call'["main"].op = "onWindowResize" /\ call'["main"].view = v
        /\ call'["finalizer"] = call["finalizer"] /\ c = "main"
    BY <1>0, <1>1, <1>3, <1>4, <2>1, CallsFacts DEF GLTypes, GLCalls, v
  <2>7. life[v] = "shown"  BY <1>0, <1>4, <2>6 DEF CallsOK, v
  <2>8. CallsOK'
    <3>1. \A d \in GLThread!Callers : call'[d] # GLThread!Idle => call'[d].view \in Views
      BY <1>0, <1>2, <2>6, CallsFacts DEF CallsOK
    <3> QED  BY <1>0, <2>1, <2>6, <2>7, <3>1 DEF CallsOK
  <2>9. \A u \in Views : AtWork(u)' => AtWork(u)  BY <2>1, <2>2, <2>4 DEF AtWork, GLThread!Started
  <2>10. life' \in [Views -> GLLives]  BY <1>0, <2>1 DEF GLTypes
  <2> QED  BY <1>1, <1>2, <2>3, <2>5, <2>6, <2>8, <2>9, <2>10, OutsideKeeps
<1>5. CASE call[c].op # "surfaceCreated"
  <2>1. /\ call' = [call EXCEPT ![c] = GLThread!Idle] /\ UNCHANGED gl
        /\ life' = IF call[c].op = "onWindowResize" THEN [life EXCEPT ![v] = "running"]
                   ELSE IF call[c].op = "onPause" THEN [life EXCEPT ![v] = "paused"] ELSE life
    BY <1>5 DEF GLThread!Returns
  <2> HIDE DEF v
  <2>2. Outside(v, gl[v])  BY <1>0, <1>1, <1>2, <2>1 DEF Outside, GLTypes
  <2>3. /\ call[c].op = "onWindowResize" => life[v] = "shown"
        /\ call[c].op = "onPause" => life[v] = "running" /\ gl[v].requestPaused /\ (gl[v].paused \/ gl[v].exited)
    BY <1>0, <1>1, <1>3 DEF CallsOK, GLThread!MustWait, v
  <2>4. /\ \A u \in Views : u # v => life'[u] = life[u]
        /\ call[c].op = "onWindowResize" => life'[v] = "running"
        /\ call[c].op = "onPause" => life'[v] = "paused"
        /\ call[c].op \notin {"onWindowResize", "onPause"} => life'[v] = life[v]
        /\ life' \in [Views -> GLLives]
    BY <1>0, <1>2, <2>1 DEF GLTypes, GLLives
  <2>5. LivesOK'  BY <1>0, <1>2, <2>1, <2>3, <2>4 DEF LivesOK
  <2>6. /\ call' \in [GLThread!Callers -> GLCalls] /\ call'[c] = GLThread!Idle
        /\ \A d \in GLThread!Callers : d # c => call'[d] = call[d]
    BY <1>0, <2>1 DEF GLTypes, GLCalls, GLThread!Idle
  <2>7. CallsOK'
    <3>1. \A d \in GLThread!Callers : call'[d] # GLThread!Idle => call'[d].view \in Views
      BY <1>0, <2>6 DEF CallsOK
    <3>2. CASE c = "main"
      BY <1>0, <2>6, <3>1, <3>2, CallsFacts DEF CallsOK, GLThread!Idle
    <3>3. CASE c # "main"
      <4>1. call'["main"] = call["main"] /\ call'["finalizer"].op = "none" /\ life' = life
        BY <1>3, <2>1, <2>6, <3>3, CallsFacts DEF GLThread!Idle
      <4> QED  BY <1>0, <2>1, <3>1, <4>1 DEF CallsOK
    <3> QED  BY <3>2, <3>3
  <2>8. \A u \in Views : AtWork(u)' => AtWork(u)  BY <1>2, <2>1, <2>3, <2>4 DEF AtWork, GLThread!Started
  <2> QED  BY <1>1, <1>2, <2>2, <2>4, <2>5, <2>6, <2>7, <2>8, OutsideKeeps
<1> QED  BY <1>4, <1>5

LEMMA GLNext == GLInv /\ [GLThread!Next]_glVars => GLInv'
<1> SUFFICES ASSUME GLInv, [GLThread!Next]_glVars PROVE GLInv'  OBVIOUS
<1>1. ASSUME NEW v \in Views, GLThread!ThreadStep(v) PROVE GLInv'  BY <1>1, ThreadStepKeeps
<1>2. ASSUME NEW v \in Views, GLThread!SetRenderer(v) \/ GLThread!SurfaceCreated(v) \/ GLThread!OnPause(v)
                              \/ GLThread!OnResume(v) \/ GLThread!Forget(v)
      PROVE  GLInv'
  BY <1>2, SetRendererKeeps, SurfaceCreatedKeeps, OnPauseKeeps, OnResumeKeeps, ForgetKeeps
<1>3. ASSUME NEW v \in Views, GLThread!RequestRender(v) \/ GLThread!QueueEvent(v) \/ GLThread!Collect(v)
                              \/ GLThread!Finalize(v)
      PROVE  GLInv'
  <2>0. gl[v] \in GLStates  BY DEF GLInv, GLTypes
  <2>1. PICK t \in {[gl[v] EXCEPT !.requestRender = TRUE], [gl[v] EXCEPT !.events = gl[v].events + 1],
                    [gl[v] EXCEPT !.collected = TRUE], [gl[v] EXCEPT !.shouldExit = TRUE]} :
          /\ gl' = [gl EXCEPT ![v] = t] /\ UNCHANGED <<egl, life, rude>>
          /\ call' = call \/ GLThread!Begin("finalizer", "requestExitAndWait", v, t)
    BY <1>3 DEF GLThread!RequestRender, GLThread!QueueEvent, GLThread!Collect, GLThread!Finalize, GLThread!Begin
  <2>2. gl[v].events + 1 \in Nat  BY <2>0 DEF GLStates
  <2>3. /\ t \in GLStates /\ t.hasSurface = gl[v].hasSurface /\ t.haveEglContext = gl[v].haveEglContext
        /\ t.haveEglSurface = gl[v].haveEglSurface /\ t.createEglSurface = gl[v].createEglSurface
        /\ t.paused = gl[v].paused /\ t.exited = gl[v].exited /\ t.pc = gl[v].pc
        /\ t.requestPaused = gl[v].requestPaused
    <3>1. CASE t = [gl[v] EXCEPT !.requestRender = TRUE]  BY <2>0, <3>1 DEF GLStates
    <3>2. CASE t = [gl[v] EXCEPT !.events = gl[v].events + 1]  BY <2>0, <2>2, <3>2 DEF GLStates
    <3>3. CASE t = [gl[v] EXCEPT !.collected = TRUE]  BY <2>0, <3>3 DEF GLStates
    <3>4. CASE t = [gl[v] EXCEPT !.shouldExit = TRUE]  BY <2>0, <3>4 DEF GLStates
    <3> QED  BY <2>1, <3>1, <3>2, <3>3, <3>4
  <2>4. Outside(v, t)  BY <2>1, <2>3 DEF Outside
  <2> QED  BY <2>1, <2>3, <2>4, QuietKeeps
<1>4. ASSUME NEW c \in GLThread!Callers, GLThread!CallStep(c) PROVE GLInv'
  <2>1. CASE GLThread!Waits(c)
    BY <2>1 DEF GLThread!Waits, GLInv, GLTypes, SurfacesHeld, LivesOK, CallsOK, OneAtWork, AtWork, GLThread!Started
  <2> QED  BY <1>4, <2>1, ReturnsKeeps DEF GLThread!CallStep
<1>5. CASE UNCHANGED glVars
  BY <1>5 DEF glVars, GLInv, GLTypes, SurfacesHeld, LivesOK, CallsOK, OneAtWork, AtWork, GLThread!Started
<1> QED  BY <1>1, <1>2, <1>3, <1>4, <1>5 DEF GLThread!Next

LEMMA GLInvariant == Spec => []GLInv
<1>1. Init => GLInv  BY GLInit DEF Init
<1>2. GLInv /\ [Next]_vars => GLInv'  BY GLNext, PartSteps
<1> QED  BY <1>1, <1>2, PTL DEF Spec

\* Whatever the other views, the application, the collector and EGL do.
THEOREM GLPausedReleases == Spec => []PausedIsReleased
<1>1. GLInv => PausedIsReleased
  BY DEF GLInv, LivesOK, Held, PausedIsReleased, GLThread!PausedIsReleased
<1> QED  BY <1>1, GLInvariant, PTL

\* Any number of views that share the window and the display.
THEOREM GLPoliteViews == Spec => []PoliteViewsDoNotClash
<1>1. ASSUME GLInv, ~rude, NEW v \in Views, ~gl[v].collected
      PROVE  /\ gl[v].pc = "create" => GLThread!MayCreate(v)
             /\ gl[v].pc \in {"draw", "swap"} => GLThread!MaySwap(v)
  <2>0. OneAtWork /\ SurfacesHeld /\ Held(gl[v], v) /\ egl.surfaces \subseteq Views
    BY <1>1 DEF GLInv, GLTypes, GLDisplays
  <2>1. gl[v].pc \in {"create", "draw", "swap"} => gl[v].haveEglContext /\ gl[v].haveEglSurface
    BY <2>0 DEF Held
  <2>2. \A u \in Views : gl[u].haveEglSurface => AtWork(u)
    BY <1>1, AtWorkHolds DEF GLInv, Held
  <2>3. gl[v].haveEglSurface => GLThread!Others(v) = {}
    BY <1>1, <2>0, <2>2 DEF GLThread!Others, SurfacesHeld, OneAtWork
  <2>4. gl[v].pc \in {"draw", "swap"} => ~gl[v].createEglSurface  BY <2>0 DEF Held
  <2> QED  BY <2>0, <2>1, <2>3, <2>4 DEF GLThread!MayCreate, GLThread!MaySwap, OneAtWork
<1>2. GLInv => PoliteViewsDoNotClash
  BY <1>1 DEF PoliteViewsDoNotClash, GLThread!PoliteViewsDoNotClash
<1> QED  BY <1>2, GLInvariant, PTL
=============================================================================

----------------------------- MODULE NovaNatives -----------------------------
(***************************************************************************)
(* The parts of the runtime that share no state with one another: the parcel *)
(* buffer, the Java side of the RPC transport, the property table, the        *)
(* software canvas, pointer and keyboard, and GLSurfaceView's threads.  A      *)
(* behaviour is one of the part that Init picks; the others stay as they       *)
(* start.  The states are the sum of the parts', not their product.           *)
(***************************************************************************)
EXTENDS Integers, FiniteSets, Sequences

CONSTANTS
  Threads, Clients,                                            \* NovaBridge
  Base, WordBytes, MinCap, Numbers, Contents, BufSizes, MaxItems,  \* NovaParcel
  Writers, Readers, Keys, Vals, Seed, MaxProps,                \* NovaProps
  Levels, MaxDepth, Coords, Shifts, MaxShift, Widths,          \* NovaCanvas
  MaxChanges, MaxWire,                                         \* NovaInput
  Views, Preserving, WhenDirty, MaxCalls                       \* NovaGLThread

ASSUME NativesAssumption ==
  /\ IsFiniteSet(Threads) /\ IsFiniteSet(Clients) /\ IsFiniteSet(Views)
  /\ Base \in Nat \ {0, 1} /\ {WordBytes, MinCap, MaxItems} \subseteq Nat \ {0}
  /\ BufSizes \subseteq Nat \ {0} /\ Numbers \subseteq Nat /\ Contents \subseteq Seq(0..(Base - 1))
  /\ MaxProps \in Nat /\ Seed \in Seq(Keys \X Vals) /\ Len(Seed) <= MaxProps
  /\ {Levels, MaxDepth, MaxShift} \subseteq Nat /\ Coords \cup Shifts \subseteq Int /\ Widths \subseteq Nat
  /\ {MaxChanges, MaxWire, MaxCalls} \subseteq Nat /\ Preserving \cup WhenDirty \subseteq Views

VARIABLES
  part,
  handle, pc, arg, open, freed, misuse, overlapped, replaced,
  data, len, pos, todo, items, taken, hung, failed, agree,
  table, count, wr, rd, first, overrun, raced,
  width, state, depth, saved, ideal, skewed,
  hostPc, mem, seat, devices, wire, caps, changes, entered, moved, seen,
  gl, egl, call, asleep, life, rude, calls, asked

bridgeVars == <<handle, pc, arg, open, freed, misuse, overlapped, replaced>>
parcelVars == <<data, len, pos, todo, items, taken, hung, failed, agree>>
propsVars == <<table, count, wr, rd, first, overrun, raced>>
canvasVars == <<width, state, depth, saved, ideal, skewed>>
inputVars == <<hostPc, mem, seat, devices, wire, caps, changes, entered, moved, seen>>
glVars == <<gl, egl, call, asleep, life, rude, calls, asked>>
vars == <<part, bridgeVars, parcelVars, propsVars, canvasVars, inputVars, glVars>>

Bridge == INSTANCE NovaBridge
Parcel == INSTANCE NovaParcel
Props == INSTANCE NovaProps
Canvas == INSTANCE NovaCanvas
Input == INSTANCE NovaInput WITH pc <- hostPc
GLThread == INSTANCE NovaGLThread

\* What stands for nothing is no client and no value of a property.
ASSUME NothingAssumption == Bridge!Null \notin Clients /\ Props!None \notin Vals

\* The capacities of a parcel are the doublings of the first until they wrap to
\* 0, as 64 does in 32 bits.  What is written at once, a word, a string or an
\* array of Java, is shorter than half the range of lengths.
ASSUME LengthAssumption ==
  /\ \E k \in 1..Parcel!Word : MinCap * Parcel!Power(2)[k] = Parcel!Word
  /\ WordBytes < Parcel!Word \div 2 /\ \A s \in Contents : Len(s) < Parcel!Word \div 2

Parts == {"bridge", "parcel", "props", "canvas", "input", "glthread"}

\* A part that is not picked has one initial state.
Init ==
  /\ part \in Parts
  /\ Bridge!Init /\ Parcel!Init /\ Props!Init /\ Canvas!Init /\ Input!Init /\ GLThread!Init
  /\ part # "canvas" => width = 0
  /\ part # "input" => caps = {}

Next ==
  /\ UNCHANGED part
  /\ \/ part = "bridge" /\ Bridge!Next
        /\ UNCHANGED <<parcelVars, propsVars, canvasVars, inputVars, glVars>>
     \/ part = "parcel" /\ Parcel!Next
        /\ UNCHANGED <<bridgeVars, propsVars, canvasVars, inputVars, glVars>>
     \/ part = "props" /\ Props!Next
        /\ UNCHANGED <<bridgeVars, parcelVars, canvasVars, inputVars, glVars>>
     \/ part = "canvas" /\ Canvas!Next
        /\ UNCHANGED <<bridgeVars, parcelVars, propsVars, inputVars, glVars>>
     \/ part = "input" /\ Input!Next
        /\ UNCHANGED <<bridgeVars, parcelVars, propsVars, canvasVars, glVars>>
     \/ part = "glthread" /\ GLThread!Next
        /\ UNCHANGED <<bridgeVars, parcelVars, propsVars, canvasVars, inputVars>>

\* NovaGLThread's fairness; its steps are steps of this specification.
Spec == Init /\ [][Next]_vars /\ GLThread!Fairness

-----------------------------------------------------------------------------
(* Properties: those of the parts, each about its own behaviours.           *)

\* Used by one thread at a time, whichever, in any order of connect, transact
\* and close, NovaBinderTransport never uses or frees a client twice and never
\* has two calls on one stream.
SerialUseIsSafe == Bridge!SerialUseIsSafe

\* Used so, only a connect of an object that is connected loses a client.
OnlyReconnectLeaks == Bridge!OnlyReconnectLeaks

\* What is written to a parcel is read back, and parcel_grow ends.
ReadsBack == Parcel!ReadsBack

\* With sets that do not overlap, whatever the gets do, the property table is a
\* map in which the first set of a key stands.
WriteOnceMap == Props!WriteOnceMap

\* A canvas restore brings back what its level was saved with.
RestoreBringsBack == Canvas!RestoreBringsBack

\* The pointer to the virtual machine survives the pointer's coordinates until
\* the seat announces its devices a second time.
VmPointerKept == Input!VmPointerKept

\* After GLSurfaceView.onPause the thread neither draws nor holds a surface.
PausedIsReleased == GLThread!PausedIsReleased

\* EGL refuses no view because of another, as long as each is paused first.
PoliteViewsDoNotClash == GLThread!PoliteViewsDoNotClash

\* Every call into a GLSurfaceView returns.
CallsReturn == GLThread!CallsReturn

\* A requestRender is followed by a frame.
RequestIsDrawn == GLThread!RequestIsDrawn
=============================================================================

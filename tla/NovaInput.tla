----------------------------- MODULE NovaInput ------------------------------
(***************************************************************************)
(* Pointer and keyboard of the host's window: the seat, its listeners in     *)
(* nova_wayland.c, and the memory of struct nova_state they share with art.c. *)
(*                                                                          *)
(* The struct is declared twice.  libnova_android's header has last_x, last_y *)
(* and pointer_pressed before jvm, env and libart_handle; the header in       *)
(* nova/src, which art.c finds first, has not.  Both agree up to byte 80; from *)
(* there the two files name the same words differently (64-bit build).        *)
(*                                                                          *)
(* libwayland is external: one ordered stream of events to the client, and an *)
(* event of a proxy that has no listener is dropped.  Whichever thread        *)
(* dispatches the connection runs the same handlers.                          *)
(***************************************************************************)
EXTENDS Naturals, Sequences

CONSTANTS
  MaxChanges,  \* bound on changes of the seat's capabilities
  MaxWire      \* bound on undelivered events

Devices == {"pointer", "keyboard"}
Zero == "zero"
Words == {80, 88, 96, 104}

HostLayout == [jvm |-> 80, env |-> 88, libart |-> 96]
WaylandLayout == [coords |-> 80, pressed |-> 88, jvm |-> 96, env |-> 104]

VARIABLES
  pc,       \* the main thread of the host
  mem,      \* the words of struct nova_state from byte 80 on
  seat,     \* state->seat: none, bound, listened (its listener is added)
  devices,  \* state->pointer and state->keyboard that exist
  wire,     \* events the compositor has sent
  caps,     \* what the compositor's seat offers
  changes,  \* how often that has changed
  entered,  \* the compositor has told the client that the pointer is inside
  moved,    \* the user has moved a pointer over the running window
  seen      \* ViewDispatcher has been called with an event

vars == <<pc, mem, seat, devices, wire, caps, changes, entered, moved, seen>>
clientVars == <<pc, mem, seat, devices, seen>>
userVars == <<caps, changes, entered, moved>>

Event(k) == [kind |-> k, caps |-> {}]
Capabilities(c) == [kind |-> "capabilities", caps |-> c]

\* nova_state_create has allocated a zeroed struct.
Init ==
  /\ pc = "connect" /\ mem = [w \in Words |-> Zero]
  /\ seat = "none" /\ devices = {} /\ wire = <<>> /\ seen = FALSE
  /\ caps \in SUBSET Devices /\ changes = 0 /\ entered = FALSE /\ moved = FALSE

-----------------------------------------------------------------------------
(* Listeners.                                                               *)

\* The test pointer_motion, pointer_button and keyboard_key begin with.
VmKnown == mem[WaylandLayout.jvm] # Zero /\ mem[WaylandLayout.env] # Zero

\* A pair of coordinates is all zero bits in the corner of the surface.
StoreCoords == \E w \in {Zero, "coords"} : mem' = [mem EXCEPT ![WaylandLayout.coords] = w]

Enter == StoreCoords /\ UNCHANGED <<devices, seen>>

Motion ==
  /\ IF VmKnown THEN StoreCoords /\ seen' = TRUE ELSE UNCHANGED <<mem, seen>>
  /\ UNCHANGED devices

Button ==
  /\ IF VmKnown THEN /\ \E w \in {Zero, "pressed"} : mem' = [mem EXCEPT ![WaylandLayout.pressed] = w]
                     /\ seen' = TRUE
                ELSE UNCHANGED <<mem, seen>>
  /\ UNCHANGED devices

Key == seen' = (seen \/ VmKnown) /\ UNCHANGED <<mem, devices>>

\* seat_capabilities; devices that go away stay.
SeatCapabilities(c) ==
  /\ devices' = IF seat = "listened" THEN devices \cup c ELSE devices
  /\ UNCHANGED <<mem, seen>>

\* The first event is taken off the stream and handled.
Dispatch ==
  /\ pc \in {"roundtrip", "listen", "window", "loop"} /\ wire # <<>> /\ wire' = Tail(wire)
  /\ LET e == Head(wire) IN
       \/ e.kind = "capabilities" /\ SeatCapabilities(e.caps) /\ UNCHANGED pc
       \/ e.kind = "enter" /\ Enter /\ UNCHANGED pc
       \/ e.kind = "motion" /\ Motion /\ UNCHANGED pc
       \/ e.kind = "button" /\ Button /\ UNCHANGED pc
       \/ e.kind = "key" /\ Key /\ UNCHANGED pc
       \/ e.kind = "done" /\ pc' = "listen" /\ UNCHANGED <<mem, devices, seen>>
  /\ UNCHANGED <<seat, userVars>>

-----------------------------------------------------------------------------
(* The main thread.                                                         *)

\* Mutant: the listener is added where the seat is bound.
MutantConnect ==
  /\ pc = "connect"
  /\ \/ pc' = "exit" /\ UNCHANGED <<seat, wire>>
     \/ pc' = "roundtrip" /\ seat' = "listened" /\ wire' = <<Capabilities(caps), Event("done")>>
  /\ UNCHANGED <<mem, devices, seen, userVars>>

\* wl_display_connect and the first round trip, in which registry_global binds
\* the seat if there is one.  The second asks the compositor to answer, and its
\* answers to the bindings come before the one to the round trip.
Connect ==
  /\ pc = "connect"
  /\ \/ pc' = "exit" /\ UNCHANGED <<seat, wire>>
     \/ pc' = "roundtrip" /\ wire' = <<Event("done")>> /\ UNCHANGED seat
     \/ pc' = "roundtrip" /\ seat' = "bound" /\ wire' = <<Capabilities(caps), Event("done")>>
  /\ UNCHANGED <<mem, devices, seen, userVars>>

\* After the second round trip: a required global is missing, or the listener
\* of the seat is added.
Listen ==
  /\ pc = "listen"
  /\ \/ pc' = "exit" /\ UNCHANGED seat
     \/ pc' = "window" /\ seat' = IF seat = "bound" THEN "listened" ELSE seat
  /\ UNCHANGED <<mem, devices, wire, seen, userVars>>

\* The window is configured, or could not be made.
Configured ==
  /\ pc = "window" /\ pc' \in {"art", "exit"}
  /\ UNCHANGED <<mem, seat, devices, wire, seen, userVars>>

\* nova_art_init clears its three fields and sets them when the virtual machine
\* runs; EGL or the launch may fail afterwards.
ArtInit ==
  /\ pc = "art"
  /\ \E ok \in BOOLEAN :
       /\ mem' = [w \in Words |->
            IF w \in {HostLayout.jvm, HostLayout.env, HostLayout.libart}
            THEN IF ~ok THEN Zero
                 ELSE IF w = HostLayout.jvm THEN "vm" ELSE IF w = HostLayout.env THEN "env" ELSE "lib"
            ELSE mem[w]]
       /\ pc' \in IF ok THEN {"loop", "shutdown"} ELSE {"exit"}
  /\ UNCHANGED <<seat, devices, wire, seen, userVars>>

\* The close button, or a connection that is gone.
LoopEnds ==
  /\ pc = "loop" /\ pc' = "shutdown"
  /\ UNCHANGED <<mem, seat, devices, wire, seen, userVars>>

\* nova_art_shutdown: DestroyJavaVM is called through the pointer found in jvm.
ArtShutdown ==
  /\ pc = "shutdown"
  /\ pc' = IF mem[HostLayout.jvm] \in {Zero, "vm"} THEN "exit" ELSE "crashed"
  /\ mem' = [w \in Words |->
       IF w \in {HostLayout.jvm, HostLayout.env, HostLayout.libart} THEN Zero ELSE mem[w]]
  /\ UNCHANGED <<seat, devices, wire, seen, userVars>>

HostStep == Dispatch \/ Connect \/ Listen \/ Configured \/ ArtInit \/ ArtShutdown

-----------------------------------------------------------------------------
(* The compositor and its user (external).                                  *)

Sends(s) == Len(wire) + Len(s) <= MaxWire /\ wire' = wire \o s

\* A device is plugged in or out.
CapabilitiesChange ==
  /\ seat # "none" /\ changes < MaxChanges /\ changes' = changes + 1
  /\ caps' \in SUBSET Devices \ {caps} /\ Sends(<<Capabilities(caps')>>)
  /\ UNCHANGED <<clientVars, entered, moved>>

\* A client without a wl_pointer is told nothing.
UserMoves ==
  /\ pc = "loop" /\ seat # "none" /\ "pointer" \in caps /\ moved' = TRUE
  /\ IF "pointer" \in devices
     THEN /\ Sends(IF entered THEN <<Event("motion")>> ELSE <<Event("enter"), Event("motion")>>)
          /\ entered' = TRUE
     ELSE UNCHANGED <<wire, entered>>
  /\ UNCHANGED <<clientVars, caps, changes>>

UserClicks ==
  /\ pc = "loop" /\ entered /\ "pointer" \in caps /\ Sends(<<Event("button")>>)
  /\ UNCHANGED <<clientVars, userVars>>

UserTypes ==
  /\ pc = "loop" /\ "keyboard" \in caps \cap devices /\ Sends(<<Event("key")>>)
  /\ UNCHANGED <<clientVars, userVars>>

Next == HostStep \/ LoopEnds \/ CapabilitiesChange \/ UserMoves \/ UserClicks \/ UserTypes

Spec == Init /\ [][Next]_vars

\* The main thread is scheduled; nothing makes the user act or close the window.
FairSpec == Spec /\ WF_vars(HostStep)

-----------------------------------------------------------------------------
(* Properties.                                                              *)

\* Words and proxies have their types, and the client has proxies only of a
\* seat it listens to.
TypeOK ==
  /\ pc \in {"connect", "roundtrip", "listen", "window", "art", "loop", "shutdown", "exit", "crashed"}
  /\ mem \in [Words -> {Zero, "vm", "env", "lib", "coords", "pressed"}]
  /\ seat \in {"none", "bound", "listened"} /\ devices \subseteq Devices /\ caps \subseteq Devices
  /\ changes \in 0..MaxChanges /\ {entered, moved, seen} \subseteq BOOLEAN
  /\ devices # {} => seat = "listened"

\* pointer_enter stores coordinates over art.c's pointer to the virtual machine,
\* but not before the seat has announced its devices a second time: the first
\* announcement comes before the listener.  Until then shutdown finds the
\* pointer nova_art_init has left.
VmPointerKept ==
  changes = 0 => pc # "crashed" /\ (pc = "loop" => mem[HostLayout.jvm] = "vm")

\* plan-v8.md:319 "Wayland pointer/keyboard events reach the AOSP View tree": a
\* pointer moved over the running window is seen by the view dispatcher.
InputReachesViews == (pc = "loop" /\ moved) ~> (seen \/ pc # "loop")
=============================================================================

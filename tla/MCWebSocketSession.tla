-------------------------- MODULE MCWebSocketSession --------------------------
(***************************************************************************)
(* A small instance of WebSocketSession: two slots and a day of three      *)
(* minutes.  The two windows a caller may ask for overlap, so that two     *)
(* edits, each harmless alone, clash when both are stored.                 *)
(***************************************************************************)
EXTENDS WebSocketSession

On(start, stop) == [active |-> TRUE, mode |-> "export", start |-> start, stop |-> stop]
Off == [active |-> FALSE, mode |-> "export", start |-> 0, stop |-> 1]

MCSlots == {1, 2}
MCModes == {"default", "export"}
MCWireModes == MCModes \union {"unknown"}
MCWireMinutes == 0..3
MCWanted == {On(0, 1), On(1, 2), Off}

AllOff == [i \in MCSlots |-> [active |-> 0, mode |-> "export", start |-> 0, stop |-> 1]]
\* What another editor leaves: slot 2 runs, in a mode no caller asks for.
Edited == [AllOff EXCEPT ![2] = [active |-> 1, mode |-> "unknown", start |-> 1, stop |-> 2]]

MCInitial == {AllOff}
MCExternal == {Edited}
=============================================================================

----------------------------- MODULE MCBleClient -----------------------------
(***************************************************************************)
(* A small instance of BleClient: two slots, frames of two fragments, and  *)
(* two windows that overlap, so that two edits clash when both are stored. *)
(***************************************************************************)
EXTENDS BleClient, TLC

MCSlots == {1, 2}
MCModes == {"default", "export"}
MCMinutes == 0..2

On(start, stop) == [active |-> TRUE, mode |-> "export", start |-> start, stop |-> stop]

MCWanted == {On(0, 1), On(1, 2)}
MCInitial == {[i \in MCSlots |-> [active |-> 0, mode |-> "export", start |-> 0, stop |-> 1]]}

Symmetry == Permutations(Tasks)
=============================================================================

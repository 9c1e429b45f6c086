---------------------------- MODULE MCCoordinator ----------------------------
(***************************************************************************)
(* Small instances of Coordinator: two edits of one slot, as a switch      *)
(* entity and the set_schedule action make them.                           *)
(***************************************************************************)
EXTENDS Coordinator

CONSTANTS e1, e2

\* e1 sets one field, e2 every field.
OneAndAll == [e \in {e1, e2} |-> IF e = e1 THEN {"active"} ELSE {"active", "mode"}]
=============================================================================

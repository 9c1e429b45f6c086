---------------------------- MODULE ScheduleStore ----------------------------
(***************************************************************************)
(* What schedule editing promises, with no transport in sight: the table   *)
(* on the device changes only by atomic edits of one slot, each accepted   *)
(* by the planner against the very table it replaces.  WebSocketSession    *)
(* implements this with a read, a plan, a second read, a write and a       *)
(* readback.                                                               *)
(***************************************************************************)
EXTENDS Schedules

CONSTANTS
  Wanted,       \* the schedules that callers ask for
  Initial       \* the tables the device may hold at first

ASSUME StoreAssumption ==
  /\ Wanted \subseteq Schedule
  /\ Initial \subseteq Overrides

VARIABLE table  \* the schedule records stored on the device

TypeOK == table \in Overrides

Init == table \in Initial

Edit(slot, s) ==
  /\ ~Refused(table, slot, s)
  /\ table' = [table EXCEPT ![slot] = ToWire(s)]

Next == \E slot \in Slots, s \in Wanted : Edit(slot, s)

Spec == Init /\ [][Next]_table

-----------------------------------------------------------------------------
\* README.md:47-48 "reject newly overlapping active windows": an accepted edit
\* never makes two slots claim a minute that they did not both claim before,
\* in the controller's own reading of the records (half-open and overnight
\* windows), whatever the device held at first.
NoNewClash ==
  [][\A i, j \in Slots :
       i # j /\ Clash(table', i, j) => Clash(table, i, j)]_table

\* Starting from a table without ambiguity, no sequence of accepted edits makes
\* two slots claim the same minute.
StaysUnambiguous == Unambiguous(table)
=============================================================================

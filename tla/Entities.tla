------------------------------- MODULE Entities -------------------------------
(***************************************************************************)
(* The schedule entities of the integration: a switch, a mode, two times   *)
(* and the set_schedule action for each slot (switch.py, select.py,        *)
(* time.py, entity.py).  They show the configuration that the coordinator  *)
(* last read, which may be older than the device's, and change one field   *)
(* at a time: async_edit_schedule completes the other fields from the      *)
(* record it has just read, validates the whole and has it planned.        *)
(*                                                                         *)
(* A transaction is one step here; Coordinator has its interleavings.  The *)
(* entry is one that can write (Wi-Fi, or Bluetooth with a password), on   *)
(* the supported firmware.                                                 *)
(***************************************************************************)
EXTENDS ScheduleStore

CONSTANTS
  Asked,    \* the schedules that callers of set_schedule ask for
  Unknown   \* no configuration, or a field that the entity cannot show

ASSUME EntitiesAssumption ==
  /\ Asked \subseteq [active: BOOLEAN, mode: Modes, start: Minutes, stop: Minutes]
  /\ Unknown \notin Overrides \union Modes \union Nat

VARIABLES
  shown,    \* the configuration in coordinator.data, or Unknown
  success   \* coordinator.last_update_success

entities == <<table, shown, success>>

EntityInit == Init /\ shown = table /\ success = TRUE

-----------------------------------------------------------------------------
(* What the entities show                                                  *)

\* A record, its active byte read as a boolean.
Fields(r) == [active |-> r.active # 0, mode |-> r.mode,
              start |-> r.start, stop |-> r.stop]

\* current_option and native_value show nothing that they have no word for.
ShownMode(mode) == IF mode \in Modes THEN mode ELSE Unknown
ShownMinutes(minutes) == IF minutes \in Minutes THEN minutes ELSE Unknown

\* is_on, current_option and the two native_value
Display(r) ==
  [active |-> Fields(r).active, mode |-> ShownMode(r.mode),
   start |-> ShownMinutes(r.start), stop |-> ShownMinutes(r.stop)]

\* ScheduleEntity.available; Home Assistant calls no unavailable entity.
Available == success /\ shown # Unknown

-----------------------------------------------------------------------------
(* Editing                                                                 *)

\* What each control passes to async_edit_schedule: the fields it changes.
Switch == [{"active"} -> BOOLEAN]
SelectOption == [{"mode"} -> Modes]
SetValue == [{"start"} -> Minutes] \union [{"stop"} -> Minutes]
SetSchedule == Asked
Changes == Switch \union SelectOption \union SetValue \union SetSchedule

\* ControlMode, Schedule and plan_schedule raise no ValueError.
Accepts(overrides, slot, s) == s \in Schedule /\ ~Refused(overrides, slot, s)

\* Mutation of Current: the record on show.
CurrentShown(slot) == shown[slot]

\* current: the record of the slot, read in the same transaction.
Current(slot) == table[slot]

\* Mutation of Merged: fields that were not asked for take their defaults.
MergedDefaults(fields, changes) ==
  [f \in DOMAIN fields |->
     IF f \in DOMAIN changes THEN changes[f]
     ELSE CASE f = "active" -> FALSE [] f = "mode" -> DefaultMode [] OTHER -> 0]

\* changes.get(field, current[field]), for each field of the Schedule.
Merged(fields, changes) ==
  [f \in DOMAIN fields |-> IF f \in DOMAIN changes THEN changes[f] ELSE fields[f]]

Store(slot, s) == table' = [table EXCEPT ![slot] = ToWire(s)]

\* The edit is verified, and async_set_updated_data shows what was read last.
Save(slot, changes) ==
  LET s == Merged(Fields(Current(slot)), changes)
  IN /\ Available
     /\ Accepts(table, slot, s)
     /\ Store(slot, s)
     /\ shown' = table' /\ success' = TRUE

\* It was written, or not, and could not be verified: the caller is told so,
\* and the entities go on showing what they did.  Bound: once before the next
\* successful poll or edit.
Unverified(slot, changes) ==
  LET s == Merged(Fields(Current(slot)), changes)
  IN /\ Available /\ shown = table
     /\ Accepts(table, slot, s)
     /\ Store(slot, s)
     /\ UNCHANGED <<shown, success>>

-----------------------------------------------------------------------------
(* Polls                                                                   *)

Poll ==
  /\ \/ shown' = table /\ success' = TRUE
     \/ shown' = Unknown /\ success' = TRUE
     \/ UNCHANGED shown /\ success' = FALSE
  /\ UNCHANGED table

EntityNext ==
  \/ \E slot \in Slots, changes \in Changes :
       Save(slot, changes) \/ Unverified(slot, changes)
  \/ Poll

EntitySpec == EntityInit /\ [][EntityNext]_entities

-----------------------------------------------------------------------------
(* Properties                                                              *)

\* A control changes the fields it is for, of its own slot, and no other: what
\* the entities show of the rest of the table, were it read, is the same before
\* and after, however old the display was.
OnlyAsked ==
  [][\A slot \in Slots, changes \in Changes :
       Save(slot, changes) \/ Unverified(slot, changes) =>
         /\ Display(table'[slot]) = Merged(Display(table[slot]), changes)
         /\ \A other \in Slots \ {slot} : table'[other] = table[other]]_table

\* The table after a control was used, if its edit is accepted.
After(overrides, slot, changes) ==
  [overrides EXCEPT ![slot] = ToWire(Merged(Fields(@), changes))]

Accepted(overrides, slot, changes) ==
  Accepts(overrides, slot, Merged(Fields(overrides[slot]), changes))

\* The way README.md of the integration names: disable the slot, edit it field
\* by field, and enable it again.
Steps(s) ==
  <<[active |-> FALSE], [mode |-> s.mode], [start |-> s.start],
    [stop |-> s.stop], [active |-> s.active]>>

\* home-assistant/README.md "disable a slot first if editing one field would
\* create an invalid intermediate window": from any slot whose fields can be
\* shown, its window overnight or its active byte not 0 or 1 as they may be, the
\* five edits are accepted and lead to each schedule that set_schedule would
\* save at once.
FieldByField ==
  \A slot \in Slots, s \in Asked :
    LET steps == Steps(s)
        at[n \in 0..5] ==
          IF n = 0 THEN table ELSE After(at[n - 1], slot, steps[n])
    IN /\ \A f \in {"mode", "start", "stop"} : Display(table[slot])[f] # Unknown
       /\ Accepted(table, slot, s)
       /\ table[slot] # ToWire(s)
       => /\ \A n \in 1..5 : Accepted(at[n - 1], slot, steps[n])
          /\ at[5] = After(table, slot, s)
=============================================================================

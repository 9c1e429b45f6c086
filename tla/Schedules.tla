------------------------------ MODULE Schedules ------------------------------
(***************************************************************************)
(* The schedule table of a CATCH Control 2CH and the planner that decides  *)
(* which single-slot edits may be saved.  The same planning rule is        *)
(* written twice in the library: plan_schedule (configuration.py, for      *)
(* Bluetooth) and plan_websocket_schedule (wifi.py).                       *)
(*                                                                         *)
(* The device keeps one wire record per slot.  Wire records may hold any   *)
(* value their widths allow; the schedules a caller can construct are      *)
(* validated first (class Schedule).  Only data that the planner or the    *)
(* controller tells apart is kept.                                         *)
(***************************************************************************)
EXTENDS Integers

CONSTANTS
  Slots,        \* the schedule slots of the device (1..4 in the code)
  LastMinute,   \* the last minute of the day (1439 in the code)
  Modes,        \* the control modes the client knows
  DefaultMode,  \* ControlMode.DEFAULT, allowed only in an inactive schedule
  ActiveBytes,  \* values of the active byte found on the device
  WireModes,    \* values of the mode field found on the device
  WireMinutes   \* values of a minutes field found on the device

ASSUME SchedulesAssumption ==
  /\ LastMinute \in Nat
  /\ DefaultMode \in Modes
  /\ Modes \subseteq WireModes
  /\ {0, 1} \subseteq ActiveBytes /\ ActiveBytes \subseteq Nat
  /\ 0..LastMinute \subseteq WireMinutes /\ WireMinutes \subseteq Nat

Minutes == 0..LastMinute

\* SCHEDULE_OVERRIDE: one slot as it is stored and transmitted.
Record == [active: ActiveBytes, mode: WireModes,
           start: WireMinutes, stop: WireMinutes]

\* The four records, as a configuration reply carries them.
Overrides == [Slots -> Record]

\* class Schedule with the checks of __post_init__: an active schedule needs a
\* mode and a start before its stop.
Schedule ==
  {s \in [active: BOOLEAN, mode: Modes, start: Minutes, stop: Minutes] :
     s.active => s.mode # DefaultMode /\ s.start < s.stop}

\* Mutation of ToWire: seconds instead of minutes.
ToWireSeconds(s) == [active |-> IF s.active THEN 1 ELSE 0, mode |-> s.mode,
                     start |-> 60 * s.start, stop |-> 60 * s.stop]

\* Schedule.to_wire
ToWire(s) == [active |-> IF s.active THEN 1 ELSE 0, mode |-> s.mode,
              start |-> s.start, stop |-> s.stop]

\* Mutation of VerifiedWindow: an overnight window passes.
AnyWindow(r) == r.active = 1 /\ r.stop <= LastMinute

\* The window of another active record is one the planner can reason about.
VerifiedWindow(r) ==
  r.active = 1 /\ r.start < r.stop /\ r.stop <= LastMinute

\* Touching endpoints count as overlap.
Touches(s, r) == s.start <= r.stop /\ r.start <= s.stop

\* Mutation of Refused: an inactive schedule is held against the others too.
RefusedAnyway(overrides, slot, s) ==
  /\ overrides[slot] # ToWire(s)
  /\ \E other \in Slots \ {slot} :
       /\ overrides[other].active # 0
       /\ ~VerifiedWindow(overrides[other]) \/ Touches(s, overrides[other])

\* plan_websocket_schedule raises ValueError: an active schedule that changes
\* its slot meets another active slot it overlaps or cannot judge.
Refused(overrides, slot, s) ==
  /\ s.active
  /\ overrides[slot] # ToWire(s)
  /\ \E other \in Slots \ {slot} :
       /\ overrides[other].active # 0
       /\ \/ ~VerifiedWindow(overrides[other])
          \/ Touches(s, overrides[other])

\* The frozen plan: slot, the snapshot of every record, and the new record.
Plan == [slot: Slots, before: Overrides, after: Record]

MakePlan(overrides, slot, s) ==
  [slot |-> slot, before |-> overrides, after |-> ToWire(s)]

\* WifiSchedulePlan.changed / SchedulePlan.changed
Changed(p) == p.before[p.slot] # p.after

\* What the whole table must read after the save.
Target(p) == [p.before EXCEPT ![p.slot] = p.after]

-----------------------------------------------------------------------------
(* The controller (RESEARCH.md:44-53): an active record matches from its    *)
(* start minute, inclusive, to its stop minute, exclusive; a start later    *)
(* than the stop is an overnight window.                                    *)

Matches(r, m) ==
  /\ r.active # 0
  /\ IF r.start <= r.stop THEN r.start <= m /\ m < r.stop
                          ELSE r.start <= m \/ m < r.stop

\* Two slots that both claim some minute: the controller would choose by the
\* numeric start value and not by the user's intention.
Clash(overrides, i, j) ==
  \E m \in Minutes : Matches(overrides[i], m) /\ Matches(overrides[j], m)

Unambiguous(overrides) ==
  \A i, j \in Slots : i # j => ~Clash(overrides, i, j)
=============================================================================

---------------------------- MODULE EntitiesProofs ----------------------------
(***************************************************************************)
(* Proofs about the planner, about ScheduleStore and about Entities, for   *)
(* any number of slots, any length of the day and any contents of the      *)
(* device's table.  However stale what they show may be, the controls add  *)
(* no clash, each changes what it is for and no more, and five of them do  *)
(* what one set_schedule does.                                             *)
(***************************************************************************)
EXTENDS Entities, TLAPS

-----------------------------------------------------------------------------
(* The planner and the store                                               *)

\* Schedule.to_wire yields a record the wire schema can hold.
LEMMA ToWireType ==
  ASSUME NEW s \in Schedule
  PROVE  ToWire(s) \in Record
BY SchedulesAssumption DEF Schedule, ToWire, Record, Minutes

\* A schedule that meets another active slot without touching it, in a window
\* the planner can judge, claims no minute of that slot.
LEMMA ApartFromVerified ==
  ASSUME NEW s \in Schedule, s.active,
         NEW r \in Record,
         r.active # 0 => VerifiedWindow(r) /\ ~Touches(s, r),
         NEW m \in Minutes,
         Matches(ToWire(s), m)
  PROVE  ~Matches(r, m)
<1>1. s.start < s.stop /\ s.start \in Int /\ s.stop \in Int
  BY SchedulesAssumption DEF Schedule, Minutes
<1>2. m \in Int /\ s.start <= m /\ m < s.stop
  BY <1>1, SchedulesAssumption DEF Matches, ToWire, Minutes
<1>3. r.start \in Int /\ r.stop \in Int
  <2>1. r.start \in WireMinutes /\ r.stop \in WireMinutes
    BY DEF Record
  <2>2. \A x \in WireMinutes : x \in Int
    BY SchedulesAssumption
  <2> QED
    BY <2>1, <2>2, Zenon
<1>4. CASE r.active = 0
  BY <1>4 DEF Matches
<1>5. CASE r.active # 0
  <2>1. r.start < r.stop /\ (s.start > r.stop \/ r.start > s.stop)
    BY <1>1, <1>3, <1>5 DEF VerifiedWindow, Touches
  <2> QED
    BY <1>1, <1>2, <1>3, <2>1 DEF Matches
<1> QED
  BY <1>4, <1>5

\* The edited slot claims no minute of another slot that it did not claim.
LEMMA EditedSlot ==
  ASSUME NEW o \in Overrides, NEW slot \in Slots, NEW s \in Schedule,
         ~Refused(o, slot, s),
         NEW j \in Slots, j # slot,
         NEW m \in Minutes,
         Matches(ToWire(s), m), Matches(o[j], m)
  PROVE  o[slot] = ToWire(s)
<1>1. s.active
  BY DEF Matches, ToWire, Schedule
<1>2. SUFFICES ASSUME o[slot] # ToWire(s)
               PROVE  FALSE
  OBVIOUS
<1>3. o[j] \in Record
  BY DEF Overrides
<1>4. o[j].active # 0 => VerifiedWindow(o[j]) /\ ~Touches(s, o[j])
  BY <1>1, <1>2 DEF Refused
<1> QED
  BY <1>1, <1>3, <1>4, ApartFromVerified

\* An accepted edit lets no two slots claim a minute they did not both claim.
LEMMA AcceptedAddsNoClash ==
  ASSUME NEW o \in Overrides, NEW slot \in Slots, NEW s \in Schedule,
         ~Refused(o, slot, s),
         NEW i \in Slots, NEW j \in Slots, i # j,
         Clash([o EXCEPT ![slot] = ToWire(s)], i, j)
  PROVE  Clash(o, i, j)
<1> DEFINE n == [o EXCEPT ![slot] = ToWire(s)]
<1>1. PICK m \in Minutes : Matches(n[i], m) /\ Matches(n[j], m)
  BY DEF Clash
<1>2. \A k \in Slots : n[k] = IF k = slot THEN ToWire(s) ELSE o[k]
  BY DEF Overrides
<1>3. CASE i = slot
  <2>1. Matches(ToWire(s), m) /\ Matches(o[j], m)
    BY <1>1, <1>2, <1>3
  <2>2. o[slot] = ToWire(s)
    BY <1>3, <2>1, EditedSlot
  <2> QED
    BY <1>3, <2>1, <2>2 DEF Clash
<1>4. CASE j = slot
  <2>1. Matches(ToWire(s), m) /\ Matches(o[i], m)
    BY <1>1, <1>2, <1>4
  <2>2. o[slot] = ToWire(s)
    BY <1>4, <2>1, EditedSlot
  <2> QED
    BY <1>4, <2>1, <2>2 DEF Clash
<1>5. CASE i # slot /\ j # slot
  BY <1>1, <1>2, <1>5 DEF Clash
<1> QED
  BY <1>3, <1>4, <1>5

-----------------------------------------------------------------------------
\* The table always holds records of the wire schema.
THEOREM StoreTypeCorrect == Spec => []TypeOK
<1>1. Init => TypeOK
  BY StoreAssumption DEF Init, TypeOK
<1>2. TypeOK /\ [Next]_table => TypeOK'
  BY StoreAssumption, ToWireType DEF TypeOK, Next, Edit, Overrides
<1> QED
  BY <1>1, <1>2, PTL DEF Spec

\* README.md:47-48: no accepted edit makes a new pair of slots ambiguous.
THEOREM EditsAddNoClash == Spec => NoNewClash
<1>1. TypeOK /\ [Next]_table =>
        [\A i, j \in Slots :
           i # j /\ Clash(table', i, j) => Clash(table, i, j)]_table
  <2> SUFFICES ASSUME TypeOK, Next, NEW i \in Slots, NEW j \in Slots,
                      i # j, Clash(table', i, j)
               PROVE  Clash(table, i, j)
    OBVIOUS
  <2>1. PICK slot \in Slots, s \in Wanted : Edit(slot, s)
    BY DEF Next
  <2> QED
    BY <2>1, StoreAssumption, AcceptedAddsNoClash DEF Edit, TypeOK
<1> QED
  BY <1>1, StoreTypeCorrect, PTL DEF Spec, NoNewClash

\* A device that starts without ambiguity never becomes ambiguous.
THEOREM StoreStaysUnambiguous ==
  ASSUME \A o \in Initial : Unambiguous(o)
  PROVE  Spec => []StaysUnambiguous
<1>1. Init => StaysUnambiguous
  BY DEF Init, StaysUnambiguous
<1>2. TypeOK /\ StaysUnambiguous /\ [Next]_table => StaysUnambiguous'
  <2> SUFFICES ASSUME TypeOK, StaysUnambiguous, Next,
                      NEW i \in Slots, NEW j \in Slots, i # j,
                      Clash(table', i, j)
               PROVE  FALSE
    BY DEF StaysUnambiguous, Unambiguous
  <2>1. PICK slot \in Slots, s \in Wanted : Edit(slot, s)
    BY DEF Next
  <2>2. Clash(table, i, j)
    BY <2>1, StoreAssumption, AcceptedAddsNoClash DEF Edit, TypeOK
  <2> QED
    BY <2>2 DEF StaysUnambiguous, Unambiguous
<1> QED
  BY <1>1, <1>2, StoreTypeCorrect, PTL DEF Spec

-----------------------------------------------------------------------------
(* The controls                                                            *)

\* Whatever schedules the controls ask for, the table holds records of the wire
\* schema.
THEOREM EntityTypes == EntitySpec => []TypeOK
<1>1. EntityInit => TypeOK
  BY StoreAssumption DEF EntityInit, Init, TypeOK
<1>2. TypeOK /\ [EntityNext]_entities => TypeOK'
  <2> SUFFICES ASSUME TypeOK, EntityNext PROVE TypeOK'
    BY DEF TypeOK, entities
  <2>1. CASE Poll
    BY <2>1 DEF Poll, TypeOK
  <2>2. ASSUME NEW slot \in Slots, NEW changes \in Changes,
               Save(slot, changes) \/ Unverified(slot, changes)
        PROVE  TypeOK'
    <3> DEFINE s == Merged(Fields(Current(slot)), changes)
    <3>1. s \in Schedule /\ table' = [table EXCEPT ![slot] = ToWire(s)]
      BY <2>2 DEF Save, Unverified, Accepts, Store
    <3> HIDE DEF s
    <3>2. ToWire(s) \in Record
      BY <3>1, ToWireType
    <3> QED BY <3>1, <3>2 DEF TypeOK, Overrides
  <2> QED BY <2>1, <2>2 DEF EntityNext
<1> QED BY <1>1, <1>2, PTL DEF EntitySpec

\* No sequence of controls adds a minute that two slots claim.
THEOREM ControlsAddNoClash == EntitySpec => NoNewClash
<1>1. TypeOK /\ [EntityNext]_entities =>
        [\A i, j \in Slots :
           i # j /\ Clash(table', i, j) => Clash(table, i, j)]_table
  <2> SUFFICES ASSUME TypeOK, EntityNext, table' # table, NEW i \in Slots, NEW j \in Slots,
                      i # j, Clash(table', i, j)
               PROVE  Clash(table, i, j)
    BY DEF entities
  <2>1. PICK slot \in Slots, changes \in Changes : Save(slot, changes) \/ Unverified(slot, changes)
    BY DEF EntityNext, Poll
  <2> DEFINE s == Merged(Fields(Current(slot)), changes)
  <2>2. s \in Schedule /\ ~Refused(table, slot, s) /\ table' = [table EXCEPT ![slot] = ToWire(s)]
    BY <2>1 DEF Save, Unverified, Accepts, Store
  <2> HIDE DEF s
  <2> QED BY <2>2, AcceptedAddsNoClash DEF TypeOK
<1> QED BY <1>1, EntityTypes, PTL DEF EntitySpec, NoNewClash

-----------------------------------------------------------------------------
\* What a schedule shows once it is stored is what was asked for.
LEMMA StoredIsShown ==
  ASSUME NEW s \in Schedule
  PROVE  Display(ToWire(s)) = s
<1>1. /\ s = [active |-> s.active, mode |-> s.mode, start |-> s.start, stop |-> s.stop]
      /\ s.active \in BOOLEAN /\ s.mode \in Modes
      /\ s.start \in Minutes /\ s.stop \in Minutes
  BY DEF Schedule
<1>2. (ToWire(s).active # 0) = s.active
  BY <1>1 DEF ToWire
<1> QED BY <1>1, <1>2 DEF Display, Fields, ToWire, ShownMode, ShownMinutes

\* A field that is not changed and passes validation was shown as it is.
LEMMA ChangedIsShown ==
  ASSUME NEW r \in Record, NEW changes, Merged(Fields(r), changes) \in Schedule
  PROVE  Merged(Display(r), changes) = Merged(Fields(r), changes)
<1> DEFINE s == Merged(Fields(r), changes)
<1>1. /\ DOMAIN Fields(r) = {"active", "mode", "start", "stop"}
      /\ DOMAIN Display(r) = {"active", "mode", "start", "stop"}
  BY DEF Fields, Display
<1>2. s.mode \in Modes /\ s.start \in Minutes /\ s.stop \in Minutes
  BY DEF Schedule
<1>3. \A f \in {"active", "mode", "start", "stop"} \ DOMAIN changes : s[f] = Fields(r)[f]
  BY <1>1 DEF Merged
<1>4. \A f \in {"active", "mode", "start", "stop"} \ DOMAIN changes :
        Display(r)[f] = Fields(r)[f]
  <2>1. /\ Fields(r).active = (r.active # 0) /\ Fields(r).mode = r.mode
        /\ Fields(r).start = r.start /\ Fields(r).stop = r.stop
    BY DEF Fields
  <2>2. /\ Display(r).active = Fields(r).active
        /\ r.mode \in Modes => Display(r).mode = Fields(r).mode
        /\ r.start \in Minutes => Display(r).start = Fields(r).start
        /\ r.stop \in Minutes => Display(r).stop = Fields(r).stop
    BY DEF Display, Fields, ShownMode, ShownMinutes
  <2>3. /\ "mode" \notin DOMAIN changes => r.mode \in Modes
        /\ "start" \notin DOMAIN changes => r.start \in Minutes
        /\ "stop" \notin DOMAIN changes => r.stop \in Minutes
    BY <1>2, <1>3, <2>1
  <2> QED BY <2>2, <2>3
<1> QED BY <1>1, <1>4 DEF Merged

\* A control changes what it is for in its own slot, however old what it shows.
THEOREM ControlsChangeOnlyAsked == EntitySpec => OnlyAsked
<1>1. TypeOK /\ [EntityNext]_entities =>
        [\A slot \in Slots, changes \in Changes :
           Save(slot, changes) \/ Unverified(slot, changes) =>
             /\ Display(table'[slot]) = Merged(Display(table[slot]), changes)
             /\ \A other \in Slots \ {slot} : table'[other] = table[other]]_table
  <2> SUFFICES ASSUME TypeOK, NEW slot \in Slots, NEW changes \in Changes,
                      Save(slot, changes) \/ Unverified(slot, changes)
               PROVE  /\ Display(table'[slot]) = Merged(Display(table[slot]), changes)
                      /\ \A other \in Slots \ {slot} : table'[other] = table[other]
    OBVIOUS
  <2> DEFINE s == Merged(Fields(table[slot]), changes)
  <2>1. s \in Schedule /\ table' = [table EXCEPT ![slot] = ToWire(s)]
    BY DEF Save, Unverified, Accepts, Store, Current
  <2>2. table[slot] \in Record /\ table'[slot] = ToWire(s)
    BY <2>1 DEF TypeOK, Overrides
  <2>3. Display(table'[slot]) = Merged(Display(table[slot]), changes)
    BY <2>1, <2>2, StoredIsShown, ChangedIsShown
  <2>4. \A other \in Slots \ {slot} : table'[other] = table[other]
    BY <2>1 DEF TypeOK, Overrides
  <2> QED BY <2>3, <2>4
<1> QED BY <1>1, EntityTypes, PTL DEF EntitySpec, OnlyAsked

-----------------------------------------------------------------------------
(* Editing field by field                                                  *)

Form == [active: BOOLEAN, mode: Modes, start: Minutes, stop: Minutes]

\* A form that was stored, valid or not, is read back as it was.
LEMMA FormIsRead == ASSUME NEW m \in Form PROVE Fields(ToWire(m)) = m
<1>1. /\ m = [active |-> m.active, mode |-> m.mode, start |-> m.start, stop |-> m.stop]
      /\ m.active \in BOOLEAN
  BY DEF Form
<1>2. (ToWire(m).active # 0) = m.active
  BY <1>1 DEF ToWire
<1> QED BY <1>1, <1>2 DEF Fields, ToWire

LEMMA FormRecord == ASSUME NEW m \in Form PROVE ToWire(m) \in Record
BY SchedulesAssumption DEF Form, ToWire, Record, Minutes

\* What each of the five edits makes of a form.
LEMMA FormMerged ==
  ASSUME NEW m \in Form, NEW s \in Form
  PROVE  /\ \A b \in BOOLEAN : Merged(m, [active |-> b]) = [m EXCEPT !.active = b]
         /\ Merged(m, [mode |-> s.mode]) = [m EXCEPT !.mode = s.mode]
         /\ Merged(m, [start |-> s.start]) = [m EXCEPT !.start = s.start]
         /\ Merged(m, [stop |-> s.stop]) = [m EXCEPT !.stop = s.stop]
         /\ Merged(m, s) = s
<1> DEFINE names == {"active", "mode", "start", "stop"}
<1>1. \A r \in Form : DOMAIN r = names
  BY DEF Form
<1>2. ASSUME NEW r \in Form, NEW changes,
             \A f \in names : r[f] = IF f \in DOMAIN changes THEN changes[f] ELSE m[f]
      PROVE  Merged(m, changes) = r
  <2>1. r = [f \in names |-> r[f]]
    BY <1>2 DEF Form
  <2>2. Merged(m, changes) = [f \in names |-> IF f \in DOMAIN changes THEN changes[f] ELSE m[f]]
    BY <1>1 DEF Merged
  <2> QED BY <1>2, <2>1, <2>2
<1>3. /\ \A b \in BOOLEAN : [m EXCEPT !.active = b] \in Form
      /\ [m EXCEPT !.mode = s.mode] \in Form
      /\ [m EXCEPT !.start = s.start] \in Form /\ [m EXCEPT !.stop = s.stop] \in Form
  BY DEF Form
<1>4. ASSUME NEW b \in BOOLEAN PROVE Merged(m, [active |-> b]) = [m EXCEPT !.active = b]
  BY <1>1, <1>2, <1>3
<1>5. Merged(m, [mode |-> s.mode]) = [m EXCEPT !.mode = s.mode]
  BY <1>1, <1>2, <1>3
<1>6. Merged(m, [start |-> s.start]) = [m EXCEPT !.start = s.start]
  BY <1>1, <1>2, <1>3
<1>7. Merged(m, [stop |-> s.stop]) = [m EXCEPT !.stop = s.stop]
  BY <1>1, <1>2, <1>3
<1>8. Merged(m, s) = s
  BY <1>1, <1>2
<1> QED BY <1>4, <1>5, <1>6, <1>7, <1>8

\* An edit of a slot that reads as a form: what it then holds is what was merged.
LEMMA FormEdited ==
  ASSUME NEW o \in Overrides, NEW slot \in Slots, NEW m \in Form, NEW changes,
         Merged(Fields(o[slot]), changes) = m
  PROVE  /\ After(o, slot, changes) = [o EXCEPT ![slot] = ToWire(m)]
         /\ After(o, slot, changes) \in Overrides
         /\ Fields(After(o, slot, changes)[slot]) = m
         /\ \A other \in Slots \ {slot} : After(o, slot, changes)[other] = o[other]
         /\ m \in Schedule /\ ~Refused(o, slot, m) => Accepted(o, slot, changes)
<1>1. After(o, slot, changes) = [o EXCEPT ![slot] = ToWire(m)]
  BY DEF After, Overrides
<1>2. [o EXCEPT ![slot] = ToWire(m)] \in Overrides
  BY FormRecord DEF Overrides
<1>3. /\ [o EXCEPT ![slot] = ToWire(m)][slot] = ToWire(m)
      /\ \A other \in Slots \ {slot} : [o EXCEPT ![slot] = ToWire(m)][other] = o[other]
  BY DEF Overrides
<1> QED BY <1>1, <1>2, <1>3, FormIsRead DEF Accepted, Accepts

\* While the slot is inactive, any form of it is valid and meets no other slot.
LEMMA InactiveAccepted ==
  ASSUME NEW o \in Overrides, NEW slot \in Slots, NEW m \in Form, ~m.active
  PROVE  m \in Schedule /\ ~Refused(o, slot, m)
BY DEF Form, Schedule, Refused

\* A slot whose fields can be shown reads as a form.
LEMMA ShownIsForm ==
  ASSUME NEW r \in Record,
         \A f \in {"mode", "start", "stop"} : Display(r)[f] # Unknown
  PROVE  Fields(r) \in Form
<1>1. ShownMode(r.mode) # Unknown /\ ShownMinutes(r.start) # Unknown
      /\ ShownMinutes(r.stop) # Unknown
  BY DEF Display
<1>2. r.mode \in Modes /\ r.start \in Minutes /\ r.stop \in Minutes
  BY <1>1 DEF ShownMode, ShownMinutes
<1> QED BY <1>2 DEF Fields, Form

LEMMA EditedTwice ==
  ASSUME NEW o \in Overrides, NEW slot \in Slots, NEW first, NEW second
  PROVE  [[o EXCEPT ![slot] = first] EXCEPT ![slot] = second] = [o EXCEPT ![slot] = second]
BY DEF Overrides

\* From a slot that reads as a form, the five edits do what one edit would.
LEMMA FiveEdits ==
  ASSUME NEW o \in Overrides, NEW slot \in Slots, NEW s \in Form,
         Fields(o[slot]) \in Form, Accepted(o, slot, s), o[slot] # ToWire(s),
         NEW o1, o1 = After(o, slot, [active |-> FALSE]),
         NEW o2, o2 = After(o1, slot, [mode |-> s.mode]),
         NEW o3, o3 = After(o2, slot, [start |-> s.start]),
         NEW o4, o4 = After(o3, slot, [stop |-> s.stop]),
         NEW o5, o5 = After(o4, slot, [active |-> s.active])
  PROVE  /\ Accepted(o, slot, [active |-> FALSE])
         /\ Accepted(o1, slot, [mode |-> s.mode])
         /\ Accepted(o2, slot, [start |-> s.start])
         /\ Accepted(o3, slot, [stop |-> s.stop])
         /\ Accepted(o4, slot, [active |-> s.active])
         /\ o5 = After(o, slot, s)
<1> DEFINE m0 == Fields(o[slot])
           m1 == [m0 EXCEPT !.active = FALSE]
           m2 == [m1 EXCEPT !.mode = s.mode]
           m3 == [m2 EXCEPT !.start = s.start]
           m4 == [m3 EXCEPT !.stop = s.stop]
           m5 == [m4 EXCEPT !.active = s.active]
<1>1. m0 \in Form
  OBVIOUS
<1> HIDE DEF m0
<1>2. /\ m1 \in Form /\ m2 \in Form /\ m3 \in Form /\ m4 \in Form
      /\ ~m1.active /\ ~m2.active /\ ~m3.active /\ ~m4.active
      /\ m5 = s
  BY <1>1 DEF Form
<1>3. /\ Merged(m0, [active |-> FALSE]) = m1
      /\ Merged(m1, [mode |-> s.mode]) = m2
      /\ Merged(m2, [start |-> s.start]) = m3
      /\ Merged(m3, [stop |-> s.stop]) = m4
      /\ Merged(m4, [active |-> s.active]) = s
      /\ Merged(m0, s) = s
  <2> HIDE DEF m1, m2, m3, m4, m5
  <2>1. s.active \in BOOLEAN /\ FALSE \in BOOLEAN
    BY DEF Form
  <2>2. Merged(m0, [active |-> FALSE]) = m1 /\ Merged(m0, s) = s
    BY <1>1, <2>1, FormMerged DEF m1
  <2>3. Merged(m1, [mode |-> s.mode]) = m2
    BY <1>2, FormMerged DEF m2
  <2>4. Merged(m2, [start |-> s.start]) = m3
    BY <1>2, FormMerged DEF m3
  <2>5. Merged(m3, [stop |-> s.stop]) = m4
    BY <1>2, FormMerged DEF m4
  <2>6. Merged(m4, [active |-> s.active]) = m5
    BY <1>2, <2>1, FormMerged DEF m5
  <2> QED BY <1>2, <2>2, <2>3, <2>4, <2>5, <2>6
<1> HIDE DEF m1, m2, m3, m4, m5
<1>4. /\ o1 \in Overrides /\ Fields(o1[slot]) = m1
      /\ \A other \in Slots \ {slot} : o1[other] = o[other]
      /\ o1 = [o EXCEPT ![slot] = ToWire(m1)]
      /\ Accepted(o, slot, [active |-> FALSE])
  <2>1. Merged(Fields(o[slot]), [active |-> FALSE]) = m1
    BY <1>3 DEF m0
  <2>2. m1 \in Schedule /\ ~Refused(o, slot, m1)
    BY <1>2, InactiveAccepted
  <2> QED BY <1>2, <2>1, <2>2, FormEdited
<1>5. /\ o2 \in Overrides /\ Fields(o2[slot]) = m2
      /\ \A other \in Slots \ {slot} : o2[other] = o[other]
      /\ o2 = [o EXCEPT ![slot] = ToWire(m2)]
      /\ Accepted(o1, slot, [mode |-> s.mode])
  <2>1. Merged(Fields(o1[slot]), [mode |-> s.mode]) = m2
    BY <1>3, <1>4
  <2>2. m2 \in Schedule /\ ~Refused(o1, slot, m2)
    BY <1>2, <1>4, InactiveAccepted
  <2>3. /\ o2 \in Overrides /\ Fields(o2[slot]) = m2
        /\ o2 = [o1 EXCEPT ![slot] = ToWire(m2)]
        /\ \A other \in Slots \ {slot} : o2[other] = o1[other]
        /\ Accepted(o1, slot, [mode |-> s.mode])
    BY <1>2, <1>4, <2>1, <2>2, FormEdited
  <2> QED BY <1>4, <2>3, EditedTwice
<1>6. /\ o3 \in Overrides /\ Fields(o3[slot]) = m3
      /\ \A other \in Slots \ {slot} : o3[other] = o[other]
      /\ o3 = [o EXCEPT ![slot] = ToWire(m3)]
      /\ Accepted(o2, slot, [start |-> s.start])
  <2>1. Merged(Fields(o2[slot]), [start |-> s.start]) = m3
    BY <1>3, <1>5
  <2>2. m3 \in Schedule /\ ~Refused(o2, slot, m3)
    BY <1>2, <1>5, InactiveAccepted
  <2>3. /\ o3 \in Overrides /\ Fields(o3[slot]) = m3
        /\ o3 = [o2 EXCEPT ![slot] = ToWire(m3)]
        /\ \A other \in Slots \ {slot} : o3[other] = o2[other]
        /\ Accepted(o2, slot, [start |-> s.start])
    BY <1>2, <1>5, <2>1, <2>2, FormEdited
  <2> QED BY <1>5, <2>3, EditedTwice
<1>7. /\ o4 \in Overrides /\ Fields(o4[slot]) = m4
      /\ \A other \in Slots \ {slot} : o4[other] = o[other]
      /\ o4 = [o EXCEPT ![slot] = ToWire(m4)]
      /\ Accepted(o3, slot, [stop |-> s.stop])
  <2>1. Merged(Fields(o3[slot]), [stop |-> s.stop]) = m4
    BY <1>3, <1>6
  <2>2. m4 \in Schedule /\ ~Refused(o3, slot, m4)
    BY <1>2, <1>6, InactiveAccepted
  <2>3. /\ o4 \in Overrides /\ Fields(o4[slot]) = m4
        /\ o4 = [o3 EXCEPT ![slot] = ToWire(m4)]
        /\ \A other \in Slots \ {slot} : o4[other] = o3[other]
        /\ Accepted(o3, slot, [stop |-> s.stop])
    BY <1>2, <1>6, <2>1, <2>2, FormEdited
  <2> QED BY <1>6, <2>3, EditedTwice
\* The last edit is judged against the same other slots as the whole schedule.
<1>8. s \in Schedule /\ ~Refused(o, slot, s)
  BY <1>3 DEF Accepted, Accepts, m0
<1>9. ~Refused(o4, slot, s)
  BY <1>7, <1>8 DEF Refused
<1>10. /\ Accepted(o4, slot, [active |-> s.active])
       /\ o5 = [o4 EXCEPT ![slot] = ToWire(s)]
  <2>1. Merged(Fields(o4[slot]), [active |-> s.active]) = s
    BY <1>3, <1>7
  <2> QED BY <1>7, <1>8, <1>9, <2>1, FormEdited
<1>11. After(o, slot, s) = [o EXCEPT ![slot] = ToWire(s)]
  <2>1. Merged(Fields(o[slot]), s) = s
    BY <1>3 DEF m0
  <2> QED BY <2>1, FormEdited
<1>12. o5 = After(o, slot, s)
  BY <1>7, <1>10, <1>11, EditedTwice
<1> QED BY <1>4, <1>5, <1>6, <1>7, <1>10, <1>12

LEMMA FieldByFieldHolds == TypeOK => FieldByField
<1> SUFFICES ASSUME TypeOK, NEW slot \in Slots, NEW s \in Asked
    PROVE LET steps == Steps(s)
              at[n \in 0..5] ==
                IF n = 0 THEN table ELSE After(at[n - 1], slot, steps[n])
          IN /\ \A f \in {"mode", "start", "stop"} : Display(table[slot])[f] # Unknown
             /\ Accepted(table, slot, s)
             /\ table[slot] # ToWire(s)
             => /\ \A n \in 1..5 : Accepted(at[n - 1], slot, steps[n])
                /\ at[5] = After(table, slot, s)
  BY DEF FieldByField
<1> DEFINE steps == Steps(s)
           at[n \in 0..5] == IF n = 0 THEN table ELSE After(at[n - 1], slot, steps[n])
           o1 == After(table, slot, [active |-> FALSE])
           o2 == After(o1, slot, [mode |-> s.mode])
           o3 == After(o2, slot, [start |-> s.start])
           o4 == After(o3, slot, [stop |-> s.stop])
           o5 == After(o4, slot, [active |-> s.active])
           f == [n \in 0..5 |-> IF n = 0 THEN table ELSE IF n = 1 THEN o1
                   ELSE IF n = 2 THEN o2 ELSE IF n = 3 THEN o3
                   ELSE IF n = 4 THEN o4 ELSE o5]
<1>1. /\ steps[1] = [active |-> FALSE] /\ steps[2] = [mode |-> s.mode]
      /\ steps[3] = [start |-> s.start] /\ steps[4] = [stop |-> s.stop]
      /\ steps[5] = [active |-> s.active]
  BY DEF Steps
<1> HIDE DEF steps
<1> HIDE DEF o1, o2, o3, o4, o5
<1>2. \A n \in 0..5 :
        f[n] = IF n = 0 THEN table ELSE After(f[n - 1], slot, steps[n])
  <2>1. /\ f[0] = table /\ f[1] = o1 /\ f[2] = o2 /\ f[3] = o3 /\ f[4] = o4 /\ f[5] = o5
    OBVIOUS
  <2> HIDE DEF f
  <2>2. f[1] = After(f[0], slot, steps[1])
    BY <1>1, <2>1 DEF o1
  <2>3. f[2] = After(f[1], slot, steps[2])
    BY <1>1, <2>1 DEF o2
  <2>4. f[3] = After(f[2], slot, steps[3])
    BY <1>1, <2>1 DEF o3
  <2>5. f[4] = After(f[3], slot, steps[4])
    BY <1>1, <2>1 DEF o4
  <2>6. f[5] = After(f[4], slot, steps[5])
    BY <1>1, <2>1 DEF o5
  <2>7. /\ 1 - 1 = 0 /\ 2 - 1 = 1 /\ 3 - 1 = 2 /\ 4 - 1 = 3 /\ 5 - 1 = 4
        /\ \A n \in 0..5 : n \in {0, 1, 2, 3, 4, 5}
    OBVIOUS
  <2> QED BY <2>1, <2>2, <2>3, <2>4, <2>5, <2>6, <2>7
<1>3. f = [n \in 0..5 |-> IF n = 0 THEN table ELSE After(f[n - 1], slot, steps[n])]
  <2>1. f = [n \in 0..5 |-> f[n]]
    OBVIOUS
  <2> HIDE DEF f
  <2> QED BY <1>2, <2>1
<1>4. at = [n \in 0..5 |-> IF n = 0 THEN table ELSE After(at[n - 1], slot, steps[n])]
  <2> HIDE DEF f
  <2> QED BY <1>3, Zenon
<1> HIDE DEF at, f
<1>5. /\ at[0] = table
      /\ at[1] = After(at[0], slot, steps[1])
      /\ at[2] = After(at[1], slot, steps[2])
      /\ at[3] = After(at[2], slot, steps[3])
      /\ at[4] = After(at[3], slot, steps[4])
      /\ at[5] = After(at[4], slot, steps[5])
  <2>1. /\ 1 - 1 = 0 /\ 2 - 1 = 1 /\ 3 - 1 = 2 /\ 4 - 1 = 3 /\ 5 - 1 = 4
        /\ \A n \in {0, 1, 2, 3, 4, 5} : n \in 0..5
    OBVIOUS
  <2>2. \A n \in 0..5 : at[n] = IF n = 0 THEN table ELSE After(at[n - 1], slot, steps[n])
    BY <1>4
  <2> QED BY <2>1, <2>2
<1>6. ASSUME \A name \in {"mode", "start", "stop"} : Display(table[slot])[name] # Unknown,
             Accepted(table, slot, s), table[slot] # ToWire(s)
      PROVE  /\ \A n \in 1..5 : Accepted(at[n - 1], slot, steps[n])
             /\ at[5] = After(table, slot, s)
  <2>1. table \in Overrides /\ s \in Form /\ table[slot] \in Record
    BY EntitiesAssumption DEF TypeOK, Form, Overrides
  <2>2. Fields(table[slot]) \in Form
    BY <1>6, <2>1, ShownIsForm
  <2>3. /\ at[1] = After(table, slot, [active |-> FALSE])
        /\ at[2] = After(at[1], slot, [mode |-> s.mode])
        /\ at[3] = After(at[2], slot, [start |-> s.start])
        /\ at[4] = After(at[3], slot, [stop |-> s.stop])
        /\ at[5] = After(at[4], slot, [active |-> s.active])
    BY <1>1, <1>5
  <2>4. /\ Accepted(table, slot, [active |-> FALSE])
        /\ Accepted(at[1], slot, [mode |-> s.mode])
        /\ Accepted(at[2], slot, [start |-> s.start])
        /\ Accepted(at[3], slot, [stop |-> s.stop])
        /\ Accepted(at[4], slot, [active |-> s.active])
        /\ at[5] = After(table, slot, s)
    BY <1>6, <2>1, <2>2, <2>3, FiveEdits
  <2>5. ASSUME NEW n \in 1..5 PROVE Accepted(at[n - 1], slot, steps[n])
    <3>1. n \in {1, 2, 3, 4, 5} /\ 1 - 1 = 0 /\ 2 - 1 = 1 /\ 3 - 1 = 2 /\ 4 - 1 = 3 /\ 5 - 1 = 4
      OBVIOUS
    <3> QED BY <1>1, <1>5, <2>4, <3>1
  <2> QED BY <2>4, <2>5
<1> QED BY <1>6 DEF at, steps

\* home-assistant/README.md "disable a slot first if editing one field would
\* create an invalid intermediate window": whatever the table has become, the
\* five edits are accepted and do what set_schedule would do at once.
THEOREM FieldByFieldWorks == EntitySpec => []FieldByField
BY EntityTypes, FieldByFieldHolds, PTL
===============================================================================

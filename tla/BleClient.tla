------------------------------ MODULE BleClient ------------------------------
(***************************************************************************)
(* CatchClient (ble.py) with its FrameBuffer (protocol.py): several        *)
(* asyncio tasks share one Bluetooth connection to the device.  A request  *)
(* holds _lock until its reply has come; replies arrive as notifications,  *)
(* in fragments, and are matched by opcode alone.  apply_schedule holds    *)
(* _configuration_lock over its freshness read, its write of the whole     *)
(* configuration and its readback, but _lock only for each of the three,   *)
(* so that other requests may come between them.                           *)
(*                                                                         *)
(* The device and the Bluetooth stack are external: a read is answered     *)
(* once, a write is stored or not and may be answered too; fragments may   *)
(* be lost; the connection may close, or survive an attempt to close it.   *)
(* Nobody else edits the configuration.                                    *)
(***************************************************************************)
EXTENDS Schedules, Sequences

CONSTANTS
  Tasks,      \* the asyncio tasks that call the client's methods
  None,       \* nobody holds a lock, no plan, no reply
  Error,      \* the exception set on a pending future
  Wanted,     \* the schedules that callers ask for
  Initial,    \* the tables the device may hold at first
  FrameSize,  \* the fragments of one frame (FRAME_SIZE bytes in the code)
  MaxCalls    \* bound: method calls made in one behaviour

VARIABLES
  lock,       \* _lock
  editing,    \* _configuration_lock
  failed,     \* _failed
  connected,  \* _client.is_connected
  buffer,     \* FrameBuffer._data
  expected,   \* _expected: the opcode a pending future waits for, or None
  reply,      \* _pending: what the future of the request in progress holds
  pc,         \* where each task's call is suspended
  stage,      \* which request of its method the call is at
  plan,       \* the SchedulePlan each task has last prepared
  result,     \* how each task's last call ended
  calls,      \* calls made
  sent,       \* requests sent; the last one's identity
  toDevice,   \* the request on its way to the device
  air,        \* fragments on their way back
  device,     \* the schedule table stored in the device
  stored      \* the device has stored the write of the call in progress

vars == <<lock, editing, failed, connected, buffer, expected, reply, pc, stage,
          plan, result, calls, sent, toDevice, air, device, stored>>
locks == <<lock, editing>>
inbox == <<buffer, expected, reply>>
link == <<connected, toDevice, air>>
table == <<device, stored>>

Opcodes == {"live", "config", "set"}

\* A fragment of a frame.  The identity is the model's: no reply carries one.
Pieces == [id: Nat, opcode: Opcodes, part: 1..FrameSize, overrides: Overrides]
Frames == [id: Nat, opcode: Opcodes, overrides: Overrides]
Requests == [id: Nat, opcode: Opcodes, write: Overrides \union {None}]

ASSUME ClientAssumption ==
  /\ None \notin Tasks \union Plan \union Overrides \union Opcodes \union Frames
  /\ Error \notin Frames \union {None}
  /\ Wanted \subseteq Schedule
  /\ Initial \subseteq Overrides
  /\ FrameSize \in Nat \ {0}
  /\ MaxCalls \in Nat

Results == {"none", "read", "planned", "rejected", "conflict", "unchanged", "written",
            "unverified", "protocol", "refused", "failed", "cancelled"}

TypeOK ==
  /\ lock \in Tasks \union {None} /\ editing \in Tasks \union {None}
  /\ failed \in BOOLEAN /\ connected \in BOOLEAN
  /\ buffer \in Seq(Pieces) /\ Len(buffer) < FrameSize
  /\ expected \in Opcodes \union {None}
  /\ reply \in Frames \union {None, Error}
  /\ pc \in [Tasks -> {"idle", "queueing", "waiting", "sending", "receiving",
                       "settling", "failing", "cancelling"}]
  /\ stage \in [Tasks -> {"read", "plan", "check", "write", "readback"}]
  /\ plan \in [Tasks -> Plan \union {None}]
  /\ result \in [Tasks -> Results]
  /\ calls \in 0..MaxCalls /\ sent \in Nat
  /\ toDevice \in Seq(Requests) /\ air \in Seq(Pieces)
  /\ device \in Overrides /\ stored \in BOOLEAN

\* __aenter__ has connected, subscribed and read the identity.
Init ==
  /\ device \in Initial /\ stored = FALSE
  /\ lock = None /\ editing = None
  /\ failed = FALSE /\ connected = TRUE
  /\ buffer = <<>> /\ expected = None /\ reply = None
  /\ pc = [t \in Tasks |-> "idle"]
  /\ stage = [t \in Tasks |-> "read"]
  /\ plan = [t \in Tasks |-> None]
  /\ result = [t \in Tasks |-> "none"]
  /\ calls = 0 /\ sent = 0
  /\ toDevice = <<>> /\ air = <<>>

-----------------------------------------------------------------------------
(* FrameBuffer.feed                                                        *)

\* validate_frame: the fragments of one frame, all of them, in order
Whole(pieces) ==
  \A i \in 1..FrameSize :
    /\ pieces[i].part = i
    /\ pieces[i].id = pieces[1].id /\ pieces[i].opcode = pieces[1].opcode

Cut(bytes, i) == SubSeq(bytes, (i - 1) * FrameSize + 1, i * FrameSize)

Complete(bytes) == 1..Len(bytes) \div FrameSize

Damaged(bytes) == \E i \in Complete(bytes) : ~Whole(Cut(bytes, i))

Decoded(pieces) == [id |-> pieces[1].id, opcode |-> pieces[1].opcode,
                    overrides |-> pieces[1].overrides]

Fed(bytes) == {Decoded(Cut(bytes, i)) : i \in Complete(bytes)}

\* Mutation of Remainder: a frame stays in the buffer.
RemainderKept(bytes) == bytes

\* What stays in the buffer: nothing after a damaged frame.
Remainder(bytes) ==
  IF Damaged(bytes) THEN <<>>
  ELSE SubSeq(bytes, (Len(bytes) \div FrameSize) * FrameSize + 1, Len(bytes))

-----------------------------------------------------------------------------
(* Callbacks of the Bluetooth stack                                        *)

Pending == expected # None /\ reply = None

\* _notification: one value of the characteristic, with one fragment or, when
\* two notifications were coalesced, with two.
Notification ==
  \E n \in {1, 2} :
    LET bytes == buffer \o SubSeq(air, 1, n)
        matching == {f \in Fed(bytes) : f.opcode = expected}
    IN /\ n <= Len(air)
       /\ air' = SubSeq(air, n + 1, Len(air))
       /\ buffer' = Remainder(bytes)
       /\ reply' \in IF ~Pending THEN {reply}
                     ELSE IF Damaged(bytes) THEN {Error}
                     ELSE IF matching = {} THEN {reply} ELSE matching
       /\ UNCHANGED <<locks, failed, connected, expected, pc, stage, plan, result,
                      calls, sent, toDevice, table>>

\* The connection has gone, with what was under way in either direction.
Closed == connected' = FALSE /\ toDevice' = <<>> /\ air' = <<>>

\* _disconnected
Disconnected ==
  /\ connected
  /\ Closed
  /\ reply' = IF Pending THEN Error ELSE reply
  /\ UNCHANGED <<locks, failed, buffer, expected, pc, stage, plan, result, calls,
                 sent, table>>

-----------------------------------------------------------------------------
(* The device (external)                                                   *)

FrameOf(id, opcode, overrides) ==
  [i \in 1..FrameSize |-> [id |-> id, opcode |-> opcode, part |-> i, overrides |-> overrides]]

\* A read is answered with the table as it is.
AnswerRead ==
  /\ toDevice # <<>>
  /\ LET request == Head(toDevice) IN
       /\ request.write = None
       /\ air' = air \o FrameOf(request.id, request.opcode, device)
  /\ toDevice' = Tail(toDevice)
  /\ UNCHANGED <<locks, failed, connected, inbox, pc, stage, plan, result, calls,
                 sent, table>>

\* apply_schedule has come to its write, so that the write is that call's.
Editing == editing # None /\ stage[editing] \in {"write", "readback"}

\* A write is stored or not, and answered or not, whichever of the two; one
\* that is stored late may be that of a call that was cancelled.
StoreWrite ==
  /\ toDevice # <<>>
  /\ LET request == Head(toDevice) IN
       /\ request.write # None
       /\ \/ device' = request.write /\ stored' = (stored \/ Editing)
          \/ UNCHANGED table
       /\ air' \in {air, air \o FrameOf(request.id, "set", device)}
  /\ toDevice' = Tail(toDevice)
  /\ UNCHANGED <<locks, failed, connected, inbox, pc, stage, plan, result, calls, sent>>

\* A notification is lost.
Lose ==
  /\ air # <<>>
  /\ air' = Tail(air)
  /\ UNCHANGED <<locks, failed, connected, inbox, pc, stage, plan, result, calls,
                 sent, toDevice, table>>

-----------------------------------------------------------------------------
(* Locks                                                                   *)

\* A method is called; apply_schedule asks for _configuration_lock first.
Call(t, first) ==
  /\ pc[t] = "idle"
  /\ calls < MaxCalls
  /\ first = "check" => plan[t] # None
  /\ pc' = [pc EXCEPT ![t] = IF first = "check" THEN "queueing" ELSE "waiting"]
  /\ stage' = [stage EXCEPT ![t] = first]
  /\ calls' = calls + 1
  /\ UNCHANGED <<locks, failed, inbox, plan, result, sent, link, table>>

\* async with self._configuration_lock
BeginEdit(t) ==
  /\ pc[t] = "queueing"
  /\ editing = None
  /\ editing' = t
  /\ stored' = FALSE
  /\ pc' = [pc EXCEPT ![t] = "waiting"]
  /\ UNCHANGED <<lock, failed, inbox, stage, plan, result, calls, sent, link, device>>

\* The call ends and gives up the locks it holds.
Finish(t, how) ==
  /\ lock' = IF lock = t THEN None ELSE lock
  /\ editing' = IF editing = t THEN None ELSE editing
  /\ pc' = [pc EXCEPT ![t] = "idle"]
  /\ result' = [result EXCEPT ![t] = how]

\* The caller is cancelled while it waits for a lock.
CancelWait(t) ==
  /\ pc[t] \in {"queueing", "waiting"}
  /\ Finish(t, "cancelled")
  /\ UNCHANGED <<failed, inbox, stage, plan, calls, sent, link, table>>

-----------------------------------------------------------------------------
(* _request and _write_configuration                                       *)

\* Mutation of Usable: a client that failed and stayed connected goes on.
UsableAlways == connected

\* if self._failed or not self._client.is_connected
Usable == ~failed /\ connected

\* Mutation of Reported: only the readback is wrapped.
ReportedReadback(t, how) == IF stage[t] = "readback" THEN "unverified" ELSE how

\* apply_schedule turns any exception from its write on into
\* WriteVerificationError.
Reported(t, how) ==
  IF stage[t] \in {"write", "readback"} THEN "unverified" ELSE how

Refuse(t) ==
  /\ pc[t] = "waiting" /\ lock = None
  /\ ~Usable
  /\ Finish(t, Reported(t, "refused"))
  /\ UNCHANGED <<failed, inbox, stage, plan, calls, sent, link, table>>

Opcode(t) == IF stage[t] = "read" THEN "live" ELSE "config"

\* A read clears the buffer and makes its future; a write does neither.
Begin(t) ==
  /\ pc[t] = "waiting" /\ lock = None
  /\ Usable
  /\ lock' = t
  /\ pc' = [pc EXCEPT ![t] = "sending"]
  /\ IF stage[t] = "write"
       THEN UNCHANGED inbox
       ELSE buffer' = <<>> /\ expected' = Opcode(t) /\ reply' = None
  /\ UNCHANGED <<editing, failed, stage, plan, result, calls, sent, link, table>>

\* The packet a task writes: its whole updated configuration.
Packet(t) == IF stage[t] = "write" THEN Target(plan[t]) ELSE None

\* The last chunk leaves, and with it the request.
Leaves(t) ==
  /\ pc[t] = "sending"
  /\ connected
  /\ sent' = sent + 1
  /\ toDevice' = Append(toDevice,
       [id |-> sent + 1, write |-> Packet(t),
        opcode |-> IF stage[t] = "write" THEN "set" ELSE Opcode(t)])

\* _write_chunks returns.
Send(t) ==
  /\ Leaves(t)
  /\ pc' = [pc EXCEPT ![t] = IF stage[t] = "write" THEN "settling" ELSE "receiving"]
  /\ UNCHANGED <<locks, failed, connected, inbox, stage, plan, result, calls, air, table>>

\* response = await future, and the tenth of a second after it
Receive(t) ==
  /\ pc[t] = "receiving"
  /\ reply \in Frames
  /\ pc' = [pc EXCEPT ![t] = "settling"]
  /\ UNCHANGED <<locks, failed, inbox, stage, plan, result, calls, sent, link, table>>

\* The future is dropped with the request.
Forget == expected' = None /\ reply' = None

\* The client fails, and goes on to disconnect.  What it was writing may have
\* left all the same.
Fail(t, phase) ==
  /\ failed' = TRUE
  /\ Forget
  /\ pc' = [pc EXCEPT ![t] = phase]
  /\ Leaves(t) \/ UNCHANGED <<sent, toDevice>>
  /\ UNCHANGED <<locks, connected, buffer, stage, plan, result, calls, air, table>>

\* A chunk cannot be written, the reply does not come in time, is damaged or
\* is overtaken by a disconnection.
Abort(t) ==
  /\ pc[t] \in {"sending", "receiving"}
  /\ Fail(t, "failing")

\* The caller is cancelled, perhaps while it settles.
Cancel(t) ==
  /\ pc[t] \in {"sending", "receiving", "settling"}
  /\ Fail(t, "cancelling")

\* The disconnection is over, whether or not it succeeded within five seconds.
FailEnds(t) ==
  /\ pc[t] \in {"failing", "cancelling"}
  /\ Closed \/ UNCHANGED link
  /\ Finish(t, IF pc[t] = "cancelling" THEN "cancelled" ELSE Reported(t, "failed"))
  /\ UNCHANGED <<failed, inbox, stage, plan, calls, sent, table>>

-----------------------------------------------------------------------------
(* What each method does with its reply                                    *)

\* The request of task t has its reply; the future is dropped.
Replied(t) ==
  /\ pc[t] = "settling" /\ stage[t] # "write"
  /\ Forget
  /\ UNCHANGED <<failed, buffer, calls, sent, link, table>>

\* It does not decode, or the password or the identity in it is another one.
Malformed(t) ==
  /\ Replied(t)
  /\ Finish(t, Reported(t, "protocol"))
  /\ UNCHANGED <<stage, plan>>

Return(t) ==
  /\ Replied(t)
  /\ stage[t] = "read"
  /\ Finish(t, "read")
  /\ UNCHANGED <<stage, plan>>

RejectPlan(t, slot, s) ==
  /\ Replied(t)
  /\ stage[t] = "plan"
  /\ Refused(reply.overrides, slot, s)
  /\ Finish(t, "rejected")
  /\ UNCHANGED <<stage, plan>>

AcceptPlan(t, slot, s) ==
  /\ Replied(t)
  /\ stage[t] = "plan"
  /\ ~Refused(reply.overrides, slot, s)
  /\ plan' = [plan EXCEPT ![t] = MakePlan(reply.overrides, slot, s)]
  /\ Finish(t, "planned")
  /\ UNCHANGED stage

\* Mutation of StillCurrent: only the edited slot is compared.
SlotStillCurrent(t) == reply.overrides[plan[t].slot] = plan[t].before[plan[t].slot]

\* SchedulePlan._check_before
StillCurrent(t) == reply.overrides = plan[t].before

Conflict(t) ==
  /\ Replied(t)
  /\ stage[t] = "check"
  /\ ~StillCurrent(t)
  /\ Finish(t, "conflict")
  /\ UNCHANGED <<stage, plan>>

Unneeded(t) ==
  /\ Replied(t)
  /\ stage[t] = "check"
  /\ StillCurrent(t)
  /\ ~Changed(plan[t])
  /\ Finish(t, "unchanged")
  /\ UNCHANGED <<stage, plan>>

\* The next request of apply_schedule asks for _lock anew.
Continue(t, next) ==
  /\ lock' = None
  /\ stage' = [stage EXCEPT ![t] = next]
  /\ pc' = [pc EXCEPT ![t] = "waiting"]
  /\ UNCHANGED <<editing, plan, result>>

Proceed(t) ==
  /\ Replied(t)
  /\ stage[t] = "check"
  /\ StillCurrent(t)
  /\ Changed(plan[t])
  /\ Continue(t, "write")

\* Two seconds after the write: an answer to it is not waited for.
Written(t) ==
  /\ pc[t] = "settling" /\ stage[t] = "write"
  /\ Continue(t, "readback")
  /\ UNCHANGED <<failed, inbox, calls, sent, link, table>>

\* Mutation of AsExpected: the readback is not compared.
AsWritten(t) == TRUE

\* SchedulePlan._check_after
AsExpected(t) == reply.overrides = Target(plan[t])

Verified(t) ==
  /\ Replied(t)
  /\ stage[t] = "readback"
  /\ AsExpected(t)
  /\ Finish(t, "written")
  /\ UNCHANGED <<stage, plan>>

Differs(t) ==
  /\ Replied(t)
  /\ stage[t] = "readback"
  /\ ~AsExpected(t)
  /\ Finish(t, "unverified")
  /\ UNCHANGED <<stage, plan>>

-----------------------------------------------------------------------------
Progress(t) ==
  \/ Refuse(t) \/ Abort(t) \/ FailEnds(t) \/ Malformed(t) \/ Return(t) \/ Written(t)
  \/ \E slot \in Slots, s \in Wanted : RejectPlan(t, slot, s) \/ AcceptPlan(t, slot, s)
  \/ Conflict(t) \/ Unneeded(t) \/ Proceed(t) \/ Verified(t) \/ Differs(t)

Next ==
  \/ \E t \in Tasks :
       \/ \E first \in {"read", "plan", "check"} : Call(t, first)
       \/ BeginEdit(t) \/ CancelWait(t) \/ Begin(t) \/ Send(t) \/ Receive(t)
       \/ Cancel(t) \/ Progress(t)
  \/ Notification \/ Disconnected
  \/ AnswerRead \/ StoreWrite \/ Lose

Spec == Init /\ [][Next]_vars

-----------------------------------------------------------------------------
(* Properties                                                              *)

\* library/README.md:107-109: replies lack transaction identifiers, so that a
\* read failure disconnects.  A reply that completes a request answers that
\* request, and no earlier one that was abandoned on the same connection.
OwnFrame == reply \in Frames => reply.id = sent

\* No writes but those of ScheduleStore reach the device: the planner accepted
\* the edit against the table it replaces, although other requests may come
\* between the freshness read and the write, which writes all four slots.
Store == INSTANCE ScheduleStore WITH table <- device
StoreSpec == Store!Spec

\* library/README.md:96 "A verification error means a write may have happened":
\* an edit that the device has stored is never reported as anything but
\* verified or unverified, unless the caller was cancelled.
StoredIsReported ==
  [][\A t \in Tasks :
       stored /\ editing = t /\ editing' # t =>
         result'[t] \in {"written", "unverified", "cancelled"}]_vars

\* An edit reported as verified is what the device holds at that moment.
VerifiedIsOnDevice ==
  [][\A t \in Tasks :
       editing = t /\ editing' # t /\ result'[t] \in {"written", "unchanged"} =>
         device = Target(plan[t])]_vars

\* What an edit reports is what became of it, in both directions, whatever was
\* lost, damaged or stored without an answer.
ReportsTruly == StoredIsReported /\ VerifiedIsOnDevice
=============================================================================

--------------------------- MODULE WebSocketSession ---------------------------
(***************************************************************************)
(* CatchWebSocketSession (wifi.py): several asyncio tasks share one        *)
(* WebSocket connection to the device.  Replies carry no transaction       *)
(* identifier, so a lock lets one request be outstanding at a time, and a  *)
(* request that fails poisons the session so that its late reply is never  *)
(* taken for the answer to another request.  A schedule edit is a plan     *)
(* made from one configuration read and applied, later, by a second read   *)
(* (the freshness check), a one-record write and a readback, all three     *)
(* under one holding of the lock.                                          *)
(*                                                                         *)
(* The device (firmware) and the transport are external: one reply to each *)
(* request, in order; a write may or may not be stored whatever its        *)
(* acknowledgement says; a reply may be malformed; the connection may      *)
(* close at any time and lose what was in flight.                          *)
(***************************************************************************)
EXTENDS Schedules, Sequences

CONSTANTS
  Tasks,      \* the asyncio tasks that call the session's methods
  NoTask,     \* nobody holds the lock
  NoPlan,     \* the task has not planned an edit yet
  Wanted,     \* the schedules that callers ask for
  Initial,    \* the tables the device may hold at first
  External,   \* tables that another editor (Bluetooth, vendor app) may store
  MaxCalls    \* bound: method calls made in one behaviour

ASSUME SessionAssumption ==
  /\ NoTask \notin Tasks
  /\ NoPlan \notin Plan
  /\ Wanted \subseteq Schedule
  /\ Initial \subseteq Overrides
  /\ External \subseteq Overrides
  /\ MaxCalls \in Nat

VARIABLES
  holder,     \* _lock: the task inside "async with self._lock", or NoTask
  failed,     \* _failed
  pc,         \* where each task's call is suspended
  stage,      \* which request of its method the call is at
  plan,       \* the WifiSchedulePlan each task has last prepared
  result,     \* how each task's last call ended
  calls,      \* number of calls made
  sent,       \* number of requests sent; the last one's identity
  open,       \* the connection is up
  toDevice,   \* requests on their way to the device
  toHost,     \* replies on their way back
  device,     \* the schedule table stored on the device
  fresh       \* nobody else changed the table since the device last replied

vars == <<holder, failed, pc, stage, plan, result, calls, sent,
          open, toDevice, toHost, device, fresh>>
session == <<holder, failed, pc, stage, plan, result, calls, sent>>
network == <<open, toDevice, toHost>>

\* The read and plan methods make one request; apply_schedule makes three.
Stages == {"read", "plan", "check", "write", "readback"}
FirstStages == {"read", "plan", "check"}

Results == {"none", "read", "planned", "rejected", "conflict", "unchanged",
            "written", "unverified", "protocol", "refused", "failed",
            "cancelled"}

\* A request reads (edit = NoPlan) or writes the one record of a plan; of the
\* plan only slot and after are on the wire.  The identity is the model's.
Request == [id: Nat, edit: Plan \union {NoPlan}]
Reply == [id: Nat, valid: BOOLEAN, ack: BOOLEAN, overrides: Overrides]

TypeOK ==
  /\ holder \in Tasks \union {NoTask}
  /\ failed \in BOOLEAN
  /\ pc \in [Tasks -> {"idle", "waiting", "sending", "receiving"}]
  /\ stage \in [Tasks -> Stages]
  /\ plan \in [Tasks -> Plan \union {NoPlan}]
  /\ result \in [Tasks -> Results]
  /\ calls \in 0..MaxCalls
  /\ sent \in Nat
  /\ open \in BOOLEAN
  /\ toDevice \in Seq(Request)
  /\ toHost \in Seq(Reply)
  /\ device \in Overrides
  /\ fresh \in BOOLEAN

Init ==
  /\ holder = NoTask
  /\ failed = FALSE
  /\ pc = [t \in Tasks |-> "idle"]
  /\ stage = [t \in Tasks |-> "read"]
  /\ plan = [t \in Tasks |-> NoPlan]
  /\ result = [t \in Tasks |-> "none"]
  /\ calls = 0
  /\ sent = 0
  /\ open = TRUE
  /\ toDevice = <<>>
  /\ toHost = <<>>
  /\ device \in Initial
  /\ fresh = TRUE

-----------------------------------------------------------------------------
(* The lock                                                                *)

\* telemetry, configuration, plan_schedule or apply_schedule is called and
\* queues for the lock.
Call(t, first) ==
  /\ pc[t] = "idle"
  /\ calls < MaxCalls
  /\ first = "check" => plan[t] # NoPlan
  /\ pc' = [pc EXCEPT ![t] = "waiting"]
  /\ stage' = [stage EXCEPT ![t] = first]
  /\ calls' = calls + 1
  /\ UNCHANGED <<holder, failed, plan, result, sent, network, device, fresh>>

\* async with self._lock
Acquire(t) ==
  /\ pc[t] = "waiting"
  /\ holder = NoTask
  /\ holder' = t
  /\ pc' = [pc EXCEPT ![t] = "sending"]
  /\ UNCHANGED <<failed, stage, plan, result, calls, sent, network,
                 device, fresh>>

\* The caller is cancelled while it waits for the lock.
CancelWait(t) ==
  /\ pc[t] = "waiting"
  /\ pc' = [pc EXCEPT ![t] = "idle"]
  /\ result' = [result EXCEPT ![t] = "cancelled"]
  /\ UNCHANGED <<holder, failed, stage, plan, calls, sent, network,
                 device, fresh>>

\* The call ends, by a return or an exception, and releases the lock.
Finish(t, how) ==
  /\ holder' = NoTask
  /\ pc' = [pc EXCEPT ![t] = "idle"]
  /\ result' = [result EXCEPT ![t] = how]

-----------------------------------------------------------------------------
(* _request_unlocked                                                       *)

\* Mutation of Usable: the session is used again after a failed request.
UsableAlways == TRUE

\* The test that keeps a poisoned session silent.
Usable == ~failed

Refuse(t) ==
  /\ pc[t] = "sending"
  /\ ~Usable
  /\ Finish(t, "refused")
  /\ UNCHANGED <<failed, stage, plan, calls, sent, network, device, fresh>>

\* await connection.send(request)
Send(t) ==
  /\ pc[t] = "sending"
  /\ Usable
  /\ open
  /\ sent' = sent + 1
  /\ toDevice' = Append(toDevice,
       [id |-> sent + 1, edit |-> IF stage[t] = "write" THEN plan[t] ELSE NoPlan])
  /\ pc' = [pc EXCEPT ![t] = "receiving"]
  /\ UNCHANGED <<holder, failed, stage, plan, result, calls, open, toHost,
                 device, fresh>>

\* Mutation of TimedOut: the timeout covers the send only.
TimedOutSending(t) == pc[t] = "sending" /\ Usable

\* The ten seconds of one request cover both its send and its recv.
TimedOut(t) == (pc[t] = "sending" /\ Usable) \/ pc[t] = "receiving"

\* The timeout expires, the task is cancelled, or the connection raises.
Abort(t) ==
  /\ TimedOut(t)
  /\ failed' = TRUE
  /\ Finish(t, "failed")
  /\ UNCHANGED <<stage, plan, calls, sent, network, device, fresh>>

\* await connection.recv(): the oldest reply, whoever asked for it.
Answered == Head(toHost)

Take(t) ==
  /\ pc[t] = "receiving"
  /\ toHost # <<>>
  /\ toHost' = Tail(toHost)
  /\ UNCHANGED <<calls, sent, open, toDevice, device, fresh>>

-----------------------------------------------------------------------------
(* What each method does with a reply                                      *)

\* _binary_message or the decoder raises ProtocolError; the session is not
\* poisoned by it.
Malformed(t) ==
  /\ Take(t)
  /\ ~Answered.valid
  /\ Finish(t, "protocol")
  /\ UNCHANGED <<failed, stage, plan>>

\* telemetry and configuration return the decoded reply.
ReceiveRead(t) ==
  /\ Take(t)
  /\ Answered.valid
  /\ stage[t] = "read"
  /\ Finish(t, "read")
  /\ UNCHANGED <<failed, stage, plan>>

\* plan_schedule: the planner raises ValueError ...
RejectPlan(t, slot, s) ==
  /\ Take(t)
  /\ Answered.valid
  /\ stage[t] = "plan"
  /\ Refused(Answered.overrides, slot, s)
  /\ Finish(t, "rejected")
  /\ UNCHANGED <<failed, stage, plan>>

\* ... or returns a plan bound to the snapshot it was made from.
AcceptPlan(t, slot, s) ==
  /\ Take(t)
  /\ Answered.valid
  /\ stage[t] = "plan"
  /\ ~Refused(Answered.overrides, slot, s)
  /\ plan' = [plan EXCEPT ![t] = MakePlan(Answered.overrides, slot, s)]
  /\ Finish(t, "planned")
  /\ UNCHANGED <<failed, stage>>

\* Mutation of StillCurrent: only the edited slot is compared.
SlotStillCurrent(p, overrides) == overrides[p.slot] = p.before[p.slot]

\* apply_schedule compares every record with the plan's snapshot ...
StillCurrent(p, overrides) == overrides = p.before

Conflict(t) ==
  /\ Take(t)
  /\ Answered.valid
  /\ stage[t] = "check"
  /\ ~StillCurrent(plan[t], Answered.overrides)
  /\ Finish(t, "conflict")
  /\ UNCHANGED <<failed, stage, plan>>

\* ... returns at once when the plan changes nothing ...
Unneeded(t) ==
  /\ Take(t)
  /\ Answered.valid
  /\ stage[t] = "check"
  /\ StillCurrent(plan[t], Answered.overrides)
  /\ ~Changed(plan[t])
  /\ Finish(t, "unchanged")
  /\ UNCHANGED <<failed, stage, plan>>

\* The next request of the method, under the same holding of the lock.
Continue(t, next) ==
  /\ stage' = [stage EXCEPT ![t] = next]
  /\ pc' = [pc EXCEPT ![t] = "sending"]
  /\ UNCHANGED <<holder, failed, plan, result>>

\* ... and goes on to write otherwise.
Proceed(t) ==
  /\ Take(t)
  /\ Answered.valid
  /\ stage[t] = "check"
  /\ StillCurrent(plan[t], Answered.overrides)
  /\ Changed(plan[t])
  /\ Continue(t, "write")

Acknowledged(t) ==
  /\ Take(t)
  /\ Answered.valid
  /\ stage[t] = "write"
  /\ Answered.ack
  /\ Continue(t, "readback")

\* No acknowledgement: the session is poisoned, the write is in doubt.
Denied(t) ==
  /\ Take(t)
  /\ Answered.valid
  /\ stage[t] = "write"
  /\ ~Answered.ack
  /\ failed' = TRUE
  /\ Finish(t, "unverified")
  /\ UNCHANGED <<stage, plan>>

\* Mutation of AsExpected: only the edited slot is verified.
SlotAsExpected(p, overrides) == overrides[p.slot] = p.after

\* The readback of every record against what was meant to be there.
AsExpected(p, overrides) == overrides = Target(p)

Verified(t) ==
  /\ Take(t)
  /\ Answered.valid
  /\ stage[t] = "readback"
  /\ AsExpected(plan[t], Answered.overrides)
  /\ Finish(t, "written")
  /\ UNCHANGED <<failed, stage, plan>>

Differs(t) ==
  /\ Take(t)
  /\ Answered.valid
  /\ stage[t] = "readback"
  /\ ~AsExpected(plan[t], Answered.overrides)
  /\ failed' = TRUE
  /\ Finish(t, "unverified")
  /\ UNCHANGED <<stage, plan>>

Receive(t) ==
  \/ Malformed(t)
  \/ ReceiveRead(t)
  \/ \E slot \in Slots, s \in Wanted : RejectPlan(t, slot, s) \/ AcceptPlan(t, slot, s)
  \/ Conflict(t) \/ Unneeded(t) \/ Proceed(t)
  \/ Acknowledged(t) \/ Denied(t)
  \/ Verified(t) \/ Differs(t)

-----------------------------------------------------------------------------
(* The device and the connection (external)                                *)

\* The device handles its oldest request: a write is stored or not, and the
\* reply carries the table as it is after that.
Answer(stored, ack, valid) ==
  /\ toDevice # <<>>
  /\ LET request == Head(toDevice) IN
       /\ stored => request.edit # NoPlan
       /\ device' = IF stored
                    THEN [device EXCEPT ![request.edit.slot] = request.edit.after]
                    ELSE device
       /\ toHost' = Append(toHost, [id        |-> request.id,
                                    valid     |-> valid,
                                    ack       |-> ack,
                                    overrides |-> device'])
  /\ toDevice' = Tail(toDevice)
  /\ fresh' = TRUE
  /\ UNCHANGED <<session, open>>

\* The connection closes; requests in flight are lost, replies may be.
Disconnect ==
  /\ open
  /\ open' = FALSE
  /\ toDevice' = <<>>
  /\ toHost' \in {toHost, <<>>}
  /\ UNCHANGED <<session, device, fresh>>

\* Another editor stores a table while the session is in use.
ExternalEdit ==
  \E table \in External \ {device} :
    /\ device' = table
    /\ fresh' = FALSE
    /\ UNCHANGED <<session, network>>

-----------------------------------------------------------------------------
TaskStep(t) ==
  \/ \E first \in FirstStages : Call(t, first)
  \/ Acquire(t) \/ CancelWait(t)
  \/ Refuse(t) \/ Send(t) \/ Abort(t)
  \/ Receive(t)

Next ==
  \/ \E t \in Tasks : TaskStep(t)
  \/ \E stored, ack, valid \in BOOLEAN : Answer(stored, ack, valid)
  \/ Disconnect
  \/ ExternalEdit

Spec == Init /\ [][Next]_vars

\* asyncio runs a ready task and fires its timeouts; asyncio.Lock is granted
\* in the order of asking, so a waiter is not passed over for ever.  Nothing
\* is assumed of the device or of the connection.
Fairness ==
  \A t \in Tasks : /\ WF_vars(Abort(t))
                   /\ WF_vars(Refuse(t))
                   /\ SF_vars(Acquire(t))

FairSpec == Spec /\ Fairness

-----------------------------------------------------------------------------
(* Properties                                                              *)

\* _request_unlocked: the reply a call would take from the connection answers
\* the request it has just sent, never an earlier one that was abandoned.
OwnAnswer ==
  \A t \in Tasks : pc[t] = "receiving" =>
    \A i \in 1..Len(toHost) : toHost[i].id = sent

\* apply_schedule: a call that reports its edit verified (written, or found
\* to be there already) leaves the whole table as the plan meant it, unless
\* another editor has changed it since the device sent the readback.
VerifiedIsOnDevice ==
  [][\A t \in Tasks :
       /\ pc[t] = "receiving"
       /\ pc'[t] = "idle"
       /\ result'[t] \in {"written", "unchanged"}
       /\ fresh
       => device = Target(plan[t])]_vars

Store == INSTANCE ScheduleStore WITH table <- device

\* "Schedules changed after planning; no write was sent" (wifi.py): however old
\* its plan, an edit reaches the device only if the planner accepts it against
\* the table it replaces, whoever saved that table and whichever calls came
\* between, timed out or were cancelled since the plan was made.  What another
\* editor saves after the reply to the freshness check is outside it: fresh is
\* then FALSE when the write arrives.
EditsAccepted == [][fresh /\ fresh' => Store!Next]_device

\* When nobody else edits the device at all, plan, check, write and readback
\* together implement the atomic edits of ScheduleStore.
StoreSpec == Store!Spec

\* Every call returns: the lock passes on, and no request outlives its timeout.
CallsReturn == \A t \in Tasks : pc[t] # "idle" ~> pc[t] = "idle"
=============================================================================

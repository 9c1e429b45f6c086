------------------------ MODULE WebSocketSessionProofs ------------------------
(***************************************************************************)
(* Proofs about WebSocketSession for any number of tasks, calls and slots. *)
(*                                                                         *)
(* The inductive invariant is ChannelInv: the lock's holder is the only    *)
(* task inside a request, at most one message is in flight, nothing is in  *)
(* flight while a usable session has no request outstanding, and whatever  *)
(* is in flight while a call receives belongs to that call.                *)
(***************************************************************************)
EXTENDS WebSocketSession, SequenceTheorems, TLAPS

LEMMA WireRecord == \A s \in Schedule : ToWire(s) \in Record
BY SchedulesAssumption DEF Schedule, ToWire, Record, Minutes

\* What a step of Receive does to the session, whatever the method.
LEMMA ReceiveEffect ==
  ASSUME TypeOK, NEW t \in Tasks, Receive(t)
  PROVE  /\ Take(t)
         /\ \/ \E how \in Results : Finish(t, how) /\ failed' \in {failed, TRUE} /\ stage' = stage
            \/ \E next \in {"write", "readback"} : Continue(t, next)
BY DEF Receive, Malformed, ReceiveRead, RejectPlan, AcceptPlan, Conflict,
       Unneeded, Proceed, Acknowledged, Denied, Verified, Differs, Results,
       Continue, TypeOK

\* A plan made from a reply the device sent is a plan.
LEMMA PlanType ==
  ASSUME TypeOK, NEW t \in Tasks, Receive(t)
  PROVE  plan' \in [Tasks -> Plan \union {NoPlan}]
<1>1. CASE UNCHANGED plan
  BY <1>1 DEF TypeOK
<1>2. CASE \E slot \in Slots, s \in Wanted : AcceptPlan(t, slot, s)
  <2>1. PICK slot \in Slots, s \in Wanted : AcceptPlan(t, slot, s)
    BY <1>2
  <2>2. Head(toHost) \in Reply
    BY <2>1, HeadTailProperties DEF AcceptPlan, Take, TypeOK
  <2>3. MakePlan(Answered.overrides, slot, s) \in Plan
    BY <2>2, SessionAssumption, WireRecord
       DEF MakePlan, Plan, Answered, Reply
  <2> QED
    BY <2>1, <2>3 DEF AcceptPlan, TypeOK
<1> QED
  BY <1>1, <1>2
     DEF Receive, Malformed, ReceiveRead, RejectPlan, Conflict, Unneeded,
         Proceed, Acknowledged, Denied, Verified, Differs, Continue

\* The device applies only edits of its own slots, with records it can hold.
LEMMA AnswerType ==
  ASSUME TypeOK, NEW stored \in BOOLEAN, NEW ack \in BOOLEAN,
         NEW valid \in BOOLEAN, Answer(stored, ack, valid)
  PROVE  TypeOK'
<1> DEFINE request == Head(toDevice)
           reply == [id |-> request.id, valid |-> valid, ack |-> ack,
                     overrides |-> device']
<1>1. request \in Request /\ toDevice' \in Seq(Request)
  BY HeadTailProperties DEF Answer, TypeOK
<1>2. device' \in Overrides
  <2>1. CASE stored
    <3>1. request.edit \in Plan
      BY <1>1, <2>1 DEF Answer, Request
    <3>2. device' = [device EXCEPT ![request.edit.slot] = request.edit.after]
      BY <2>1 DEF Answer
    <3> QED
      BY <3>1, <3>2 DEF Plan, Overrides, TypeOK
  <2>2. CASE ~stored
    BY <2>2 DEF Answer, TypeOK
  <2> QED
    BY <2>1, <2>2
<1>3. reply \in Reply
  BY <1>1, <1>2 DEF Reply, Request
<1>4. toHost' = Append(toHost, reply)
  BY DEF Answer
<1>5. toHost' \in Seq(Reply)
  BY <1>3, <1>4, AppendProperties DEF TypeOK
<1> QED
  BY <1>1, <1>2, <1>5 DEF Answer, TypeOK, session

\* Every variable keeps its type.
THEOREM TypeCorrect == Spec => []TypeOK
<1>1. Init => TypeOK
  <2> SUFFICES ASSUME Init
               PROVE  TypeOK
    OBVIOUS
  <2>1. toDevice \in Seq(Request) /\ toHost \in Seq(Reply)
    BY EmptySeq DEF Init
  <2>2. calls \in 0..MaxCalls /\ device \in Overrides
    BY SessionAssumption DEF Init
  <2> QED
    BY <2>1, <2>2 DEF Init, TypeOK, Stages, Results
<1>2. TypeOK /\ [Next]_vars => TypeOK'
  <2> SUFFICES ASSUME TypeOK, [Next]_vars
               PROVE  TypeOK'
    OBVIOUS
  <2>1. ASSUME NEW t \in Tasks, NEW first \in FirstStages, Call(t, first)
        PROVE  TypeOK'
    BY <2>1, SessionAssumption DEF Call, TypeOK, network, FirstStages, Stages
  <2>2. ASSUME NEW t \in Tasks, Acquire(t) PROVE TypeOK'
    BY <2>2 DEF Acquire, TypeOK, network
  <2>3. ASSUME NEW t \in Tasks, CancelWait(t) PROVE TypeOK'
    BY <2>3 DEF CancelWait, TypeOK, network, Results
  <2>4. ASSUME NEW t \in Tasks, Refuse(t) PROVE TypeOK'
    BY <2>4 DEF Refuse, Finish, TypeOK, network, Results
  <2>5. ASSUME NEW t \in Tasks, Send(t) PROVE TypeOK'
    <3> DEFINE request == [id |-> sent + 1,
                           edit |-> IF stage[t] = "write" THEN plan[t] ELSE NoPlan]
    <3>1. request \in Request
      BY DEF TypeOK, Request
    <3>2. toDevice' = Append(toDevice, request)
      BY <2>5 DEF Send
    <3>3. toDevice' \in Seq(Request)
      BY <3>1, <3>2, AppendProperties DEF TypeOK
    <3> HIDE DEF request
    <3> QED
      BY <2>5, <3>3 DEF Send, TypeOK
  <2>6. ASSUME NEW t \in Tasks, Abort(t) PROVE TypeOK'
    BY <2>6 DEF Abort, Finish, TypeOK, network, Results
  <2>7. ASSUME NEW t \in Tasks, Receive(t) PROVE TypeOK'
    <3>1. toHost' \in Seq(Reply)
      BY <2>7, ReceiveEffect, HeadTailProperties DEF Take, TypeOK
    <3>2. plan' \in [Tasks -> Plan \union {NoPlan}]
      BY <2>7, PlanType
    <3>3. CASE \E how \in Results : Finish(t, how) /\ failed' \in {failed, TRUE} /\ stage' = stage
      BY <2>7, <3>1, <3>2, <3>3, ReceiveEffect DEF Take, Finish, TypeOK
    <3>4. CASE \E next \in {"write", "readback"} : Continue(t, next)
      BY <2>7, <3>1, <3>2, <3>4, ReceiveEffect DEF Take, Continue, TypeOK, Stages
    <3> QED
      BY <2>7, <3>3, <3>4, ReceiveEffect
  <2>8. ASSUME NEW stored \in BOOLEAN, NEW ack \in BOOLEAN, NEW valid \in BOOLEAN,
               Answer(stored, ack, valid)
        PROVE  TypeOK'
    BY <2>8, AnswerType
  <2>9. CASE Disconnect
    BY <2>9, EmptySeq DEF Disconnect, TypeOK, session
  <2>10. CASE ExternalEdit
    BY <2>10, SessionAssumption DEF ExternalEdit, TypeOK, session, network
  <2>11. CASE UNCHANGED vars
    BY <2>11 DEF vars, TypeOK
  <2> QED
    BY <2>1, <2>2, <2>3, <2>4, <2>5, <2>6, <2>7, <2>8, <2>9, <2>10, <2>11
       DEF Next, TaskStep
<1> QED
  BY <1>1, <1>2, PTL DEF Spec

-----------------------------------------------------------------------------
(* The channel                                                             *)

\* The lock: whoever is inside a request holds it.
LockInv ==
  \A t \in Tasks : pc[t] \in {"sending", "receiving"} <=> holder = t

\* One request outstanding at a time means one message in flight at most.
SingleMessage == Len(toDevice) + Len(toHost) <= 1

\* A usable session with no call receiving has nothing in flight.
Quiet ==
  ~failed /\ (\A t \in Tasks : pc[t] # "receiving")
    => toDevice = <<>> /\ toHost = <<>>

\* The call that poisons the session has ended, so nobody receives any more.
PoisonedReceivesNothing == failed => \A t \in Tasks : pc[t] # "receiving"

\* What is in flight while a call receives is that call's.
OwnMessages ==
  (\E t \in Tasks : pc[t] = "receiving") =>
    /\ \A i \in 1..Len(toDevice) : toDevice[i].id = sent
    /\ \A i \in 1..Len(toHost) : toHost[i].id = sent

ChannelInv ==
  LockInv /\ SingleMessage /\ Quiet /\ PoisonedReceivesNothing /\ OwnMessages

LEMMA OneInAll ==
  \A m, n \in Nat : n # 0 /\ (m + n <= 1 \/ n + m <= 1) => n = 1 /\ m = 0
OBVIOUS

\* A taken reply leaves both directions empty.
LEMMA TakeEmpties ==
  ASSUME TypeOK, SingleMessage, NEW t \in Tasks, Take(t)
  PROVE  /\ toHost' = <<>>
         /\ toDevice = <<>>
         /\ toDevice' = <<>>
<1>1. Len(toHost) \in Nat \ {0} /\ Len(toDevice) \in Nat
  BY EmptySeq, LenProperties DEF Take, TypeOK
<1>2. Len(toHost) = 1 /\ Len(toDevice) = 0
  BY <1>1, OneInAll, Zenon DEF SingleMessage
<1>3. toDevice = <<>>
  BY <1>2, EmptySeq DEF TypeOK
<1>4. toHost' \in Seq(Reply) /\ Len(toHost') = 0
  BY <1>2, HeadTailProperties DEF Take, TypeOK
<1> QED
  BY <1>3, <1>4, EmptySeq DEF Take

LEMMA ChannelInit == Init => ChannelInv
BY SessionAssumption
   DEF Init, ChannelInv, LockInv, SingleMessage, Quiet,
       PoisonedReceivesNothing, OwnMessages

\* A step that moves no message and no task into or out of a request.
LEMMA ChannelUntouched ==
  ASSUME TypeOK, ChannelInv, UNCHANGED <<failed, sent, toDevice, toHost>>,
         \A t \in Tasks : (pc[t] = "receiving" <=> pc'[t] = "receiving"),
         LockInv'
  PROVE  ChannelInv'
BY DEF ChannelInv, SingleMessage, Quiet, PoisonedReceivesNothing, OwnMessages

LEMMA ChannelSend ==
  ASSUME TypeOK, ChannelInv, NEW t \in Tasks, Send(t)
  PROVE  ChannelInv'
<1> DEFINE request == [id |-> sent + 1,
                       edit |-> IF stage[t] = "write" THEN plan[t] ELSE NoPlan]
<1>1. ~failed /\ holder = t
  BY DEF Send, Usable, ChannelInv, LockInv
<1>2. \A u \in Tasks : pc[u] # "receiving"
  BY <1>1 DEF Send, ChannelInv, LockInv
<1>3. toDevice = <<>> /\ toHost = <<>>
  BY <1>1, <1>2 DEF ChannelInv, Quiet
<1>4. toDevice' = <<request>> /\ toHost' = <<>>
  BY <1>3 DEF Send
<1>5. pc' = [pc EXCEPT ![t] = "receiving"] /\ holder' = t /\ sent' = sent + 1 /\ failed' = failed
  BY <1>1 DEF Send
<1>6. LockInv'
  BY <1>1, <1>2, <1>5 DEF ChannelInv, LockInv, TypeOK
<1>7. SingleMessage'
  BY <1>4 DEF SingleMessage
<1>8. Quiet' /\ PoisonedReceivesNothing'
  BY <1>1, <1>5 DEF Quiet, PoisonedReceivesNothing, TypeOK
<1>9. OwnMessages'
  BY <1>4, <1>5 DEF OwnMessages
<1> QED
  BY <1>6, <1>7, <1>8, <1>9 DEF ChannelInv

LEMMA ChannelAbort ==
  ASSUME TypeOK, ChannelInv, NEW t \in Tasks, Abort(t)
  PROVE  ChannelInv'
<1>1. holder = t
  BY DEF Abort, TimedOut, ChannelInv, LockInv
<1>2. \A u \in Tasks : pc'[u] \notin {"sending", "receiving"}
  BY <1>1 DEF Abort, Finish, ChannelInv, LockInv, TypeOK
<1>3. LockInv'
  BY <1>2, SessionAssumption DEF Abort, Finish, LockInv
<1> QED
  BY <1>2, <1>3
     DEF Abort, network, ChannelInv, SingleMessage, Quiet,
         PoisonedReceivesNothing, OwnMessages

LEMMA ChannelReceive ==
  ASSUME TypeOK, ChannelInv, NEW t \in Tasks, Receive(t)
  PROVE  ChannelInv'
<1>1. Take(t)
  BY ReceiveEffect
<1>2. toHost' = <<>> /\ toDevice' = <<>>
  BY <1>1, TakeEmpties DEF ChannelInv
<1>3. holder = t /\ \A u \in Tasks \ {t} : pc[u] \notin {"sending", "receiving"}
  BY <1>1 DEF Take, ChannelInv, LockInv
<1>4. /\ LockInv'
      /\ \A u \in Tasks : pc'[u] # "receiving"
  <2>1. CASE \E how \in Results : Finish(t, how) /\ failed' \in {failed, TRUE} /\ stage' = stage
    BY <1>3, <2>1, SessionAssumption DEF Finish, LockInv, TypeOK
  <2>2. CASE \E next \in {"write", "readback"} : Continue(t, next)
    BY <1>3, <2>2 DEF Continue, LockInv, TypeOK
  <2> QED
    BY <2>1, <2>2, ReceiveEffect
<1> QED
  BY <1>2, <1>4
     DEF ChannelInv, SingleMessage, Quiet, PoisonedReceivesNothing, OwnMessages

LEMMA ChannelAnswer ==
  ASSUME TypeOK, ChannelInv, NEW stored \in BOOLEAN, NEW ack \in BOOLEAN,
         NEW valid \in BOOLEAN, Answer(stored, ack, valid)
  PROVE  ChannelInv'
<1> DEFINE reply == [id |-> Head(toDevice).id, valid |-> valid, ack |-> ack,
                     overrides |-> device']
<1>1. Len(toDevice) = 1 /\ toHost = <<>>
  <2>1. Len(toDevice) \in Nat /\ Len(toDevice) # 0 /\ Len(toHost) \in Nat
    BY EmptySeq, LenProperties DEF Answer, TypeOK
  <2>2. Len(toDevice) = 1 /\ Len(toHost) = 0
    BY <2>1, OneInAll, Zenon DEF ChannelInv, SingleMessage
  <2> QED
    BY <2>2, EmptySeq DEF TypeOK
<1>2. toHost' = <<reply>>
  BY <1>1 DEF Answer
<1>3. toDevice' = <<>>
  BY <1>1, HeadTailProperties, EmptySeq DEF Answer, TypeOK
<1>4. Head(toDevice) = toDevice[1]
  BY <1>1, HeadTailProperties DEF Answer, TypeOK
<1>5. UNCHANGED <<failed, pc, holder, sent>>
  BY DEF Answer, session
<1>6. SingleMessage'
  BY <1>2, <1>3 DEF SingleMessage
<1>7. OwnMessages'
  BY <1>1, <1>2, <1>3, <1>4, <1>5 DEF OwnMessages, ChannelInv
<1>8. Quiet' /\ LockInv' /\ PoisonedReceivesNothing'
  BY <1>1, <1>5 DEF ChannelInv, Quiet, LockInv, PoisonedReceivesNothing, Answer
<1> QED
  BY <1>6, <1>7, <1>8 DEF ChannelInv

LEMMA ChannelDisconnect ==
  ASSUME TypeOK, ChannelInv, Disconnect
  PROVE  ChannelInv'
<1>1. Len(toDevice) \in Nat /\ Len(toHost) \in Nat
  BY LenProperties DEF TypeOK
<1>2. toDevice' = <<>> /\ toHost' \in {toHost, <<>>}
  BY DEF Disconnect
<1>3. UNCHANGED <<failed, pc, holder, sent>>
  BY DEF Disconnect, session
<1>4. SingleMessage'
  BY <1>1, <1>2 DEF ChannelInv, SingleMessage
<1>5. OwnMessages' /\ Quiet'
  BY <1>2, <1>3 DEF ChannelInv, OwnMessages, Quiet
<1> QED
  BY <1>3, <1>4, <1>5 DEF ChannelInv, LockInv, PoisonedReceivesNothing

\* Every step of the specification preserves the channel invariant.
LEMMA ChannelStep == TypeOK /\ ChannelInv /\ [Next]_vars => ChannelInv'
<1> SUFFICES ASSUME TypeOK, ChannelInv, [Next]_vars
             PROVE  ChannelInv'
  OBVIOUS
<1>1. ASSUME NEW t \in Tasks, NEW first \in FirstStages, Call(t, first)
      PROVE  ChannelInv'
  <2>1. LockInv'
    BY <1>1 DEF Call, ChannelInv, LockInv, TypeOK
  <2> QED
    BY <1>1, <2>1, ChannelUntouched DEF Call, TypeOK, network
<1>2. ASSUME NEW t \in Tasks, Acquire(t) PROVE ChannelInv'
  <2>1. LockInv'
    BY <1>2, SessionAssumption DEF Acquire, ChannelInv, LockInv, TypeOK
  <2> QED
    BY <1>2, <2>1, ChannelUntouched DEF Acquire, TypeOK, network
<1>3. ASSUME NEW t \in Tasks, CancelWait(t) PROVE ChannelInv'
  <2>1. LockInv'
    BY <1>3 DEF CancelWait, ChannelInv, LockInv, TypeOK
  <2> QED
    BY <1>3, <2>1, ChannelUntouched DEF CancelWait, TypeOK, network
<1>4. ASSUME NEW t \in Tasks, Refuse(t) PROVE ChannelInv'
  <2>1. LockInv'
    BY <1>4, SessionAssumption DEF Refuse, Finish, ChannelInv, LockInv, TypeOK
  <2> QED
    BY <1>4, <2>1, ChannelUntouched DEF Refuse, Finish, TypeOK, network
<1>5. ASSUME NEW t \in Tasks, Send(t) PROVE ChannelInv'
  BY <1>5, ChannelSend
<1>6. ASSUME NEW t \in Tasks, Abort(t) PROVE ChannelInv'
  BY <1>6, ChannelAbort
<1>7. ASSUME NEW t \in Tasks, Receive(t) PROVE ChannelInv'
  BY <1>7, ChannelReceive
<1>8. ASSUME NEW stored \in BOOLEAN, NEW ack \in BOOLEAN, NEW valid \in BOOLEAN,
             Answer(stored, ack, valid)
      PROVE  ChannelInv'
  BY <1>8, ChannelAnswer
<1>9. CASE Disconnect
  BY <1>9, ChannelDisconnect
<1>10. CASE ExternalEdit
  BY <1>10 DEF ExternalEdit, session, network, ChannelInv, LockInv,
       SingleMessage, Quiet, PoisonedReceivesNothing, OwnMessages
<1>11. CASE UNCHANGED vars
  BY <1>11 DEF vars, ChannelInv, LockInv, SingleMessage, Quiet,
       PoisonedReceivesNothing, OwnMessages
<1> QED
  BY <1>1, <1>2, <1>3, <1>4, <1>5, <1>6, <1>7, <1>8, <1>9, <1>10, <1>11
     DEF Next, TaskStep

THEOREM ChannelCorrect == Spec => []ChannelInv
BY ChannelInit, ChannelStep, TypeCorrect, PTL DEF Spec

\* No call ever takes the late reply of an abandoned request for its own.
THEOREM AnswersAreOwn == Spec => []OwnAnswer
<1>1. ChannelInv => OwnAnswer
  BY DEF ChannelInv, OwnMessages, OwnAnswer
<1> QED
  BY <1>1, ChannelCorrect, PTL

-----------------------------------------------------------------------------
(* Verified edits                                                          *)

\* A reply under way shows the table as it is, unless another editor has
\* changed it since.
FreshInv == fresh => \A i \in 1..Len(toHost) : toHost[i].overrides = device

LEMMA TakenIsReply ==
  ASSUME TypeOK, NEW t \in Tasks, Take(t)
  PROVE  /\ Len(toHost) \in Nat \ {0}
         /\ Answered = toHost[1] /\ Answered \in Reply
BY EmptySeq, HeadTailProperties, ElementOfSeq DEF Take, TypeOK, Answered

\* The oldest reply is the table as it is.
LEMMA TakenIsCurrent ==
  ASSUME TypeOK, FreshInv, fresh, NEW t \in Tasks, Take(t)
  PROVE  Answered \in Reply /\ Answered.overrides = device
<1>1. 1 \in 1..Len(toHost)
  BY TakenIsReply
<1> QED
  BY <1>1, TakenIsReply DEF FreshInv

LEMMA FreshStep == TypeOK /\ ChannelInv /\ FreshInv /\ [Next]_vars => FreshInv'
<1> SUFFICES ASSUME TypeOK, ChannelInv, FreshInv, [Next]_vars
             PROVE  FreshInv'
  OBVIOUS
<1>1. CASE UNCHANGED <<fresh, toHost, device>>
  BY <1>1 DEF FreshInv
<1>2. ASSUME NEW t \in Tasks, Receive(t) PROVE FreshInv'
  <2>1. toHost' = <<>>
    BY <1>2, ReceiveEffect, TakeEmpties DEF ChannelInv
  <2> QED
    BY <2>1 DEF FreshInv
<1>3. ASSUME NEW stored \in BOOLEAN, NEW ack \in BOOLEAN, NEW valid \in BOOLEAN,
             Answer(stored, ack, valid)
      PROVE  FreshInv'
  <2> DEFINE reply == [id |-> Head(toDevice).id, valid |-> valid, ack |-> ack,
                       overrides |-> device']
  <2>1. Len(toDevice) \in Nat /\ Len(toDevice) # 0 /\ Len(toHost) \in Nat
    BY <1>3, EmptySeq, LenProperties DEF Answer, TypeOK
  <2>2. Len(toHost) = 0
    BY <2>1, OneInAll, Zenon DEF ChannelInv, SingleMessage
  <2>3. toHost = <<>>
    BY <2>2, EmptySeq DEF TypeOK
  <2>4. toHost' = <<reply>>
    BY <1>3, <2>3 DEF Answer
  <2> QED
    BY <2>4 DEF FreshInv
<1>4. CASE Disconnect
  BY <1>4 DEF Disconnect, FreshInv
<1>5. CASE ExternalEdit
  BY <1>5 DEF ExternalEdit, FreshInv
<1> QED
  BY <1>1, <1>2, <1>3, <1>4, <1>5
     DEF Next, TaskStep, vars, network, Call, Acquire, CancelWait, Refuse, Send, Abort

THEOREM FreshCorrect == Spec => []FreshInv
<1>1. Init => FreshInv
  BY DEF Init, FreshInv
<1> QED
  BY <1>1, FreshStep, TypeCorrect, ChannelCorrect, PTL DEF Spec


\* A call that applies a plan has one.
PlanReady == \A t \in Tasks : stage[t] \notin {"read", "plan"} => plan[t] # NoPlan

LEMMA PlanReadyStep == TypeOK /\ PlanReady /\ [Next]_vars => PlanReady'
<1> SUFFICES ASSUME TypeOK, PlanReady, [Next]_vars
             PROVE  PlanReady'
  OBVIOUS
<1>1. CASE UNCHANGED <<stage, plan>>
  BY <1>1 DEF PlanReady
<1>2. ASSUME NEW t \in Tasks, NEW first \in FirstStages, Call(t, first)
      PROVE  PlanReady'
  BY <1>2 DEF Call, FirstStages, PlanReady, TypeOK
<1>3. ASSUME NEW t \in Tasks, Receive(t) PROVE PlanReady'
  <2>1. CASE UNCHANGED <<stage, plan>>
    BY <2>1 DEF PlanReady
  <2>2. CASE \E slot \in Slots, s \in Wanted : AcceptPlan(t, slot, s)
    <3>1. plan' \in [Tasks -> Plan \union {NoPlan}] /\ stage[t] = "plan" /\ stage' = stage
      BY <1>3, <2>2, PlanType DEF AcceptPlan
    <3>2. \A u \in Tasks \ {t} : plan'[u] = plan[u]
      BY <2>2 DEF AcceptPlan, TypeOK
    <3> QED
      BY <3>1, <3>2 DEF PlanReady
  <2>3. CASE \E next \in {"write", "readback"} : Continue(t, next)
    <3>1. stage[t] \in {"check", "write"}
      BY <1>3, <2>3 DEF Receive, Malformed, ReceiveRead, RejectPlan, AcceptPlan,
         Conflict, Unneeded, Proceed, Acknowledged, Denied, Verified, Differs,
         Continue, Finish, TypeOK
    <3> QED
      BY <2>3, <3>1 DEF Continue, PlanReady, TypeOK
  <2> QED
    BY <1>3, <2>1, <2>2, <2>3
       DEF Receive, Malformed, ReceiveRead, RejectPlan, Conflict, Unneeded,
           Proceed, Acknowledged, Denied, Verified, Differs
<1> QED
  BY <1>1, <1>2, <1>3
     DEF Next, TaskStep, vars, session, Acquire, CancelWait, Refuse, Send,
         Abort, Answer, Disconnect, ExternalEdit

THEOREM PlanReadyCorrect == Spec => []PlanReady
<1>1. Init => PlanReady
  BY DEF Init, PlanReady
<1> QED
  BY <1>1, PlanReadyStep, TypeCorrect, PTL DEF Spec

\* A plan whose record is already there means the table as it was.
LEMMA UnchangedTarget ==
  ASSUME NEW p \in Plan, ~Changed(p)
  PROVE  Target(p) = p.before
BY DEF Plan, Overrides, Changed, Target

\* Only a readback as expected, or a table that needs no write, ends a call as
\* verified.
LEMMA VerifiedEnds ==
  ASSUME TypeOK, Next, NEW t \in Tasks, pc[t] = "receiving", pc'[t] = "idle",
         result'[t] \in {"written", "unchanged"}
  PROVE  Verified(t) \/ Unneeded(t)
<1>1. ASSUME NEW u \in Tasks, TaskStep(u), u # t PROVE FALSE
  BY <1>1, ReceiveEffect
     DEF TaskStep, Call, Acquire, CancelWait, Refuse, Send, Abort, Finish,
         Continue, TypeOK
<1>2. CASE TaskStep(t)
  <2>1. Receive(t)
    BY <1>2 DEF TaskStep, Call, Acquire, CancelWait, Refuse, Send, Abort,
       Finish, TypeOK
  <2> QED
    BY <2>1 DEF Receive, Malformed, ReceiveRead, RejectPlan, AcceptPlan,
       Conflict, Proceed, Acknowledged, Denied, Differs, Finish, Continue, TypeOK
<1>3. ~UNCHANGED pc
  OBVIOUS
<1> QED
  BY <1>1, <1>2, <1>3 DEF Next, Answer, Disconnect, ExternalEdit, session

\* A call reports its edit verified only when the device holds it, however the
\* session's calls interleave, as long as no other editor came between.
THEOREM VerifiedEditsAreStored == Spec => VerifiedIsOnDevice
<1>1. TypeOK /\ FreshInv /\ PlanReady /\ [Next]_vars =>
        [\A t \in Tasks :
           /\ pc[t] = "receiving"
           /\ pc'[t] = "idle"
           /\ result'[t] \in {"written", "unchanged"}
           /\ fresh
           => device = Target(plan[t])]_vars
  <2> SUFFICES ASSUME TypeOK, FreshInv, PlanReady, Next, fresh,
                      NEW t \in Tasks,
                      pc[t] = "receiving", pc'[t] = "idle",
                      result'[t] \in {"written", "unchanged"}
               PROVE  device = Target(plan[t])
    OBVIOUS
  <2>1. CASE Verified(t)
    <3>1. Answered.overrides = device
      BY <2>1, TakenIsCurrent DEF Verified
    <3> QED
      BY <2>1, <3>1 DEF Verified, AsExpected
  <2>2. CASE Unneeded(t)
    <3>1. Answered.overrides = device
      BY <2>2, TakenIsCurrent DEF Unneeded
    <3>2. plan[t] \in Plan
      BY <2>2 DEF Unneeded, PlanReady, TypeOK
    <3> QED
      BY <2>2, <3>1, <3>2, UnchangedTarget DEF Unneeded, StillCurrent
  <2> QED
    BY <2>1, <2>2, VerifiedEnds
<1> QED
  BY <1>1, TypeCorrect, FreshCorrect, PlanReadyCorrect, PTL
     DEF Spec, VerifiedIsOnDevice

-----------------------------------------------------------------------------
(* Accepted edits                                                          *)

\* The planner accepted the plan against the snapshot it carries.
Accepted(p) ==
  /\ p \in Plan
  /\ \E s \in Wanted : p.after = ToWire(s) /\ ~Refused(p.before, p.slot, s)

AllAccepted == \A t \in Tasks : plan[t] # NoPlan => Accepted(plan[t])

\* A call waits for the lock only before its first request.
WaitsFirst == \A t \in Tasks : pc[t] = "waiting" => stage[t] \in FirstStages

\* Between the freshness check and the write nobody but another editor changes
\* the table.
WriteReady ==
  \A t \in Tasks : pc[t] = "sending" /\ stage[t] = "write" =>
    /\ ~failed /\ plan[t] # NoPlan
    /\ fresh => device = plan[t].before

\* Nor while the write is under way, whatever has become of its call.
EditInFlight ==
  \A i \in 1..Len(toDevice) : toDevice[i].edit # NoPlan =>
    /\ Accepted(toDevice[i].edit)
    /\ fresh => device = toDevice[i].edit.before

EditInv == AllAccepted /\ WaitsFirst /\ WriteReady /\ EditInFlight

\* A step that leaves the table, the plans and the requests alone, and brings
\* no task to its write.
LEMMA EditUntouched ==
  ASSUME TypeOK, EditInv, UNCHANGED <<failed, plan, toDevice, device, fresh>>,
         WaitsFirst',
         \A t \in Tasks : pc'[t] = "sending" /\ stage'[t] = "write" =>
                            pc[t] = "sending" /\ stage[t] = "write"
  PROVE  EditInv'
BY DEF EditInv, AllAccepted, WriteReady, EditInFlight

LEMMA EditSend ==
  ASSUME TypeOK, ChannelInv, EditInv, NEW t \in Tasks, Send(t)
  PROVE  EditInv'
<1> DEFINE request == [id |-> sent + 1,
                       edit |-> IF stage[t] = "write" THEN plan[t] ELSE NoPlan]
<1>1. toDevice = <<>>
  BY DEF Send, Usable, ChannelInv, LockInv, Quiet
<1>2. toDevice' = <<request>>
  BY <1>1 DEF Send
<1>3. request.edit # NoPlan =>
        Accepted(request.edit) /\ (fresh => device = request.edit.before)
  BY DEF Send, EditInv, WriteReady, AllAccepted
<1>4. EditInFlight'
  <2> SUFFICES ASSUME NEW i \in 1..Len(toDevice'), toDevice'[i].edit # NoPlan
               PROVE  /\ Accepted(toDevice'[i].edit)
                      /\ fresh' => device' = toDevice'[i].edit.before
    BY DEF EditInFlight, Accepted
  <2>1. toDevice'[i] = request
    BY <1>2
  <2>2. UNCHANGED <<device, fresh>>
    BY DEF Send
  <2> HIDE DEF request
  <2> QED
    BY <1>3, <2>1, <2>2
<1>5. AllAccepted' /\ WaitsFirst' /\ WriteReady'
  BY DEF Send, EditInv, AllAccepted, WaitsFirst, WriteReady, TypeOK
<1> QED
  BY <1>4, <1>5 DEF EditInv

LEMMA EditReceive ==
  ASSUME TypeOK, ChannelInv, FreshInv, PlanReady, EditInv,
         NEW t \in Tasks, Receive(t)
  PROVE  EditInv'
<1>1. Take(t) /\ toDevice' = <<>>
  BY ReceiveEffect, TakeEmpties DEF ChannelInv
<1>2. Answered \in Reply /\ (fresh => Answered.overrides = device)
  BY <1>1, TakenIsReply, TakenIsCurrent
<1>3. UNCHANGED <<device, fresh>>
  BY <1>1 DEF Take
<1>4. ~failed /\ \A u \in Tasks \ {t} : pc[u] \notin {"sending", "receiving"}
  BY <1>1 DEF Take, ChannelInv, LockInv, PoisonedReceivesNothing
<1>5. EditInFlight'
  BY <1>1 DEF EditInFlight
<1>6. AllAccepted'
  <2>1. CASE UNCHANGED plan
    BY <2>1 DEF EditInv, AllAccepted, Accepted
  <2>2. CASE \E slot \in Slots, s \in Wanted : AcceptPlan(t, slot, s)
    <3>1. PICK slot \in Slots, s \in Wanted : AcceptPlan(t, slot, s)
      BY <2>2
    <3> DEFINE p == MakePlan(Answered.overrides, slot, s)
    <3>2. p \in Plan
      BY <1>2, SessionAssumption, WireRecord DEF MakePlan, Plan, Reply
    <3>3. p.after = ToWire(s) /\ p.slot = slot /\ p.before = Answered.overrides
      BY DEF MakePlan
    <3>4. ~Refused(p.before, p.slot, s)
      BY <3>1, <3>3 DEF AcceptPlan
    <3> HIDE DEF p
    <3>5. Accepted(p)
      BY <3>2, <3>3, <3>4 DEF Accepted
    <3>6. plan' = [plan EXCEPT ![t] = p]
      BY <3>1 DEF AcceptPlan, p
    <3>7. \A u \in Tasks : plan'[u] = IF u = t THEN p ELSE plan[u]
      BY <3>6 DEF TypeOK
    <3> QED
      BY <3>5, <3>7 DEF EditInv, AllAccepted, Accepted
  <2> QED
    BY <2>1, <2>2
       DEF Receive, Malformed, ReceiveRead, RejectPlan, Conflict, Unneeded,
           Proceed, Acknowledged, Denied, Verified, Differs, Continue
<1>7. WaitsFirst'
  <2>1. CASE \E how \in Results : Finish(t, how) /\ failed' \in {failed, TRUE} /\ stage' = stage
    BY <2>1 DEF Finish, EditInv, WaitsFirst, TypeOK
  <2>2. CASE \E next \in {"write", "readback"} : Continue(t, next)
    BY <2>2 DEF Continue, EditInv, WaitsFirst, TypeOK
  <2> QED
    BY <2>1, <2>2, ReceiveEffect
<1>8. WriteReady'
  <2>1. CASE Proceed(t)
    <3>1. (fresh => device = plan[t].before) /\ plan[t] # NoPlan
      BY <1>2, <2>1 DEF Proceed, StillCurrent, PlanReady
    <3> QED
      BY <1>3, <1>4, <2>1, <3>1 DEF Proceed, Continue, WriteReady, TypeOK
  <2>2. CASE ~Proceed(t)
    <3>1. \A u \in Tasks : ~(pc'[u] = "sending" /\ stage'[u] = "write")
      BY <1>4, <2>2
         DEF Receive, Malformed, ReceiveRead, RejectPlan, AcceptPlan, Conflict,
             Unneeded, Acknowledged, Denied, Verified, Differs, Continue,
             Finish, TypeOK
    <3> QED
      BY <3>1 DEF WriteReady
  <2> QED
    BY <2>1, <2>2
<1> QED
  BY <1>5, <1>6, <1>7, <1>8 DEF EditInv

LEMMA EditAnswer ==
  ASSUME TypeOK, ChannelInv, EditInv, NEW stored \in BOOLEAN, NEW ack \in BOOLEAN,
         NEW valid \in BOOLEAN, Answer(stored, ack, valid)
  PROVE  EditInv'
<1>1. toDevice # <<>> /\ Len(toDevice) \in Nat /\ Len(toDevice) # 0 /\ Len(toHost) \in Nat
  BY EmptySeq, LenProperties DEF Answer, TypeOK
<1>2. Len(toDevice) = 1
  BY <1>1, OneInAll, Zenon DEF ChannelInv, SingleMessage
<1>3. toDevice' = <<>>
  BY <1>2, HeadTailProperties, EmptySeq DEF Answer, TypeOK
<1>4. UNCHANGED <<failed, pc, stage, plan>>
  BY DEF Answer, session
<1>5. \A t \in Tasks : ~(pc[t] = "sending" /\ stage[t] = "write")
  <2> SUFFICES ASSUME NEW t \in Tasks, pc[t] = "sending", stage[t] = "write"
               PROVE  FALSE
    OBVIOUS
  <2>1. ~failed /\ \A u \in Tasks : pc[u] # "receiving"
    BY DEF EditInv, WriteReady, ChannelInv, LockInv
  <2> QED
    BY <1>1, <2>1 DEF ChannelInv, Quiet
<1> QED
  BY <1>3, <1>4, <1>5
     DEF EditInv, AllAccepted, Accepted, WaitsFirst, WriteReady, EditInFlight

LEMMA EditStep ==
  TypeOK /\ ChannelInv /\ FreshInv /\ PlanReady /\ EditInv /\ [Next]_vars => EditInv'
<1> SUFFICES ASSUME TypeOK, ChannelInv, FreshInv, PlanReady, EditInv, [Next]_vars
             PROVE  EditInv'
  OBVIOUS
<1>1. ASSUME NEW t \in Tasks, NEW first \in FirstStages, Call(t, first)
      PROVE  EditInv'
  <2>1. WaitsFirst'
    BY <1>1 DEF Call, EditInv, WaitsFirst, TypeOK
  <2>2. \A u \in Tasks : pc'[u] = "sending" /\ stage'[u] = "write" =>
                           pc[u] = "sending" /\ stage[u] = "write"
    BY <1>1 DEF Call, TypeOK, FirstStages
  <2> QED
    BY <1>1, <2>1, <2>2, EditUntouched DEF Call, network
<1>2. ASSUME NEW t \in Tasks, Acquire(t) PROVE EditInv'
  <2>1. WaitsFirst'
    BY <1>2 DEF Acquire, EditInv, WaitsFirst, TypeOK
  <2>2. \A u \in Tasks : pc'[u] = "sending" /\ stage'[u] = "write" =>
                           pc[u] = "sending" /\ stage[u] = "write"
    BY <1>2 DEF Acquire, EditInv, WaitsFirst, TypeOK, FirstStages
  <2> QED
    BY <1>2, <2>1, <2>2, EditUntouched DEF Acquire, network
<1>3. ASSUME NEW t \in Tasks, CancelWait(t) \/ Refuse(t) PROVE EditInv'
  <2>1. WaitsFirst'
    BY <1>3 DEF CancelWait, Refuse, Finish, EditInv, WaitsFirst, TypeOK
  <2>2. \A u \in Tasks : pc'[u] = "sending" /\ stage'[u] = "write" =>
                           pc[u] = "sending" /\ stage[u] = "write"
    BY <1>3 DEF CancelWait, Refuse, Finish, TypeOK
  <2> QED
    BY <1>3, <2>1, <2>2, EditUntouched DEF CancelWait, Refuse, network
<1>4. ASSUME NEW t \in Tasks, Send(t) PROVE EditInv'
  BY <1>4, EditSend
<1>5. ASSUME NEW t \in Tasks, Abort(t) PROVE EditInv'
  <2>1. \A u \in Tasks : pc'[u] \notin {"sending", "receiving"}
    BY <1>5 DEF Abort, TimedOut, Finish, ChannelInv, LockInv, TypeOK
  <2> QED
    BY <1>5, <2>1
       DEF Abort, Finish, network, EditInv, AllAccepted, Accepted, WaitsFirst,
           WriteReady, EditInFlight, TypeOK
<1>6. ASSUME NEW t \in Tasks, Receive(t) PROVE EditInv'
  BY <1>6, EditReceive
<1>7. ASSUME NEW stored \in BOOLEAN, NEW ack \in BOOLEAN, NEW valid \in BOOLEAN,
             Answer(stored, ack, valid)
      PROVE  EditInv'
  BY <1>7, EditAnswer
<1>8. CASE Disconnect
  BY <1>8 DEF Disconnect, session, EditInv, AllAccepted, Accepted, WaitsFirst,
     WriteReady, EditInFlight
<1>9. CASE ExternalEdit
  BY <1>9 DEF ExternalEdit, session, network, EditInv, AllAccepted, Accepted,
     WaitsFirst, WriteReady, EditInFlight
<1>10. CASE UNCHANGED vars
  BY <1>10 DEF vars, EditInv, AllAccepted, Accepted, WaitsFirst, WriteReady,
     EditInFlight
<1> QED
  BY <1>1, <1>2, <1>3, <1>4, <1>5, <1>6, <1>7, <1>8, <1>9, <1>10
     DEF Next, TaskStep

LEMMA EditCorrect == Spec => []EditInv
<1>1. Init => EditInv
  BY DEF Init, EditInv, AllAccepted, WaitsFirst, WriteReady, EditInFlight
<1> QED
  BY <1>1, EditStep, TypeCorrect, ChannelCorrect, FreshCorrect,
     PlanReadyCorrect, PTL DEF Spec

\* A step of anyone but another editor changes the table only to that of an
\* edit the planner accepted against the very table it replaces.
LEMMA StoreStep ==
  ASSUME TypeOK, EditInv, Next, fresh, fresh', device' # device
  PROVE  Store!Next
<1>1. PICK stored \in BOOLEAN, ack \in BOOLEAN, valid \in BOOLEAN :
        Answer(stored, ack, valid)
  BY ReceiveEffect
     DEF Next, TaskStep, Call, Acquire, CancelWait, Refuse, Send, Abort, Take,
         Disconnect, ExternalEdit
<1> DEFINE edit == Head(toDevice).edit
<1>2. /\ edit # NoPlan
      /\ device' = [device EXCEPT ![edit.slot] = edit.after]
  BY <1>1 DEF Answer
<1>3. Len(toDevice) \in Nat \ {0} /\ Head(toDevice) = toDevice[1]
  BY <1>1, EmptySeq, HeadTailProperties DEF Answer, TypeOK
<1>4. Accepted(edit) /\ device = edit.before
  BY <1>2, <1>3 DEF EditInv, EditInFlight
<1>5. PICK s \in Wanted : edit.after = ToWire(s) /\ ~Refused(edit.before, edit.slot, s)
  BY <1>4 DEF Accepted
<1>6. edit.slot \in Slots
  BY <1>4 DEF Accepted, Plan
<1> HIDE DEF edit
<1>7. ~Store!Refused(device, edit.slot, s)
  BY <1>4, <1>5 DEF Store!Refused, Store!ToWire, Store!VerifiedWindow,
     Store!Touches, Refused, ToWire, VerifiedWindow, Touches
<1>8. device' = [device EXCEPT ![edit.slot] = Store!ToWire(s)]
  BY <1>2, <1>5 DEF Store!ToWire, ToWire
<1> QED
  BY <1>6, <1>7, <1>8 DEF Store!Next, Store!Edit

\* Every edit that reaches the device is one the planner accepts against the
\* table it replaces, whatever other editors save, calls interleave, time out,
\* are cancelled or lose their connection, but for the stated race of an editor
\* that saves between the reply to the freshness check and the write.
THEOREM EditsAreAccepted == Spec => EditsAccepted
<1>1. TypeOK /\ EditInv /\ [Next]_vars => [fresh /\ fresh' => Store!Next]_device
  BY StoreStep DEF vars
<1> QED
  BY <1>1, TypeCorrect, EditCorrect, PTL DEF Spec, EditsAccepted

\* With no other editor there is no such race: the session's calls implement
\* the atomic edits of ScheduleStore.
THEOREM SessionImplementsStore ==
  ASSUME External = {}
  PROVE  Spec => StoreSpec
<1>1. Init => fresh /\ Store!Init
  BY DEF Init, Store!Init
<1>2. TypeOK /\ fresh /\ [Next]_vars => fresh'
  <2> SUFFICES ASSUME TypeOK, fresh, [Next]_vars PROVE fresh'
    OBVIOUS
  <2>1. ASSUME NEW t \in Tasks, TaskStep(t) PROVE fresh'
    BY <2>1, ReceiveEffect
       DEF TaskStep, Call, Acquire, CancelWait, Refuse, Send, Abort, Take
  <2>2. ~ExternalEdit
    BY DEF ExternalEdit
  <2>3. ASSUME NEW stored \in BOOLEAN, NEW ack \in BOOLEAN, NEW valid \in BOOLEAN,
               Answer(stored, ack, valid)
        PROVE  fresh'
    BY <2>3 DEF Answer
  <2>4. CASE Disconnect \/ UNCHANGED vars
    BY <2>4 DEF Disconnect, vars
  <2> QED
    BY <2>1, <2>2, <2>3, <2>4 DEF Next
<1>3. TypeOK /\ EditInv /\ fresh /\ fresh' /\ [Next]_vars => [Store!Next]_device
  BY StoreStep DEF vars
<1> QED
  BY <1>1, <1>2, <1>3, TypeCorrect, EditCorrect, PTL DEF Spec, StoreSpec, Store!Spec
=============================================================================

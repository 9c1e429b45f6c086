----------------------------- MODULE Coordinator -----------------------------
(***************************************************************************)
(* CatchCoordinator (coordinator.py): the polls and the schedule edits of  *)
(* one integration entry, one transaction at a time, over either           *)
(* transport.  The client or session below is seen through its promises    *)
(* (WebSocketSession has the detail): a plan remembers the configuration   *)
(* it was made from, applying it refuses if the configuration is another,  *)
(* and an apply that fails may have written.  DataUpdateCoordinator is     *)
(* external: it keeps the last data and whether the last update succeeded. *)
(*                                                                         *)
(* A slot is a few fields, and the value of a field is who wrote it.       *)
(***************************************************************************)
EXTENDS Naturals, Sequences

CONSTANTS
  Devices,     \* the devices that may answer
  Own,         \* the one whose serial the entry records
  Editors,     \* calls of async_edit_schedule, each made once
  Poll,        \* the caller of _async_update_data
  Fields,      \* the fields of the slot that is edited
  Changes,     \* the fields that each edit changes
  None,        \* no value, and the initial writer of every field
  Outside,     \* another configuration editor
  MaxPolls,    \* bound: polls
  MaxOutside,  \* bound: changes made by the other editor
  MaxCancels   \* bound: tasks cancelled by Home Assistant

Actors == Editors \union {Poll}
Writers == Editors \union {None, Outside}
Slots == [Fields -> Writers]

\* A configuration as it was read, and when.
Readings == [slot : Slots, at : Nat]

ASSUME CoordinatorAssumption ==
  /\ Own \in Devices /\ None \notin Devices
  /\ Poll \notin Editors /\ None \notin Slots \union Readings
  /\ Changes \in [Editors -> SUBSET Fields]
  /\ MaxPolls \in Nat /\ MaxOutside \in Nat /\ MaxCancels \in Nat

VARIABLES
  transport,    \* the entry's transport, which never changes
  transaction,  \* _transaction: the holder of the lock, then those who wait
  stage,        \* where each call is
  work,         \* the local variables of each call
  config,       \* the slot as each device has it
  published,    \* coordinator.data
  success,      \* coordinator.last_update_success
  clock,        \* samples read so far, which orders them
  polls, outside, cancels

vars == <<transport, transaction, stage, work, config, published, success, clock,
          polls, outside, cancels>>
data == <<published, success>>
rest == <<transport, polls, outside, cancels>>

Bluetooth == transport = "bluetooth"

Over == {"idle", "verified", "failed", "cancelled"}

TypeOK ==
  /\ transport \in {"bluetooth", "wifi"}
  /\ transaction \in Seq(Actors)
  /\ stage \in [Actors -> {"idle", "waiting", "current", "planning", "applying",
                           "telemetry", "configuration", "exiting", "discarding",
                           "failing", "cancelling", "verified", "failed", "cancelled"}]
  /\ work \in [Actors -> [device : Devices \union {None}, base : Slots \union {None},
                          before : Slots \union {None}, telemetry : Nat,
                          configuration : Readings \union {None}]]
  /\ config \in [Devices -> Slots]
  /\ published \in [device : Devices \union {None}, telemetry : Nat,
                    configuration : Readings \union {None}]
  /\ success \in BOOLEAN
  /\ clock \in Nat
  /\ polls \in 0..MaxPolls /\ outside \in 0..MaxOutside /\ cancels \in 0..MaxCancels
  /\ \A a \in Actors :
       /\ stage[a] \in Over \union {"waiting"} <=> work[a].device = None
       /\ stage[a] \in Over <=> \A i \in 1..Len(transaction) : transaction[i] # a

NoWork == [device |-> None, base |-> None, before |-> None, telemetry |-> 0,
           configuration |-> None]

Init ==
  /\ transport \in {"bluetooth", "wifi"}
  /\ transaction = <<>>
  /\ stage = [a \in Actors |-> "idle"]
  /\ work = [a \in Actors |-> NoWork]
  /\ config = [d \in Devices |-> [f \in Fields |-> None]]
  /\ published = [device |-> None, telemetry |-> 0, configuration |-> None]
  /\ success = TRUE
  /\ clock = 0
  /\ polls = 0 /\ outside = 0 /\ cancels = 0

-----------------------------------------------------------------------------
(* The lock                                                                *)

\* asyncio.Lock is granted in the order it was asked for.
Waits(a) == transaction' = Append(transaction, a)

\* Mutation of Turn: no lock.
AnyTurn(a) == TRUE

Turn(a) == Head(transaction) = a

\* Mutation of Released: the next in the queue is never woken.
NeverReleased(a) == transaction

Released(a) ==
  LET i == CHOOSE i \in 1..Len(transaction) : transaction[i] = a
  IN SubSeq(transaction, 1, i - 1) \o SubSeq(transaction, i + 1, Len(transaction))

\* The call of a ends: an edit is over, the poll comes round again.
Ends(a, outcome) ==
  /\ transaction' = Released(a)
  /\ stage' = [stage EXCEPT ![a] = IF a = Poll THEN "idle" ELSE outcome]
  /\ work' = [work EXCEPT ![a] = NoWork]

\* It goes on to the next await.
GoesOn(a, next) ==
  /\ stage' = [stage EXCEPT ![a] = next]
  /\ UNCHANGED transaction

\* The data of a transaction are published in the step that releases its lock.
Publish(a, w) ==
  /\ published' = [device |-> w.device, telemetry |-> w.telemetry,
                   configuration |-> w.configuration]
  /\ success' = TRUE
  /\ Ends(a, "verified")

\* UpdateFailed for a poll, HomeAssistantError for an edit.
Raise(a) ==
  /\ success' = (success /\ a # Poll)
  /\ UNCHANGED published
  /\ Ends(a, "failed")

-----------------------------------------------------------------------------
(* Opening: client_for and __aenter__, or async_session                    *)

Ask(a) ==
  /\ stage[a] = "idle"
  /\ a = Poll => polls < MaxPolls
  /\ polls' = IF a = Poll THEN polls + 1 ELSE polls
  /\ Waits(a)
  /\ stage' = [stage EXCEPT ![a] = "waiting"]
  /\ UNCHANGED <<transport, work, config, data, clock, outside, cancels>>

\* Mutation of Identified: whoever answers is taken for the entry's device.
IdentifiedAny(d) == TRUE

\* _check_identity
Identified(d) == d = Own

\* The first await after the connection, or after the session was obtained.
\* Over Bluetooth the identity has been read by then, and is checked first.
Open(a) ==
  /\ stage[a] = "waiting" /\ Turn(a)
  /\ \E d \in Devices :
       /\ work' = [work EXCEPT ![a].device = d]
       /\ GoesOn(a, IF Bluetooth /\ ~Identified(d) THEN "failing"
                    ELSE IF a = Poll THEN "telemetry" ELSE "current")
  /\ UNCHANGED <<config, data, clock, rest>>

\* No connection, or no session within its timeout: nothing to clean up.
OpenFails(a) ==
  /\ stage[a] = "waiting" /\ Turn(a)
  /\ Raise(a)
  /\ UNCHANGED <<config, clock, rest>>

-----------------------------------------------------------------------------
(* An edit                                                                 *)

\* current = (await ....configuration())['overrides'][slot - 1]
ReadCurrent(a) ==
  /\ stage[a] = "current"
  /\ work' = [work EXCEPT ![a].base = config[work[a].device]]
  /\ GoesOn(a, "planning")
  /\ UNCHANGED <<config, data, clock, rest>>

\* plan_schedule reads the configuration again and remembers it.
Plan(a) ==
  /\ stage[a] = "planning"
  /\ work' = [work EXCEPT ![a].before = config[work[a].device]]
  /\ GoesOn(a, "applying")
  /\ UNCHANGED <<config, data, clock, rest>>

\* The whole slot is written: the fields of the call, the rest as first read.
Edited(a) ==
  [f \in Fields |-> IF f \in Changes[a] THEN a ELSE work[a].base[f]]

Fresh(a) == config[work[a].device] = work[a].before

Written(a) == [config EXCEPT ![work[a].device] = Edited(a)]

\* apply_schedule wrote and read back what it meant to write.
Apply(a) ==
  /\ stage[a] = "applying"
  /\ Fresh(a)
  /\ config' = Written(a)
  /\ GoesOn(a, "telemetry")
  /\ UNCHANGED <<work, data, clock, rest>>

\* It refused a configuration that changed, failed before its write, or wrote
\* and could not verify it.
ApplyFails(a) ==
  /\ stage[a] = "applying"
  /\ \/ UNCHANGED config
     \/ Fresh(a) /\ config' = Written(a)
  /\ GoesOn(a, "failing")
  /\ UNCHANGED <<work, data, clock, rest>>

-----------------------------------------------------------------------------
(* What polls and edits both read at the end                               *)

\* Over Wi-Fi the telemetry carries the identity, and is where it is checked.
ReadTelemetry(a) ==
  /\ stage[a] = "telemetry"
  /\ clock' = clock + 1
  /\ IF Bluetooth \/ Identified(work[a].device)
       THEN work' = [work EXCEPT ![a].telemetry = clock'] /\ GoesOn(a, "configuration")
       ELSE UNCHANGED work /\ GoesOn(a, "failing")
  /\ UNCHANGED <<config, data, rest>>

\* Mutation of Read: an edit goes on with the configuration it planned from.
ReadPlanned(a) ==
  [slot |-> IF a = Poll THEN config[work[a].device] ELSE work[a].before, at |-> clock + 1]

Read(a) == [slot |-> config[work[a].device], at |-> clock + 1]

\* Over Bluetooth the client is closed before the data are published; a Wi-Fi
\* session stays.
ReadConfiguration(a) ==
  /\ stage[a] = "configuration"
  /\ clock' = clock + 1
  /\ IF Bluetooth
       THEN /\ work' = [work EXCEPT ![a].configuration = Read(a)]
            /\ GoesOn(a, "exiting")
            /\ UNCHANGED data
       ELSE Publish(a, [work[a] EXCEPT !.configuration = Read(a)])
  /\ UNCHANGED <<config, rest>>

\* Mutation of Tolerated: the inner try is gone.
ToleratedNever(a) == FALSE

\* Only a poll goes on without the configuration.
Tolerated(a) == a = Poll

\* Mutation of Missing: the last configuration is shown again.
MissingKept == published.configuration

\* Never present old schedules as fresh.
Missing == None

\* The configuration cannot be read.  Over Wi-Fi the session is discarded, and
\* then the telemetry is published.
NoConfiguration(a) ==
  /\ stage[a] = "configuration"
  /\ IF Tolerated(a)
       THEN /\ work' = [work EXCEPT ![a].configuration = Missing]
            /\ GoesOn(a, IF Bluetooth THEN "exiting" ELSE "discarding")
       ELSE UNCHANGED work /\ GoesOn(a, "failing")
  /\ UNCHANGED <<config, data, clock, rest>>

\* Any other request fails or does not decode, or the plan is refused.
StepFails(a) ==
  /\ stage[a] \in {"current", "planning", "telemetry"}
  /\ GoesOn(a, "failing")
  /\ UNCHANGED <<work, config, data, clock, rest>>

-----------------------------------------------------------------------------
(* Closing                                                                 *)

\* __aexit__ without an exception, or the await of async_discard, returns.
Close(a) ==
  /\ stage[a] \in {"exiting", "discarding"}
  /\ Publish(a, work[a])
  /\ UNCHANGED <<config, clock, rest>>

\* _disconnect raises or times out, and __aexit__ lets it through.
CloseFails(a) ==
  /\ stage[a] = "exiting"
  /\ Raise(a)
  /\ UNCHANGED <<config, clock, rest>>

\* The client is closed, whatever that raises, or the session discarded; then
\* the error leaves the transaction.
FailureEnds(a) ==
  /\ stage[a] = "failing"
  /\ Raise(a)
  /\ UNCHANGED <<config, clock, rest>>

\* Home Assistant cancels the task.  A Bluetooth client is still closed; a
\* Wi-Fi session is left as it is.  A write in progress may happen.
Cancel(a) ==
  /\ stage[a] \notin Over \union {"cancelling"}
  /\ cancels < MaxCancels
  /\ cancels' = cancels + 1
  /\ \/ UNCHANGED config
     \/ stage[a] = "applying" /\ Fresh(a) /\ config' = Written(a)
  /\ IF Bluetooth /\ stage[a] # "waiting"
       THEN GoesOn(a, "cancelling") /\ UNCHANGED work
       ELSE Ends(a, "cancelled")
  /\ UNCHANGED <<transport, data, clock, polls, outside>>

CancelEnds(a) ==
  /\ stage[a] = "cancelling"
  /\ Ends(a, "cancelled")
  /\ UNCHANGED <<config, data, clock, rest>>

\* The vendor's Configurator changes a field meanwhile.
ChangeOutside ==
  /\ outside < MaxOutside
  /\ outside' = outside + 1
  /\ \E f \in Fields : config' = [config EXCEPT ![Own][f] = Outside]
  /\ UNCHANGED <<transport, transaction, stage, work, data, clock, polls, cancels>>

-----------------------------------------------------------------------------
\* What asyncio and the timeouts of every await make happen.
Proceed(a) ==
  \/ Open(a) \/ OpenFails(a)
  \/ ReadCurrent(a) \/ Plan(a) \/ Apply(a) \/ ApplyFails(a)
  \/ ReadTelemetry(a) \/ ReadConfiguration(a) \/ NoConfiguration(a) \/ StepFails(a)
  \/ Close(a) \/ CloseFails(a) \/ FailureEnds(a) \/ CancelEnds(a)

Next ==
  \/ \E a \in Actors : Ask(a) \/ Proceed(a) \/ Cancel(a)
  \/ ChangeOutside

Spec == Init /\ [][Next]_vars

FairSpec == Spec /\ \A a \in Actors : WF_vars(Proceed(a))

-----------------------------------------------------------------------------
(* Properties                                                              *)

\* A slow poll never overwrites what a later transaction published: neither
\* the telemetry nor the schedules shown go back in time.
NeverOlder ==
  [][/\ published'.telemetry >= published.telemetry
     /\ (published.configuration # None /\ published'.configuration # None) =>
          published'.configuration.at >= published.configuration.at]_vars

\* The schedules shown were read after the telemetry shown with them, in the
\* same transaction, whichever requests failed.
ShownTogether ==
  published.configuration # None =>
    published.configuration.at = published.telemetry + 1

\* Nothing of another device is shown as the entry's own.
OwnShown == published.device \in {None, Own}

\* What is shown belongs together: one transaction, and one device.
ShownIsCoherent == ShownTogether /\ OwnShown

\* While nobody else edits, a field of the entry's device changes only by an
\* edit that asked for it: edits of one slot from several entities do not
\* write back each other's old values.
KeepsOtherFields ==
  [][\A f \in Fields : outside' = 0 /\ config'[Own][f] # config[Own][f] =>
       \E e \in Editors : stage[e] = "applying" /\ f \in Changes[e]]_vars

\* A caller told of success finds what it asked for on the device and on show,
\* unless the other editor has been there: no other call has undone or hidden
\* it between the write and the answer.
EditsShown ==
  [][\A e \in Editors :
       stage[e] # "verified" /\ stage'[e] = "verified" /\ outside' = 0 =>
         /\ published'.configuration # None
         /\ \A f \in Changes[e] :
              published'.configuration.slot[f] = e /\ config'[Own][f] = e]_vars

\* README.md:43-44 "restricted to model 10004, firmware 12718": over Bluetooth
\* no device but the entry's own is ever written, even when another answers at
\* its address.  Over Wi-Fi the identity is checked only after the edit.
BluetoothWritesOwn ==
  Bluetooth => \A d \in Devices \ {Own} : \A f \in Fields : config[d][f] = None

\* A poll that has read valid telemetry and no configuration, and that is not
\* cancelled, publishes the telemetry when it ends.
ShowsTelemetry ==
  /\ stage[Poll] \notin {"idle", "cancelling"} /\ stage'[Poll] = "idle"
  /\ work[Poll].telemetry # 0 /\ work[Poll].configuration = None
  /\ cancels' = cancels
  => published'.telemetry = work[Poll].telemetry

\* coordinator.py:59-60 "A missing configuration reply must not hide a valid
\* telemetry sample", whatever else fails on the way out.
TelemetryShown == [][ShowsTelemetry]_vars

\* Over Wi-Fi it does not.
WifiTelemetryShown == [][~Bluetooth => ShowsTelemetry]_vars

\* Every call that waits for the lock gets its answer.
EveryCallEnds ==
  \A a \in Actors : stage[a] = "waiting" ~> stage[a] \in Over
=============================================================================

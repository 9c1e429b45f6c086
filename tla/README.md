# TLA+ model of catch-control-ha

A verification project for the Home Assistant integration, Python library and
command line client of the CATCH Control 2CH: TLA+ specifications of its
concurrent parts, TLC configurations that check them on small instances, and
proofs, checked by TLAPS, of the theorems that matter most. Paths below are
relative to `src/`; `HA/` stands for
`home-assistant/custom_components/catch_control/`, `LIB/` for
`library/src/catch_control/`. The integration ships a copy of the library in
`HA/_vendor/catch_control` (made by `tools/build_ha.py`), byte for byte the same. The
modules about the library map the original; where a module about the integration
(`EntrySetup`, `WifiServer`, `Coordinator`, `Entities`) models a step of the library, it
maps the copy that the integration runs.

## The system

A CATCH Control is a small load controller with four schedules. It is reached in
two ways: over Bluetooth LE, where the host connects to the device, and over a
WebSocket that the *device* opens to a server it has been told of. Replies carry
no transaction identifier on either transport, and the device offers no
compare-and-swap. Most of the program's care goes into living with that.

| Component | Source | State | Operations |
| --- | --- | --- | --- |
| Schedule planner | `LIB/configuration.py`, `LIB/wifi.py` | none (frozen plans) | validate a schedule, refuse overlaps, make a plan bound to a snapshot |
| WebSocket session | `LIB/wifi.py` | `_lock`, `_failed` | telemetry, configuration, plan_schedule, apply_schedule |
| Bluetooth client | `LIB/ble.py` | `_lock`, `_configuration_lock`, `_pending`, `_expected`, `_failed`, frame buffer | connect, request, notification, disconnect, plan and apply schedule and server |
| Frames, checksum | `LIB/protocol.py`, `LIB/checksum.py` | bytes not yet framed | feed, validate, decode |
| Endpoint planner | `LIB/network.py` | none (frozen plans) | validate an endpoint, plan a change |
| Wi-Fi listener | `HA/wifi_server.py` | `_connection`, `_session`, `_connected`, one queue per connection | start, accept, hand out, discard, stop |
| Certificate store | `HA/wifi_server.py` | two files | ensure_certificate |
| Coordinator | `HA/coordinator.py` | `_transaction`, last data | poll, edit a schedule |
| Entry setup | `HA/__init__.py`, `HA/connection.py`, `HA/config_flow.py` | entry data and options, listener, the device's server | set up, retry, unload, change options |
| Entities | `HA/entity.py`, `HA/switch.py`, `HA/select.py`, `HA/time.py` | none; they show the coordinator's data | show, change a field, set_schedule |
| Command line client | `cli/src/catch_control_cli` | one active connection, a count | listen, one-shot commands |

They interact as follows. Entities call `CatchCoordinator.async_edit_schedule`,
and Home Assistant calls `_async_update_data`; both run one transaction at a time
under `_transaction`. Over Bluetooth a transaction opens and closes a
`CatchClient`; over Wi-Fi it asks `CatchWifiServer.async_session` for the current
`CatchWebSocketSession`, and discards it when something fails. The listener's
handlers, one per connection, run concurrently with all that and feed the queue
the session reads from. Setup starts the listener, may point the device at it
over Bluetooth, and then creates the coordinator.

What is hard about it: replies that come late; calls cancelled at any `await`;
connections replaced while they are in use; a write whose outcome is unknown;
setup that fails between the write of the device and the record of it; crashes;
several entries that share a directory. `PROJECT.json` lists these as hazards,
each at its line, with the property that covers it.

## Modules

| Module | Models | Properties that make it correct |
| --- | --- | --- |
| `Schedules` | schedule records, validation, the planner's refusal, plans; the controller's reading of records | (operators) |
| `ScheduleStore` | abstract: atomic edits of one slot accepted against the table they replace | `NoNewClash`, `StaysUnambiguous` |
| `Entities` | the controls of the schedule entities, polls, displays that are out of date | `OnlyAsked`, `FieldByField`, `NoNewClash` |
| `WebSocketSession` | the session: tasks, lock, poisoning, requests in flight, the three requests of `apply_schedule` | `OwnAnswer`, `VerifiedIsOnDevice`, `EditsAccepted`, `StoreSpec`, `CallsReturn` |
| `BleClient` | the Bluetooth client: tasks, two locks, fragments, notifications, failure, the writing of the whole configuration | `OwnFrame`, `StoreSpec`, `ReportsTruly` |
| `Checksum` | the checksum of a frame, bit by bit, and the definition of CRC-16/Modbus | `ChecksumIsModbus` |
| `Frames` | the layout of a frame and the frame buffer, in bytes, for any checksum | (operators) |
| `EndpointUpdate` | validation, layout, planning and applying of a server endpoint, in bytes, over a link that fragments and loses | `FramesAreGenuine`, `PlannedFromStored`, `EndpointStored` |
| `WifiServer` | the listener: connections, handlers, queues, the current session, discard, stop | `NeverSpins`, `OwnReply`, `QueueNeverStuck`, `NewestKept`, `StopLeavesNothing`, `PoisonedGoes` |
| `CertificateStore` | `ensure_certificate` and the loading of the chain, file by file | `LoadsPair`, `Retained`, and one that fails |
| `EntrySetup` | setup, retries, options and crashes of a Wi-Fi entry | `NoLeakedListener`, `LoadedAgrees`, `ListenerFirst`, `RecordsTruly`, and one that fails |
| `Coordinator` | polls and edits over both transports | `NeverOlder`, `ShownIsCoherent`, `KeepsOtherFields`, `EditsShown`, `BluetoothWritesOwn`, `WifiTelemetryShown`, `EveryCallEnds`, and one that fails |
| `CliListener` | `catch wifi-listen`: the handler of each connection, the lock, the count, the end | `CountMet`, `NothingHangs` |

`ScheduleStore`, `WebSocketSession` and `BleClient` extend `Schedules`; the two
clients instantiate `ScheduleStore` with `table <- device` and implement it.
`Entities` extends `ScheduleStore`, whose table is the device that the controls edit.
`EndpointUpdate` extends `Frames`, whose checksum is a parameter: the
configuration gives it the one of `Checksum`, which alone needs the exclusive or of
`Bitwise` and has no theorems. The `MC` modules give constants their values; the
`Proofs` modules extend the module they are about; the certificate store, which setup
uses to start a listener, is proved about in `EntrySetupProofs`.

### How the state corresponds

**WebSocketSession.** `holder` is the owner of `_lock`, `failed` is `_failed`,
`pc` and `stage` say at which `await` of which method a task is suspended, `plan`
is the `WifiSchedulePlan` it holds. `toDevice`, `toHost` and `device` are the
connection and the firmware, which are external: the firmware answers requests in
order, may or may not store a write whatever it acknowledges, and may send
something that does not decode; the connection may close and lose messages.
`sent` and the `id` of a message exist only in the model: they say which request
a reply belongs to, which the code cannot know. `fresh` is history: nobody else
has changed the table since the device last replied. One action per resumption
of a task; everything between two `await`s is one step.

**Entities.** `shown` and `success` are `coordinator.data` and
`last_update_success`; a transaction of the coordinator is one step, as `Coordinator`
has its interleavings. `Changes` is what each control passes to
`async_edit_schedule`, `Merged` the completion of the other fields from the record
read in the transaction, `Accepts` the exceptions that `ControlMode`, `Schedule` and
`plan_schedule` raise. A record whose mode or times have no word shows nothing for
that field. An edit that could not be verified may or may not be on the device, and
leaves the display as it was.

**BleClient.** `lock` and `editing` are the owners of `_lock` and
`_configuration_lock`, `expected` and `reply` are `_expected` and the future in
`_pending`, `buffer` is the frame buffer. A frame is `FrameSize` fragments in
order; a notification brings one, or two that were coalesced, so a lost fragment
shifts what follows and damages it, as the checksum would tell. `pc` separates
asking for each lock, writing chunks, awaiting the future, the pause after it,
and the disconnect after a failure, in which the connection may survive. A chunk
that fails may have left all the same. The device stores a write or not and
answers it or not; its answer is nobody's. `id` and `sent` exist only in the
model, and so does `stored`, which says that the write of the call in progress
has been stored. Connecting and discovery are left out; so is another editor. The
endpoint update takes the same locks in the same way, and is in `EndpointUpdate`.

**Frames, Checksum and EndpointUpdate.** A frame is an opcode, a payload and two bytes of
checksum; the payload of the Wi-Fi settings is laid out as in `schemas.py`, with a
shorter host field and one byte for each setting that has only to survive. `Feed` is
`FrameBuffer.feed`, `Crc16` the loop over the bits and `ModbusCrc` the division of
polynomials that CRC-16/Modbus stands for. `stage` is the `await` at which `apply_websocket_server`
is suspended, `plan` the `WifiServerPlan`, `stored` what the device keeps, `air`
the fragments under way. The device is external: it keeps a whole write or nothing,
may or may not notify, and reads a host as a C string, up to the next NUL byte
wherever that is. The reads that authenticate, which take nothing from the settings,
are left out.

**WifiServer.** `current` is `_connection` and `_session`, which always change
together; `connected` is the event. The bodies under `_connection_lock` contain
no `await`, and `asyncio.Lock` grants a free lock without suspending, so each is
part of one action. `handler` is the progress of `_async_websocket`, `queue` the
two-place message queue, `wire` what aiohttp has received and the loop has not
read. The session is reduced to `sent`, `poisoned` and whether a reply is
awaited. The coordinator's transactions are serialised, so they are one client.
After `stop` the client takes no new session up, as polling ends with the entry.

**CertificateStore.** A file holds the generation of the key pair it belongs to.
`ensure_certificate` runs in an executor thread, so each file operation is a step;
`os.replace` makes each replacement atomic.

**EntrySetup.** An endpoint stands for host and port, and the two server slots of
the device, always written together, are one value (their bytes are in
`EndpointUpdate`). `data` and `options` are the
config entry, `disk` what survives a crash. The steps of setup are its `await`s:
start the listener, plan, check, write, verify, first refresh. Home Assistant is
external: it saves an entry a second after it changes, and `Write` relies on the
entry having been saved by then, because a Bluetooth connection, four reads and
the two-second wait after the write take longer. Polling keeps a loaded entry's
session alive elsewhere; here a refresh succeeds only if the device points at the
listener. The three places of `async_setup_entry` that stop the server after a
failure do the same and are one action. The address the listener binds to is left
out, and with it the branch that records a new one while the endpoint stays: it
changes nothing that setup compares or writes to the device.

**Coordinator.** `transaction` is the lock with its queue, `stage` the `await` a
call is at, `work` its local variables, `published` and `success` the data and
`last_update_success` of `DataUpdateCoordinator`. The lock's release and the
publication have no `await` between them and are one step. The value of a field
is who wrote it last; `clock` numbers the samples read. The client or session
below is seen through its promises: a plan is refused when the configuration has
changed, and an apply that fails may have written. `transport` is the entry's: where the identity is checked, whether leaving can fail, and whether a
failed session is discarded. `EditsShown` compares the reading that a successful edit
publishes with what it asked for. A Bluetooth entry is taken to have a password;
without one `async_edit_schedule` raises before anything else.

**CliListener.** `handler` is the progress of `handler` in `listen`, one per
connection; `active` says who owns the `asyncio.Lock`, which the code tests and takes
without an `await` in between, so that a second connection is refused with 1013 and
never queues. `samples` and `count` are the count so far and the one asked for,
`finished` and `failed` the event and `terminal_error`, `main` and `status` the rest of
`listen` and the exit status of `main`. A peer is up, silent with its socket open (a
device that lost its Wi-Fi) or closed.

## Runs

| Run | Checks | Bounds |
| --- | --- | --- |
| `entities` | `TypeOK`, `FieldByField`, `NoNewClash`, `OnlyAsked` | 2 slots, 4 minutes plus one past the day, active byte 0 to 2, an unknown mode; one unverified edit before the next successful poll or edit |
| `endpoint_bytes` | `FramesAreGenuine`, `PlannedFromStored`, `EndpointStored`, `ChecksumIsModbus` | fields of 4 bytes, frames in 3 fragments, 8 hosts and 7 ports at the edges, 6 payloads; the vendor's app changes one setting |
| `cli_listener` | `CountMet`, `NothingHangs` under fairness | 3 connections, a count of 1, of 2 or none, 3 samples |
| `session_external` | `TypeOK`, `OwnAnswer`, `VerifiedIsOnDevice` and `EditsAccepted` with another editor, `CallsReturn` under fairness | 2 tasks, 3 calls, 2 slots, two windows that overlap, one table that the other editor may save |
| `ble_client` | `TypeOK`, `OwnFrame`, `ReportsTruly`, refinement `StoreSpec` | 2 tasks, 4 calls, 2 slots, frames of 2 fragments, two windows that overlap |
| `entry_setup` | the properties of `EntrySetup` that hold | 2 endpoints and the vendor's; no bound on steps |
| `entry_previous` | violation, see below | the same |
| `certificate_single` | `LoadsPair`, `Retained` | one start at a time, 7 generations |
| `certificate_two` | violation, see below | two starts, 2 generations |
| `server` | the properties of `WifiServer`, `PoisonedGoes` under fairness | 2 connections, 3 requests each, 2 cancellations |
| `coordinator` | the properties of `Coordinator` that hold, `EveryCallEnds` under fairness | either transport, one edit of one field and one of both, 2 polls, 2 devices, 1 change by another editor, 1 cancellation |
| `coordinator_hidden` | violation, see below | the same with nobody else and no cancellation |

The types of `CertificateStore`, `CliListener`, `Coordinator` and `EndpointUpdate` are
proved and need no run. `StoreSpec` of the session is proved for the case of no other
editor; the run, which has one, checks `EditsAccepted`, what is left of it then.

Why the bounds suffice. Two tasks are enough for one to be between its freshness
read and its write while the other plans, and four calls let both plan and both
apply; three let one plan and apply while the other is in its way. Frames of two
fragments let half a reply remain in the buffer; where a fragment is made of bytes
there are three, so that one may be lost in the middle. Four minutes hold two windows
that touch, that overlap, that are apart, and one that runs overnight or past the
end. Two connections give a current and a replaced one; a third would be
replaced in the same way. Three requests on a connection leave two stale replies
behind, which is what fills the two-place queue once poisoning is removed. Three
connections of the command line listener are one that holds the lock, one that is
refused and one that takes over. Two edits and two polls let any transaction overtake
any other. The state spaces are finite and explored completely; where a run says
`CHECK_DEADLOCK FALSE` the system may really stop: the calls are used up, the
connection is closed, or the server or the listener has ended. Symmetry is used for
the tasks of `ble_client` and the slots of `entities` only, which check no liveness.

Every property of a passing run has a mutant: an operator beside the original,
called "Mutation of ..." in its comment, which changes the model as a plausible
bug would change the code (a dropped guard, a comparison of one slot in place of
all, a missing reset) and with which TLC finds the property violated.

### What the code does otherwise than it says

1. `entry_previous`: if the first write of the endpoint takes effect but cannot be
   verified, the retry finds Home Assistant's own endpoint in the device and
   records that as the previous server. The vendor's server is lost, though it is
   to be "retained ... when Wi-Fi mode first configures the device".
2. `certificate_two`: two entries that start together for the first time may
   leave the key of one pair with the certificate of the other. Both files exist,
   so no later start repairs them, and none can load them.
3. `coordinator_hidden`: over Bluetooth, a poll whose configuration read fails goes
   on with its telemetry, but leaving the client disconnects again, and if that
   fails the poll fails: the missing configuration hides the telemetry after all.

Two more are only described. Over Wi-Fi `_async_edit_schedule_wifi` applies the edit
before it checks the identity of the device on the session; `BluetoothWritesOwn` holds
of Bluetooth alone, where the check comes first. And when the options go from endpoint
A to B, a write of B cannot be verified, and the options go back to A, then
`endpoint_changed` compares with the entry, sees no change and makes no Bluetooth
update, while the device may still point at B: such an entry is retried, and does not
load before the device points at A (`LoadedAgrees`).

The model of entry setup also shows that options saved while setup is in progress
start no reload, because the update listener is added at the end of setup; the
hazard is listed, and no property of a passing run claims otherwise.

### Fairness

`session_external`: asyncio runs ready tasks and fires timeouts (weak fairness of
`Abort` and `Refuse`), and `asyncio.Lock` wakes waiters in order, so that a waiter
is not passed over for ever (strong fairness of `Acquire`). Nothing is assumed of
the device: it may never answer. `server`: handlers of closed sockets end, the
ten-second waits end, a transaction's request ends by its timeout at the latest,
and polls recur. `cli_listener`: what is ready runs, `asyncio.sleep` and the timeout
of a request end, and leaving `serve` closes every connection (weak fairness of
`Handle`, `Finish`, `CloseConnection` and `End`); nothing is assumed of a peer, which
may be silent for ever. `coordinator`: each `await` of a transaction is bounded by a
timeout of the layer below (45 s for a session, 30 s to connect, 10 s for a
request, 5 s to disconnect), so a call that has its turn proceeds; the lock is a
queue in the model, and needs no fairness of its own.

## Proofs

Each theorem holds for every value of the constants that satisfies the named
assumptions of its module: any number of slots and tasks, any length of the day,
any modes, tables and endpoints.

* `EntitiesProofs`, of the store first. `AcceptedAddsNoClash` carries the argument:
  the planner compares closed windows with the verified windows of the other slots,
  the controller matches half-open ones, and two closed windows that do not touch
  share no minute; an edit that leaves its slot as it was, or turns it off, adds
  no match. From it follow `EditsAddNoClash` and, if the initial tables are
  unambiguous, `StoreStaysUnambiguous`. Then of the controls: each leads to an edit
  that is validated as a whole and planned against the table as it is, whatever is on
  show, so `ControlsAddNoClash` follows by the same lemma, and `ControlsChangeOnlyAsked`
  from what `ToWire` keeps. `FieldByFieldWorks` needs no
  invariant but the types: while a slot is off any fields make a valid schedule that is
  never refused, each edit reads back what the one before it wrote, and the last, which
  switches the slot on, is judged against the other slots, which none of the five
  touched. The tables between them are a recursive function, of which the prover knows
  nothing until the function it defines is exhibited (`FieldByFieldHolds`).
* `WebSocketSessionProofs`. `OwnAnswer` is not inductive: that a reply is the
  caller's own depends on what is still under way. `ChannelInv` adds that only the
  holder of the lock is past it, that at most one message is in flight, that none
  is when a usable session is not waiting for one, that a poisoned session
  receives nothing, and that what is in flight carries the number of the last
  request. `FreshInv` says that a reply in flight shows the table as it is unless
  another editor saved since; `PlanReady` that apply has a plan. With them
  `VerifiedEditsAreStored` follows. `EditInv` says that a write on its way was
  accepted against the table that is still in the device, unless another editor saved
  since the reply to the freshness check; it gives `EditsAreAccepted`. With no other
  editor that exception never comes, and `SessionImplementsStore` follows. With one the
  refinement is false, as the README of the library warns: what the editor saves
  between that reply and the write is not seen before the readback.
* `BleClientProofs`. `OwnFrame` is not inductive: a request takes whatever frame is
  completed with the opcode it expects. `ClientInv` has six parts besides the types.
  `LockInv` and `FutureInv`: who is inside a request holds `_lock`, who is inside an
  apply holds `_configuration_lock`, and the future is there while its request is, with
  that request's opcode. `ChannelInv` carries the argument: while the client
  has not failed, nothing of a read is under way but of the one that is being received,
  and its fragments come in order, so a frame that completes a request is its answer
  and leaves nothing of a read behind it, in the buffer or on its way. The device's answer to
  a write is nobody's, and may be anywhere. After a failure no request is under way.
  `PlanInv`: an apply has a plan, accepted against the table it was read from.
  `WriteInv`: from the freshness read to the write the table stays as the plan was made
  from, because only an apply writes and only one is at work; there is one write at
  most, and it comes before any read sent after it. `StoredInv`: nothing is
  stored for an edit before it comes to its write. The lemmas under them are about
  `FrameBuffer`: what feeding leaves is the end of what came in
  (`RemainderIsSuffix`), and fragments that start a frame complete it whole
  (`FedIsWhole`). From `ClientInv` follow `RepliesAreOwn`, `ClientImplementsStore` and
  `ReportsAreTrue`, for any tasks, calls, slots and fragments in a frame. There is no
  other editor; the freshness read and the write are not one step, so with one the
  refinement would be false, as it is for the session.
* `EntrySetupProofs`. `EntryInv` adds to the types that a setup in progress has
  read a target, that from the first `await` of Bluetooth on the listener is on
  that target and before it there is none, that an entry refreshing or loaded has
  recorded the target, and that a loaded one was refreshed by a device that
  points at it. No single conjunct is inductive alone: the record needs the
  target, and the target needs the phase. It gives `ListenerNeverLeaks`,
  `LoadedEntryAgrees`, `DevicePointedAtListener` and `RecordIsTrue`.
* `CliListenerProofs`. `ListenerInv`: only the handler that reads or sleeps holds the
  lock, it reads only while samples are wanted, the event is set only once the count
  is met or something failed, and nothing is left when the command has ended.
  `CountIsMet` needs them together: a new connection that gets the lock after the
  last sample reads nothing, since the count is looked at first.
* The certificate store, in `EntrySetupProofs`. For one start at a time (`OneStart`), `CertificateInv`:
  the key is replaced first, so a certificate that exists has its key
  (`CertificateHasKey`), and a pair is made only while there is none (`MadeOnce`),
  wherever a crash falls. With two starts the assumption fails, and so does the
  property (`certificate_two`).
* `WifiServerProofs`. `ServerInv` says of every connection that at most one reply is
  under way on it, with the device, on the wire or in the queue (`OneReply`), and none
  when its session is usable and not waiting (`Quiet`); that a handler which has ended
  leaves a closed socket and, to whoever waits, an item; and that the current
  connection has a live handler (`Live`). That a reply is the caller's own
  (`ReplyIsOwn`) and that two places suffice (`QueueIsNeverStuck`) are both
  consequences of one reply at most, which poisoning alone maintains: abandon a
  request and nothing more is sent on that connection.
* `CoordinatorProofs`. `CoordinatorInv` has four parts: the queue of the lock holds a
  call once and a busy call is its head (`LockInv`); what each busy call has
  established so far, such as that the record it merged from is still the device's
  while nobody else edits (`WorkInv`); that what it has read is newer than what is
  shown (`SampleInv`); and that what is shown belongs together (`ShownInv`). From
  mutual exclusion and these follow `ShownNeverOlder`, `OtherFieldsKept`,
  `EditsAreShown`, `OnlyOwnWritten`, `ShownBelongsTogether` and `WifiShowsTelemetry`,
  for any number of editors, fields, devices, polls and cancellations.

* `EndpointUpdateProofs`, for any sizes of the fields and fragments, any hosts, ports
  and settings, and any checksum. `UpdateInv` has four parts besides the types.
  `LinkInv`: what is on the link and in the buffer are sequences of bytes. `ReplyInv`
  carries the argument: while a read before the write is waiting, the link holds the
  last fragments of one reply (`UnderWay`), and the buffer its beginning, or less if
  some of it was lost. Nothing else can fill the gap, so that what is as long as a frame
  is the reply, whole (`CompleteIsWhole`), and nothing comes after it (`NotifiedIs`);
  the reply to the freshness read, asked for once nothing else changes the settings, is
  what is stored. `PlanInv`: the plan is what `plan_websocket_server` makes of an
  endpoint it accepts. `StoredInv`: at the write the device holds the original, and
  after it the original or the update. `PlanIsFromStored` follows from it: before the
  write not even the checksum is needed. The readback is different, since the device may
  have answered the write, and the rest of that answer may run into the reply:
  `EndpointIsStored` is proved under the hypothesis that the frames put together are
  frames the device has sent, `[]FramesAreGenuine`, which the run checks of the
  instance. Its lemmas are about the layout: a text ends at the first NUL, and one that
  is shorter than its field had a NUL there (`TextIs`, `TextWas`), a port that the
  validation accepts comes back from its two bytes (`PortIs`), and the updated payload is
  known byte by byte (`UpdatedIs`, `UpdatedReads`, `OthersStay`). That a bounded set of
  naturals has a least element, which `Min` needs, is taken from the well-foundedness of
  strict inclusion among its initial parts (`LeastExists`), without an induction.

Only model-checked: liveness (`CallsReturn`, `PoisonedGoes`, `EveryCallEnds` and
`NothingHangs`; fairness is out of the prover's reach); `ChecksumIsModbus`, which is an
induction over data with bitwise operations, that the prover does not know; and
`FramesAreGenuine`, which is true of the frames of the instance and not of all: two
answers may by chance make a frame with a right checksum. The three properties that
fail are of course not proved.

## Not modelled

* Decoding of telemetry and configuration beyond the schedule records, the forms of
  the flows, logging and redaction: layout and wording. The sensors show a value of
  the coordinator's data each.
* The one-shot commands of the command line client: each calls one method of
  `CatchClient` and prints.
* Discovery and the choice of a Bluetooth adapter (`HA/connection.py`,
  `CatchClient.__aenter__`): they end in a connected client or an exception, which is
  how `BleClient` begins and how `Coordinator` and `EntrySetup` see them.
* The migration of version 1 entries, which sets one key, and entries over Bluetooth,
  whose setup is a first refresh.
* The research scripts and the build tool, which are not part of the product.
* Time. A race of two durations is not seen: the new session is handed out while the
  old connection may take as long to close as the first request may wait.
* The classes of exceptions, beyond what a handler tells apart: over Wi-Fi a timeout
  after the schedule write was sent is not a `WriteVerificationError`, while it is one
  over Bluetooth. A property about it would restate the missing `except`.

## Plan

Done: the planner and its store, the entities, the session, the Bluetooth client, the clients
with their refinement; frames and the endpoint update in bytes; the listener of the
integration, that of the command line, the certificate store, entry setup and the
coordinator; proofs of all of them but of the checksum. Left, in this order:

1. Connecting over Bluetooth, and the liveness of the two nested locks of `BleClient`,
   for which the present instance is too large.
2. `Coordinator` composed with `WifiServer`: the discard of one transaction against
   the arrival of the next session, with several cancellations.
3. `BleClient` with another editor between the freshness read and the write.
4. The one-shot commands, for the exit status after an unverified write.

------------------------------ MODULE EntrySetup ------------------------------
(***************************************************************************)
(* A Wi-Fi config entry of the Home Assistant integration: setting it up,  *)
(* retrying, unloading, changing its options, and crashes of the host.     *)
(* Setup starts a TLS listener and, when the entry has never been          *)
(* configured or its endpoint has changed, points the device at it over    *)
(* authenticated Bluetooth (plan, check, write, readback).                 *)
(*                                                                         *)
(* An endpoint stands for a host and a port; both server slots of the      *)
(* device are always written together and are one value here.              *)
(* Home Assistant (external) retries a failed setup, saves its entries to  *)
(* disk a second after they change, and loses unsaved changes in a crash.  *)
(***************************************************************************)
EXTENDS Naturals

CONSTANTS
  Endpoints,  \* host and port pairs that Home Assistant may advertise
  Vendor,     \* the server the device is sent with
  None        \* no endpoint: no listener, no option, nothing recorded

ASSUME EntryAssumption ==
  /\ Vendor \notin Endpoints
  /\ None \notin Endpoints \union {Vendor}

VARIABLES
  data,       \* entry.data: the endpoint, whether the device was pointed at
              \* it, and the server that was there before
  options,    \* entry.options: the endpoint wanted (None until the options
              \* are first saved) and whether a password is stored
  disk,       \* the copies of data and options that survive a crash
  phase,      \* where setup is, or the state of the entry
  target,     \* server_host and server_port, read when setup starts
  before,     \* plan.before: the device's server when the plan was made
  listener,   \* the endpoint CatchWifiServer listens on
  reload,     \* the update listener has been called
  server      \* the server stored in the device

vars == <<data, options, disk, phase, target, before, listener, reload, server>>
entry == <<data, options, disk>>

Servers == Endpoints \union {Vendor}
Setting == {"starting", "planning", "checking", "writing", "verifying", "refreshing"}
Data == [endpoint: Endpoints, configured: BOOLEAN, previous: Servers \union {None}]
Options == [endpoint: Endpoints \union {None}, password: BOOLEAN]

TypeOK ==
  /\ data \in Data
  /\ options \in Options
  /\ disk \in [data: Data, options: Options]
  /\ phase \in Setting \union {"notloaded", "retry", "loaded", "failed"}
  /\ target \in Endpoints \union {None}
  /\ before \in Servers \union {None}
  /\ listener \in Endpoints \union {None}
  /\ reload \in BOOLEAN
  /\ server \in Servers

\* CatchConfigFlow._create has just made the entry, and it is on disk.
Init ==
  /\ \E e \in Endpoints :
       data = [endpoint |-> e, configured |-> FALSE, previous |-> None]
  /\ options = [endpoint |-> None, password |-> TRUE]
  /\ disk = [data |-> data, options |-> options]
  /\ phase = "notloaded"
  /\ target = None
  /\ before = None
  /\ listener = None
  /\ reload = FALSE
  /\ server = Vendor

-----------------------------------------------------------------------------
(* async_setup_entry                                                       *)

\* Mutation of Advertised: no fallback to the entry's data.
AdvertisedOption == options.endpoint

\* entry.options.get(CONF_SERVER_HOST, entry.data[CONF_SERVER_HOST]), and port
Advertised == IF options.endpoint = None THEN data.endpoint ELSE options.endpoint

StartSetup ==
  /\ phase \in {"notloaded", "retry"}
  /\ phase' = "starting"
  /\ target' = Advertised
  /\ before' = None
  /\ reload' = FALSE
  /\ UNCHANGED <<entry, listener, server>>

\* Mutation of Released: a cancelled setup leaves the listener running.
ReleasedOnError(outcome) == outcome = "retry"

\* The outcomes of a setup that stop the listener: an exception, which becomes
\* ConfigEntryNotReady and has Home Assistant try again, and a cancellation.
Released(outcome) == outcome \in {"retry", "notloaded"}

GiveUp(outcome) ==
  /\ phase' = outcome
  /\ listener' = IF Released(outcome) THEN None ELSE listener
  /\ UNCHANGED <<entry, target, before, reload, server>>

\* A port in use, a certificate that does not load, no password; Bluetooth
\* that finds no device or another one, a wrong password, settings changed
\* after planning; a readback that fails or differs; no first sample.
SetupFails == phase \in Setting /\ GiveUp("retry")

SetupCancelled == phase \in Setting /\ GiveUp("notloaded")

\* not CONF_ENDPOINT_CONFIGURED or endpoint_changed
NeedsBluetooth == ~data.configured \/ target # data.endpoint

\* Mutation of ListenerStarted: the device is written before the listener is up.
BluetoothFirst ==
  /\ phase = "starting"
  /\ IF NeedsBluetooth
     THEN options.password /\ phase' = "planning" /\ listener' = None
     ELSE phase' = "refreshing" /\ listener' = target
  /\ UNCHANGED <<entry, target, before, reload, server>>

\* await server.async_start(), then Bluetooth or straight to the first refresh.
ListenerStarted ==
  /\ phase = "starting"
  /\ listener' = target
  /\ IF NeedsBluetooth
     THEN options.password /\ phase' = "planning"
     ELSE phase' = "refreshing"
  /\ UNCHANGED <<entry, target, before, reload, server>>

\* client.plan_websocket_server
Planned ==
  /\ phase = "planning"
  /\ before' = server
  /\ phase' = "checking"
  /\ UNCHANGED <<entry, target, listener, reload, server>>

\* Mutation of FirstPrevious: every endpoint change records what it replaces.
LastPrevious == before

\* entry.data.get('previous_server1', before.primary_host), and its siblings
FirstPrevious == IF data.previous = None THEN before ELSE data.previous

\* Mutation of Updated: the entry is not marked as configured.
UpdatedUnmarked ==
  [endpoint |-> target, configured |-> data.configured, previous |-> FirstPrevious]

Updated == [endpoint |-> target, configured |-> TRUE, previous |-> FirstPrevious]

\* configure_websocket_server returns and the entry records the endpoint.
Record ==
  /\ data' = Updated
  /\ phase' = "refreshing"
  /\ UNCHANGED <<options, disk, target, before, listener, reload, server>>

\* apply_websocket_server, first part: the fresh snapshot equals the planned
\* one; when it already names the endpoint there is nothing to write.
Unneeded == phase = "checking" /\ server = before /\ server = target /\ Record

Checked ==
  /\ phase = "checking"
  /\ server = before
  /\ server # target
  /\ phase' = "writing"
  /\ UNCHANGED <<entry, target, before, listener, reload, server>>

\* _write_configuration: the device stores the settings, or does not.  The two
\* seconds it waits, after a connection and four reads, are more than the one
\* second after which the entry has been saved.
Write ==
  /\ phase = "writing"
  /\ disk = [data |-> data, options |-> options]
  /\ server' \in {server, target}
  /\ phase' = "verifying"
  /\ UNCHANGED <<entry, target, before, listener, reload>>

\* Mutation of ReadbackMatches: the acknowledgement is trusted.
NoReadback == TRUE

\* The readback's payload is the updated one.
ReadbackMatches == server = target

Verified == phase = "verifying" /\ ReadbackMatches /\ Record

\* The first refresh needs a session, and a device connects only to the
\* server it has stored.  Then the update listener is added.
Refreshed ==
  /\ phase = "refreshing"
  /\ server = listener
  /\ phase' = "loaded"
  /\ UNCHANGED <<entry, target, before, listener, reload, server>>

-----------------------------------------------------------------------------
(* Unloading, options, crashes                                             *)

\* async_unload_entry: the listener is stopped when every platform has gone.
Unload ==
  /\ phase = "loaded"
  /\ \/ phase' = "notloaded" /\ listener' = None
     \/ phase' = "failed" /\ UNCHANGED listener
  /\ reload' = FALSE
  /\ UNCHANGED <<entry, target, before, server>>

\* CatchOptionsFlow.async_step_init: a changed endpoint needs a password, which
\* the flow has probed; the update listener exists only while the entry is
\* loaded.
ChangeOptions(e, password) ==
  /\ e # Advertised => password
  /\ options' = [endpoint |-> e, password |-> password]
  /\ options' # options
  /\ reload' = (reload \/ phase = "loaded")
  /\ UNCHANGED <<data, disk, phase, target, before, listener, server>>

\* Home Assistant writes its entries (external).
Save ==
  /\ disk' = [data |-> data, options |-> options]
  /\ disk' # disk
  /\ UNCHANGED <<data, options, phase, target, before, listener, reload, server>>

\* The host stops and starts again (external).
Crash ==
  /\ data' = disk.data
  /\ options' = disk.options
  /\ phase' = "notloaded"
  /\ target' = None
  /\ before' = None
  /\ listener' = None
  /\ reload' = FALSE
  /\ UNCHANGED <<disk, server>>

Next ==
  \/ StartSetup \/ SetupFails \/ SetupCancelled
  \/ ListenerStarted \/ Planned \/ Unneeded \/ Checked \/ Write \/ Verified
  \/ Refreshed \/ Unload
  \/ \E e \in Endpoints, password \in BOOLEAN : ChangeOptions(e, password)
  \/ Save \/ Crash

Spec == Init /\ [][Next]_vars

-----------------------------------------------------------------------------
(* Properties                                                              *)

\* async_setup_entry's two except blocks: an entry that is not loaded and not
\* being set up never keeps the port, whichever step failed or was cancelled.
NoLeakedListener == phase \in {"notloaded", "retry"} => listener = None

\* home-assistant/README.md:43-45: "HA starts its TLS listener first": the
\* device is pointed only at an endpoint where the listener is up.
ListenerFirst == [][server' # server => listener = server']_vars

\* The entry records an endpoint only when the device has been seen to hold it.
RecordedIsStored ==
  [][data' # data /\ data' # disk.data => data'.endpoint = server']_vars

\* The recorded previous server outlives every later endpoint change.
PreviousKept ==
  [][data.previous # None /\ data' # disk.data => data'.previous = data.previous]_vars

\* The record that a later start or a return to the vendor goes by is true: of
\* the present endpoint, and of the server before.
RecordsTruly == RecordedIsStored /\ PreviousKept

\* A loaded entry, the listener and the device agree on the endpoint, whatever
\* happened to earlier attempts to change it.
LoadedAgrees ==
  phase = "loaded" =>
    data.configured /\ data.endpoint = server /\ listener = server

\* home-assistant/README.md:62-63: the previous server is what the device had
\* "when Wi-Fi mode first configures the device".
PreviousIsOriginal == data.previous \in {None, Vendor}
=============================================================================

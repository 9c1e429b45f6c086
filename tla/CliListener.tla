----------------------------- MODULE CliListener -----------------------------
(***************************************************************************)
(* The command line listener (catch_control_cli/wifi_server.py): a TLS     *)
(* server that reads telemetry from one connection at a time, prints each  *)
(* sample, and ends when the requested count is met, a reading fails, or   *)
(* it is interrupted.  Unlike the listener of the integration it turns a   *)
(* second connection away and keeps the first.                             *)
(*                                                                         *)
(* One handler runs per connection, between its awaits without             *)
(* interruption.  The websockets library and the device are external: a    *)
(* peer answers, closes, or falls silent with its socket open, as a device *)
(* does that has lost its Wi-Fi and connects again.                        *)
(***************************************************************************)
EXTENDS Naturals

CONSTANTS
  Connections,  \* connections made to the listener, each once
  Counts,       \* values of --count
  Unlimited,    \* no --count
  None,         \* the lock is free, or the command still runs
  MaxSamples    \* bound: samples the device answers with

ASSUME ListenerAssumption ==
  /\ Counts \subseteq Nat \ {0}
  /\ Unlimited \notin Nat
  /\ None \notin Connections \union {0, 1}
  /\ MaxSamples \in Nat

VARIABLES
  count,        \* args.count
  main,         \* listen serves, or leaves after the event or an interrupt
  status,       \* the exit status of the command, None while it runs
  active,       \* the handler that holds the lock
  samples,      \* samples printed
  finished,     \* the event
  failed,       \* terminal_error is not None
  handler,      \* where the handler of each connection is
  peer          \* each connection as its peer left it

vars == <<count, main, status, active, samples, finished, failed, handler, peer>>
shared == <<samples, finished, failed>>
process == <<count, main, status>>

TypeOK ==
  /\ count \in Counts \union {Unlimited}
  /\ main \in {"serving", "closing", "interrupted"}
  /\ status \in {None, 0, 1}
  /\ active \in Connections \union {None}
  /\ samples \in 0..MaxSamples
  /\ finished \in BOOLEAN /\ failed \in BOOLEAN
  /\ handler \in [Connections -> {"absent", "opened", "refusing", "reading",
                                  "sleeping", "done"}]
  /\ peer \in [Connections -> {"up", "silent", "closed"}]
  /\ \A c \in Connections : handler[c] \in {"reading", "sleeping"} <=> active = c

Init ==
  /\ count \in Counts \union {Unlimited}
  /\ main = "serving" /\ status = None
  /\ active = None
  /\ samples = 0 /\ finished = FALSE /\ failed = FALSE
  /\ handler = [c \in Connections |-> "absent"]
  /\ peer = [c \in Connections |-> "up"]

-----------------------------------------------------------------------------
(* The handler of one connection                                           *)

\* Mutation of Wanted: the loop never looks at the count.
WantedAlways(n) == TRUE

\* The loop condition.
Wanted(n) == count = Unlimited \/ n < count

\* Mutation of Returns: the lock is not released.
ReturnsHolding(c) ==
  handler' = [handler EXCEPT ![c] = "done"] /\ UNCHANGED active

\* The handler returns, and gives the lock back if it has it.
Returns(c) ==
  /\ handler' = [handler EXCEPT ![c] = "done"]
  /\ active' = IF active = c THEN None ELSE active

\* The loop begins again: send raises ConnectionClosed on a closed connection.
Reads(c) ==
  IF Wanted(samples) /\ peer[c] # "closed"
    THEN handler' = [handler EXCEPT ![c] = "reading"] /\ active' = c
    ELSE Returns(c)

\* The handshake is over; process_request lets only the path /srwe through.
Connect(c) ==
  /\ main = "serving"
  /\ handler[c] = "absent"
  /\ handler' = [handler EXCEPT ![c] = "opened"]
  /\ UNCHANGED <<process, active, shared, peer>>

\* Between the test of the lock and taking it there is no await.
Start(c) ==
  /\ handler[c] = "opened"
  /\ IF active = None THEN Reads(c)
     ELSE handler' = [handler EXCEPT ![c] = "refusing"] /\ UNCHANGED active
  /\ UNCHANGED <<process, shared, peer>>

\* close(1013) has closed the connection, or given up after three seconds.
Refused(c) ==
  /\ handler[c] = "refusing"
  /\ Returns(c)
  /\ peer' = [peer EXCEPT ![c] = "closed"]
  /\ UNCHANGED <<process, shared>>

\* A sample arrives and is printed; then the count is met, or it sleeps.
Sample(c) ==
  /\ handler[c] = "reading" /\ peer[c] = "up"
  /\ samples < MaxSamples
  /\ samples' = samples + 1
  /\ IF Wanted(samples')
       THEN /\ handler' = [handler EXCEPT ![c] = "sleeping"]
            /\ UNCHANGED <<active, finished>>
       ELSE finished' = TRUE /\ Returns(c)
  /\ UNCHANGED <<process, failed, peer>>

\* Any exception but ConnectionClosed ends the listener with it.
Fails(c) ==
  /\ finished' = TRUE /\ failed' = TRUE
  /\ Returns(c)
  /\ UNCHANGED <<process, samples, peer>>

\* A reply that does not decode.
Malformed(c) == handler[c] = "reading" /\ peer[c] = "up" /\ Fails(c)

\* Mutation of TimedOut: the timeout covers the sending alone.
TimedOutNever(c) == handler[c] = "opened" /\ Fails(c)

\* The request's timeout covers sending and receiving.
TimedOut(c) == handler[c] = "reading" /\ Fails(c)

\* recv raises ConnectionClosed: the listener waits for the device to return.
ConnectionLost(c) ==
  /\ handler[c] = "reading" /\ peer[c] = "closed"
  /\ Returns(c)
  /\ UNCHANGED <<process, shared, peer>>

\* asyncio.sleep(interval) ends.  Nothing watched the connection meanwhile.
Woken(c) ==
  /\ handler[c] = "sleeping"
  /\ Reads(c)
  /\ UNCHANGED <<process, shared, peer>>

-----------------------------------------------------------------------------
(* listen and main                                                         *)

\* finished.wait() returns, and leaving "async with serve" closes the server.
Finish ==
  /\ main = "serving" /\ finished
  /\ main' = "closing"
  /\ UNCHANGED <<count, status, active, shared, handler, peer>>

\* Ctrl-C cancels the wait instead.
Interrupt ==
  /\ main = "serving"
  /\ main' = "interrupted"
  /\ UNCHANGED <<count, status, active, shared, handler, peer>>

\* The server closes each connection, and the handlers find it closed.
CloseConnection(c) ==
  /\ main # "serving"
  /\ handler[c] # "absent" /\ peer[c] # "closed"
  /\ peer' = [peer EXCEPT ![c] = "closed"]
  /\ UNCHANGED <<process, active, shared, handler>>

\* Mutation of ExitStatus: the error of the handler is not raised again.
ExitStatusZero == 0

\* listen raises terminal_error and main returns 1; KeyboardInterrupt is no error.
ExitStatus == IF main = "closing" /\ failed THEN 1 ELSE 0

\* The server has waited for its handlers.
End ==
  /\ main # "serving" /\ status = None
  /\ \A c \in Connections : handler[c] \in {"absent", "done"}
  /\ status' = ExitStatus
  /\ UNCHANGED <<count, main, active, shared, handler, peer>>

-----------------------------------------------------------------------------
(* The peer (external)                                                     *)

\* It falls silent with its socket open, or the socket closes.
Lose(c) ==
  /\ handler[c] # "absent"
  /\ \/ peer[c] = "up" /\ peer' = [peer EXCEPT ![c] = "silent"]
     \/ peer[c] # "closed" /\ peer' = [peer EXCEPT ![c] = "closed"]
  /\ UNCHANGED <<process, active, shared, handler>>

Handle(c) ==
  \/ Start(c) \/ Refused(c) \/ TimedOut(c) \/ ConnectionLost(c) \/ Woken(c)

Next ==
  \/ \E c \in Connections :
       \/ Connect(c) \/ Handle(c) \/ Sample(c) \/ Malformed(c)
       \/ CloseConnection(c) \/ Lose(c)
  \/ Finish \/ Interrupt \/ End

Spec == Init /\ [][Next]_vars

\* asyncio runs what is ready, sleeps and timeouts end, the server closes.
FairSpec ==
  /\ Spec
  /\ \A c \in Connections : WF_vars(Handle(c)) /\ WF_vars(CloseConnection(c))
  /\ WF_vars(Finish) /\ WF_vars(End)

-----------------------------------------------------------------------------
(* Properties                                                              *)

\* wifi_server.py:30 "until interrupted or the requested count is met": no
\* sample too many is printed, though the count runs over several connections
\* and a new one may get the lock after the last sample; and the command exits
\* with status 0 only when the count was met or it was interrupted.
CountMet ==
  /\ count # Unlimited => samples <= count
  /\ status = 0 => main = "interrupted" \/ samples = count

\* A connection that is gone does not keep later ones out for ever: its handler
\* gives up the lock, asleep or waiting for an answer as it may be.
DeadReleased ==
  \A c \in Connections : active = c /\ peer[c] # "up" ~> active # c

\* Every handler then ends, and the command with them.
ListenEnds == finished ~> status # None

NothingHangs == DeadReleased /\ ListenEnds
=============================================================================

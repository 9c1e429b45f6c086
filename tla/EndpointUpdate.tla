---------------------------- MODULE EndpointUpdate ----------------------------
(***************************************************************************)
(* Pointing a device at a server, byte by byte: the validation of a host   *)
(* and a port, the layout of the Wi-Fi settings, the plan (network.py),    *)
(* and the read, freshness read, write and readback of                     *)
(* apply_websocket_server (ble.py) over a link that cuts frames into       *)
(* fragments and loses some.                                               *)
(*                                                                         *)
(* Of the settings the addresses, the passwords and the extension are one  *)
(* byte each, which stands for bytes that have to survive; the reads that  *)
(* authenticate, before the plan and before the update, are left out.  The *)
(* device is external: it keeps a whole frame or nothing of a write, and   *)
(* reads a host as a C string.                                             *)
(***************************************************************************)
EXTENDS Frames, FiniteSetsExt

CONSTANTS
  HostSize,   \* the bytes of a server field (30 in the code)
  Hosts,      \* hosts asked for, as the bytes of their text
  Ports,      \* ports asked for
  Settings,   \* payloads the device may hold at first
  Fragment,   \* the bytes of one notification
  None        \* no plan, no result

\* How a call may end, and what a WifiServerPlan consists of.
Results == {"rejected", "unbuildable", "protocol", "conflict",
            "unchanged", "written", "unverified", "failed"}
Plans == [original : Seq(0..255), updated : Seq(0..255)]

ASSUME UpdateAssumption ==
  /\ HostSize \in Nat
  /\ PayloadSize = 2 * (HostSize + 2) + 4
  /\ Hosts \subseteq Seq(Nat) /\ Ports \subseteq Int
  /\ Settings \subseteq [1..PayloadSize -> 0..255]
  /\ Fragment \in 1..FrameSize
  /\ None \notin Results \union Plans

GET == 7  \* GET_WIFI_SETTINGS
SET == 8  \* SET_WIFI_SETTINGS

Space == 32
Inner == {45, 46}  \* hyphen and dot
Letters == (48..57) \union (65..90) \union (97..122)

-----------------------------------------------------------------------------
(* validate_websocket_endpoint                                             *)

Strip(host) ==
  LET kept == {i \in DOMAIN host : host[i] # Space}
  IN IF kept = {} THEN <<>> ELSE SubSeq(host, Min(kept), Max(kept))

\* Mutation of ValidHost: a host may fill its field.
ValidHostFull(host) ==
  /\ Len(host) \in 1..HostSize
  /\ host[1] \in Letters /\ host[Len(host)] \in Letters
  /\ Range(host) \subseteq Letters \union Inner

\* The pattern of a DNS name or an address, and a byte for the final NUL.
ValidHost(host) ==
  /\ Len(host) \in 1..HostSize - 1
  /\ host[1] \in Letters /\ host[Len(host)] \in Letters
  /\ Range(host) \subseteq Letters \union Inner

\* Mutation of ValidPort: every TCP port.
ValidPortUnsigned(port) == port \in 1..65535

ValidPort(port) == port \in 1..32767

-----------------------------------------------------------------------------
(* WIFI_SETTINGS_PAYLOAD                                                   *)

\* Where the fields begin: ip_type, server1, its port, server2, its port, the
\* Wi-Fi password, ssid, and the extension.
Server1 == 2
Server2 == Server1 + HostSize + 2
Password == Server2 + HostSize + 2
Ssid == Password + 1

Field(payload, at, size) == SubSeq(payload, at, at + size - 1)

\* _text: up to the first NUL, if it is ASCII.
Text(raw) ==
  LET ends == {i \in DOMAIN raw : raw[i] = 0} \union {Len(raw) + 1}
  IN SubSeq(raw, 1, Min(ends) - 1)

Ascii(raw) == \A i \in DOMAIN Text(raw) : raw[i] < 128

\* Int16sl: two bytes, low byte first, in two's complement.
Parsed(bytes) ==
  LET value == bytes[1] + 256 * bytes[2]
  IN IF value >= 32768 THEN value - 65536 ELSE value

Fits(port) == -32768 <= port /\ port <= 32767

\* Mutation of Built: high byte first.
BuiltBig(port) == <<(port % 65536) \div 256, port % 256>>

Built(port) == <<port % 256, (port % 65536) \div 256>>

\* WifiServerSettings, decoded from a payload
Decoded(payload) ==
  [s \in {Server1, Server2} |->
     [host |-> Text(Field(payload, s, HostSize)),
      port |-> Parsed(Field(payload, s + HostSize, 2))]]

Both(host, port) == [s \in {Server1, Server2} |-> [host |-> host, port |-> port]]

Padded(host) == host \o [i \in 1..HostSize - Len(host) |-> 0]

\* The payload with both servers replaced, and no other byte.
Updated(payload, host, port) ==
  LET server == Padded(host) \o Built(port)
  IN <<payload[1]>> \o server \o server \o SubSeq(payload, Password, PayloadSize)

\* plan_websocket_server refuses settings that it does not understand.
Understood(payload) ==
  /\ payload[1] \in {0, 1}
  /\ payload[Ssid] # 0
  /\ \A at \in {Server1, Server2, Ssid} :
       Ascii(Field(payload, at, IF at = Ssid THEN 1 ELSE HostSize))

-----------------------------------------------------------------------------
VARIABLES
  asked,    \* the host and port of the call
  stored,   \* the payload the device keeps
  stage,    \* which request the update is at
  plan,     \* the WifiServerPlan: the original and the updated payload
  result,   \* how the call ended
  air,      \* notifications on their way
  buffer    \* FrameBuffer._data

vars == <<asked, stored, stage, plan, result, air, buffer>>

Reading == {"planning", "checking", "verifying"}

TypeOK ==
  /\ asked \in [host : Hosts, port : Ports]
  /\ stored \in Seq(0..255) /\ Len(stored) = PayloadSize
  /\ stage \in Reading \union {"called", "writing", "settling", "over"}
  /\ plan \in Plans \union {None}
  /\ result \in Results \union {None}
  /\ result # None <=> stage = "over"
  /\ Len(buffer) < FrameSize

\* A frame in the fragments that the link makes of it.
Fragments(frame) ==
  [i \in 1..(Len(frame) + Fragment - 1) \div Fragment |->
     SubSeq(frame, (i - 1) * Fragment + 1,
            IF i * Fragment < Len(frame) THEN i * Fragment ELSE Len(frame))]

Init ==
  /\ asked \in [host : Hosts, port : Ports]
  /\ stored \in Settings
  /\ stage = "called"
  /\ plan = None /\ result = None
  /\ air = <<>> /\ buffer = <<>>

Ends(outcome) ==
  /\ stage' = "over" /\ result' = outcome
  /\ air' = <<>> /\ buffer' = <<>>
  /\ UNCHANGED <<asked, stored>>

\* _request clears the buffer and sends; the device answers it.  What is still
\* in the air arrives first.
Requests(next, rest) ==
  /\ stage' = next
  /\ buffer' = <<>>
  /\ air' = rest \o Fragments(Frame(GET, stored))
  /\ UNCHANGED <<asked, stored, result>>

Call == stage = "called" /\ Requests("planning", air) /\ UNCHANGED plan

\* plan_websocket_server.  Building a port that does not fit its field raises.
Plan(payload, rest) ==
  LET host == Strip(asked.host)
      outcome == IF ~(ValidHost(host) /\ ValidPort(asked.port)) THEN "rejected"
                 ELSE IF ~Understood(payload) THEN "protocol"
                 ELSE IF ~Fits(asked.port) THEN "unbuildable" ELSE None
  IN IF outcome # None THEN Ends(outcome) /\ UNCHANGED plan
     ELSE /\ plan' = [original |-> payload,
                      updated |-> Updated(payload, host, asked.port)]
          /\ Requests("checking", rest)

\* WifiServerPlan.changed compares what is decoded, not the payloads.
Changed == Decoded(plan.original) # Both(Strip(asked.host), asked.port)

\* Mutation of Fresh: only what is decoded is compared.
FreshDecoded(payload) == Decoded(payload) = Decoded(plan.original)

Fresh(payload) == payload = plan.original

\* The fresh settings: a conflict, nothing to write, or on to the write.
Check(payload, left, rest) ==
  /\ UNCHANGED plan
  /\ IF ~Fresh(payload) THEN Ends("conflict")
     ELSE IF ~Changed THEN Ends("unchanged")
     ELSE /\ stage' = "writing" /\ buffer' = left /\ air' = rest
          /\ UNCHANGED <<asked, stored, result>>

\* The readback.
Verify(payload) ==
  /\ UNCHANGED plan
  /\ Ends(IF payload = plan.updated THEN "written" ELSE "unverified")

\* From the write on, whatever fails is reported as unverified.
Fails ==
  /\ Ends(IF stage \in {"settling", "verifying"} THEN "unverified" ELSE "failed")
  /\ UNCHANGED plan

\* What a notification brings: one fragment, or two that were coalesced.
Arriving(n) == IF n = 1 THEN air[1] ELSE air[1] \o air[2]

\* _notification: a frame counts if a request waits for its opcode; a damaged
\* one fails that request.
Notification ==
  \E n \in {1, 2} \cap DOMAIN air :
    LET fed == Feed(buffer \o Arriving(n))
        rest == SubSeq(air, n + 1, Len(air))
        replies == {i \in DOMAIN fed.frames : Opcode(fed.frames[i]) = GET}
    IN IF stage \in Reading /\ fed.damaged THEN Fails
       ELSE IF stage \notin Reading \/ replies = {}
         THEN /\ buffer' = fed.left /\ air' = rest
              /\ UNCHANGED <<asked, stored, stage, plan, result>>
       ELSE LET payload == Payload(fed.frames[Min(replies)])
            IN \/ stage = "planning" /\ Plan(payload, rest)
               \/ stage = "checking" /\ Check(payload, fed.left, rest)
               \/ stage = "verifying" /\ Verify(payload)

\* A fragment is lost (external).
Lose ==
  /\ air # <<>>
  /\ air' = Tail(air)
  /\ UNCHANGED <<asked, stored, stage, plan, result, buffer>>

\* No reply within the timeout, or the connection is lost.
TimedOut == stage \in Reading \union {"settling"} /\ Fails

\* A chunk is not accepted; the packet may have left all the same.
WriteFails ==
  /\ stage = "writing"
  /\ stored' \in {stored, plan.updated}
  /\ stage' = "over" /\ result' = "unverified"
  /\ air' = <<>> /\ buffer' = <<>>
  /\ UNCHANGED <<asked, plan>>

\* The packet leaves.  The device stores it and may notify an opcode-8 frame.
Write ==
  /\ stage = "writing"
  /\ stage' = "settling"
  /\ stored' \in {stored, plan.updated}
  /\ \/ UNCHANGED air
     \/ air' = air \o Fragments(Frame(SET, stored'))
  /\ UNCHANGED <<asked, plan, result, buffer>>

\* After two seconds the readback is requested.
Settled == stage = "settling" /\ Requests("verifying", air) /\ UNCHANGED plan

\* The vendor's app changes another setting after the first read (external).
Reconfigure ==
  /\ stage = "planning"
  /\ stored' = [stored EXCEPT ![Password] = 0]
  /\ UNCHANGED <<asked, stage, plan, result, air, buffer>>

Next ==
  \/ Reconfigure
  \/ Call \/ Notification \/ Lose \/ TimedOut
  \/ Write \/ WriteFails \/ Settled

Spec == Init /\ [][Next]_vars

-----------------------------------------------------------------------------
(* Properties                                                              *)

\* ble.py:254-256 "settings changed after planning; no write was sent": what the
\* vendor's app changed before the freshness read is never undone.  From the
\* write on, whatever fragments were lost, the device holds the very bytes that
\* the plan was made from or those that it leads to.
PlannedFromStored ==
  \/ stage \in {"writing", "settling", "verifying"}
  \/ result \in {"unchanged", "written", "unverified"}
  => stored \in {plan.original, plan.updated}

\* What the device reads in a server field: a C string, which runs on to the
\* next NUL byte, and a port.
DeviceReads(payload, at) ==
  [host |-> Text(SubSeq(payload, at, PayloadSize)),
   port |-> Parsed(Field(payload, at + HostSize, 2))]

\* An update that reports success, with or without a write, has left the device
\* reading the endpoint asked for in both servers, and every other byte as it
\* was; and no endpoint that the validation accepts fails to be encoded.
EndpointStored ==
  /\ result # "unbuildable"
  /\ result \in {"written", "unchanged"} =>
       /\ \A at \in {Server1, Server2} :
            DeviceReads(stored, at) = Both(Strip(asked.host), asked.port)[at]
       /\ stored[1] = plan.original[1]
       /\ SubSeq(stored, Password, PayloadSize) =
            SubSeq(plan.original, Password, PayloadSize)

\* library/README.md:107 "CRC checked": whatever was lost, a frame that the buffer
\* puts together with a right checksum is one that the device has sent.
FramesAreGenuine ==
  \A n \in {1, 2} \cap DOMAIN air :
    \A f \in Range(Feed(buffer \o Arriving(n)).frames) :
      stage = "verifying" => f \in {Frame(GET, stored), Frame(SET, stored)}
=============================================================================

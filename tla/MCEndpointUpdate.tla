--------------------------- MODULE MCEndpointUpdate ---------------------------
(***************************************************************************)
(* A small instance of EndpointUpdate: fields of four bytes, frames in     *)
(* three fragments.  The device may hold a host that fills its field, one  *)
(* with something behind its NUL, one that is not ASCII, a negative port,  *)
(* the endpoint that is asked for, or settings of an unknown kind.         *)
(***************************************************************************)
EXTENDS EndpointUpdate, Checksum

a == 97
dot == 46

\* "", " ", "a", " a", "a.a", "a.", and hosts as long as the field and longer
MCHosts == {<<>>, <<Space>>, <<a>>, <<Space, a>>, <<a, dot, a>>, <<a, dot>>,
            <<a, a, a, a>>, <<a, a, a, a, a>>}
MCPorts == {-1, 0, 1, 258, 32767, 32768, 65535}

Held(ip, server1, server2, ssid) ==
  <<ip>> \o server1 \o server2 \o <<120, ssid, 121>>

MCSettings ==
  {Held(0, <<a, dot, a, 0>> \o <<187, 1>>, <<a, 0, 200, 0>> \o <<255, 255>>, 87),
   Held(1, <<a, a, a, a>> \o <<1, 1>>, <<a, a, a, a>> \o <<2, 1>>, 87),
   Held(0, <<a, 0, 0, 0>> \o <<2, 1>>, <<a, 0, 7, 0>> \o <<2, 1>>, 87),
   Held(0, <<200, 0, 0, 0>> \o <<2, 1>>, <<a, 0, 0, 0>> \o <<2, 1>>, 87),
   Held(2, <<a, 0, 0, 0>> \o <<1, 0>>, <<a, 0, 0, 0>> \o <<1, 0>>, 87),
   Held(1, <<a, 0, 0, 0>> \o <<1, 0>>, <<a, 0, 0, 0>> \o <<1, 0>>, 0)}

\* checksum.py:1 "Catch's CRC-16/Modbus algorithm": the loop of shifts computes
\* the remainder that the name stands for, for every payload read or planned.
ChecksumIsModbus ==
  stage = "writing" =>
    \A payload \in {plan.original, plan.updated} :
      Crc16(<<SET>> \o payload) = ModbusCrc(<<SET>> \o payload)
=============================================================================

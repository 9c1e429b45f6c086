------------------------------ MODULE MCEntities ------------------------------
(***************************************************************************)
(* A small instance of Entities, and with it of ScheduleStore: a day of a  *)
(* few minutes, and a device that may at first hold, beside windows that   *)
(* overlap or touch, an overnight one, one that ends past the day, an      *)
(* active byte that is 2, and a mode the client does not know.             *)
(***************************************************************************)
EXTENDS Entities, TLC

SlotSymmetry == Permutations(Slots)

MCModes == {"default", "export"}
MCWireModes == MCModes \union {"unknown"}
MCWireMinutes == 0..LastMinute + 1

MCWanted == Schedule

\* Two windows that touch, one apart from the first, and no window at all.
MCAsked ==
  {[active |-> TRUE, mode |-> "export", start |-> w[1], stop |-> w[2]] :
     w \in {<<0, 1>>, <<1, 3>>, <<2, 3>>}}
  \union {[active |-> FALSE, mode |-> "default", start |-> 2, stop |-> 1]}

MCRecord(a, m, w) == [active |-> a, mode |-> m, start |-> w[1], stop |-> w[2]]

MCInitial ==
  [Slots ->
     {MCRecord(a, "export", w) :
        a \in ActiveBytes, w \in {<<0, 1>>, <<3, 1>>, <<2, LastMinute + 1>>}}
     \union {MCRecord(a, "unknown", <<1, 3>>) : a \in {0, 1}}]
===============================================================================

---------------------------- MODULE BleClientProofs ----------------------------
(***************************************************************************)
(* Proofs about BleClient for any number of tasks, calls, slots and        *)
(* fragments in a frame.                                                   *)
(*                                                                         *)
(* The argument is about what is under way on the connection.  While the   *)
(* client has not failed, nothing of a read is under way but of the one    *)
(* that is being received, and its fragments come in order; so a frame     *)
(* that completes a request answers it, and leaves nothing of a read       *)
(* behind.  The device answers in order, so a reply shows the table as it  *)
(* is, whatever write was sent before the request.                         *)
(***************************************************************************)
EXTENDS BleClient, SequenceTheorems, TLAPS

USE ClientAssumption

Holding == {"sending", "receiving", "settling", "failing", "cancelling"}
Applying == {"check", "write", "readback"}

\* Whoever is inside a request holds _lock, and whoever is inside apply_schedule
\* holds _configuration_lock; a client that has failed makes no more requests.
LockInv ==
  \A t \in Tasks :
    /\ pc[t] \in Holding <=> lock = t
    /\ editing = t <=> pc[t] \notin {"idle", "queueing"} /\ stage[t] \in Applying
    /\ pc[t] = "queueing" => stage[t] = "check"
    /\ pc[t] \in {"sending", "receiving", "settling"} => ~failed
    /\ pc[t] \in {"failing", "cancelling"} => failed
    /\ pc[t] = "receiving" => stage[t] # "write"

\* A future is pending only for the read of the task that holds the lock.
FutureInv ==
  /\ expected # "set"
  /\ reply # None => expected # None
  /\ expected # None =>
       /\ lock # None /\ stage[lock] # "write"
       /\ pc[lock] \in {"sending", "receiving", "settling"}
  /\ \A t \in Tasks : pc[t] = "settling" /\ stage[t] # "write" => reply \in Frames

\* What has arrived and has not been framed, and what is still in the air.
Arriving == buffer \o air

OnlyWrites == \A i \in 1..Len(toDevice) : toDevice[i].write # None
NothingRead == \A i \in 1..Len(Arriving) : Arriving[i].opcode = "set"

\* The last request has not been answered; before it there are only writes.
Unanswered ==
  /\ toDevice # <<>>
  /\ toDevice[Len(toDevice)].id = sent
  /\ toDevice[Len(toDevice)].write = None
  /\ \A i \in 1..Len(toDevice) : i # Len(toDevice) => toDevice[i].write # None
  /\ NothingRead

\* It has been answered: its fragments arrive in order.
Answered ==
  /\ toDevice = <<>>
  /\ \A i \in 1..Len(Arriving) : Arriving[i].opcode # "set" =>
       /\ Arriving[i].id = sent
       /\ Arriving[i].overrides = device
       /\ \A j \in 1..Len(Arriving) :
            i < j /\ Arriving[j].opcode # "set" => Arriving[i].part < Arriving[j].part

Receiving == lock # None /\ pc[lock] = "receiving" /\ reply \notin Frames

ChannelInv ==
  /\ \A i \in 1..Len(toDevice) : toDevice[i].opcode = "set" <=> toDevice[i].write # None
  /\ ~failed => \/ OnlyWrites /\ NothingRead
                \/ Receiving /\ (Unanswered \/ Answered)
  /\ reply \in Frames => /\ toDevice = <<>> /\ NothingRead
                         /\ reply.id = sent /\ reply.overrides = device
                         /\ pc[lock] # "sending"

\* An edit that the planner accepts.
Accepted(before, after) ==
  \E slot \in Slots, s \in Wanted :
    ~Refused(before, slot, s) /\ after = [before EXCEPT ![slot] = ToWire(s)]

\* A plan was accepted against the configuration it was made from.
PlanInv ==
  \A t \in Tasks :
    /\ plan[t] # None => Accepted(plan[t].before, Target(plan[t]))
    /\ pc[t] # "idle" /\ stage[t] \in Applying => plan[t] # None

\* From the freshness read to the write the table stays as it was planned from;
\* one write at most is on its way, ahead of everything else, and it was accepted
\* against the table as it is.
WriteInv ==
  /\ \A t \in Tasks :
       ~failed /\ pc[t] \in {"waiting", "sending"} /\ stage[t] = "write" =>
         device = plan[t].before /\ \A i \in 1..Len(toDevice) : toDevice[i].write = None
  /\ \A i \in 1..Len(toDevice) :
       toDevice[i].write # None => i = 1 /\ Accepted(device, toDevice[i].write)

\* What is stored is the write of a call that has come to it.
StoredInv == stored /\ editing # None => stage[editing] \in {"write", "readback"}

ClientInv ==
  /\ TypeOK /\ LockInv /\ FutureInv /\ ChannelInv /\ PlanInv /\ WriteInv /\ StoredInv

-----------------------------------------------------------------------------
(* The frame buffer                                                        *)

\* Whole frames, laid end to end, fit into the bytes; less than one is left.
LEMMA Division ==
  ASSUME NEW L \in Nat, NEW F \in Nat \ {0}
  PROVE  /\ L \div F \in Nat
         /\ (L \div F) * F \in 0..L
         /\ L - (L \div F) * F < F
         /\ \A i \in 1..L \div F :
              (i - 1) * F \in Nat /\ i * F = (i - 1) * F + F /\ i * F <= (L \div F) * F
<1>1. L \div F \in Nat /\ (L \div F) * F <= L /\ L < (L \div F) * F + F
  OBVIOUS
<1>2. \A m, n \in Nat : m <= n => m * F \in Nat /\ m * F <= n * F
  OBVIOUS
<1>3. \A n \in Nat \ {0} : n * F = (n - 1) * F + F
  OBVIOUS
<1>4. (L \div F) * F \in Nat
  BY <1>1, <1>2
<1> QED BY <1>1, <1>2, <1>3, <1>4

\* How many bytes feed has done with: all of them after a damaged frame.
Taken(bytes) ==
  IF Damaged(bytes) THEN Len(bytes) ELSE (Len(bytes) \div FrameSize) * FrameSize

LEMMA RemainderIsSuffix ==
  ASSUME NEW bytes \in Seq(Pieces)
  PROVE  /\ Taken(bytes) \in 0..Len(bytes)
         /\ Remainder(bytes) = SubSeq(bytes, Taken(bytes) + 1, Len(bytes))
         /\ Remainder(bytes) \in Seq(Pieces)
         /\ Len(Remainder(bytes)) = Len(bytes) - Taken(bytes)
         /\ Len(Remainder(bytes)) < FrameSize
         /\ \A i \in 1..Len(Remainder(bytes)) :
              Remainder(bytes)[i] = bytes[i + Taken(bytes)]
<1>1. Len(bytes) \in Nat /\ \A i \in 1..Len(bytes) : bytes[i] \in Pieces
  OBVIOUS
<1>2. Taken(bytes) \in 0..Len(bytes)
  <2>1. (Len(bytes) \div FrameSize) * FrameSize \in 0..Len(bytes)
    BY <1>1, Division
  <2>2. Len(bytes) \in 0..Len(bytes)
    BY <1>1
  <2> QED BY <2>1, <2>2, Zenon DEF Taken
<1>3. Len(bytes) - Taken(bytes) < FrameSize
  BY <1>1, Division DEF Taken
<1>4. Remainder(bytes) = SubSeq(bytes, Taken(bytes) + 1, Len(bytes))
  BY <1>1, SubSeqEmpty DEF Remainder, Taken
<1> DEFINE rest == SubSeq(bytes, Taken(bytes) + 1, Len(bytes))
<1>5. /\ rest \in Seq(Pieces)
      /\ Len(rest) = Len(bytes) - Taken(bytes)
      /\ \A i \in 1..Len(rest) : rest[i] = bytes[i + Taken(bytes)]
  <2>1. \A i \in Taken(bytes) + 1..Len(bytes) : bytes[i] \in Pieces
    BY <1>1, <1>2
  <2>2. /\ rest \in Seq(Pieces)
        /\ Len(rest) = IF Taken(bytes) + 1 <= Len(bytes) THEN Len(bytes) - (Taken(bytes) + 1) + 1 ELSE 0
        /\ \A i \in 1..Len(bytes) - (Taken(bytes) + 1) + 1 : rest[i] = bytes[Taken(bytes) + 1 + i - 1]
    BY <1>1, <1>2, <2>1, SubSeqProperties
  <2> HIDE DEF rest
  <2> QED BY <1>1, <1>2, <2>2
<1> HIDE DEF rest
<1> QED BY <1>2, <1>3, <1>4, <1>5 DEF rest

\* A frame that feed yields is made of consecutive fragments, the parts of one
\* frame in order, all of them among the bytes that feed has done with.
LEMMA FedIsWhole ==
  ASSUME NEW bytes \in Seq(Pieces), ~Damaged(bytes), NEW f \in Fed(bytes)
  PROVE  /\ f \in Frames
         /\ \E p \in 0..Taken(bytes) - FrameSize :
              /\ f.overrides = bytes[p + 1].overrides
              /\ \A j \in 1..FrameSize :
                   /\ bytes[p + j].part = j
                   /\ bytes[p + j].id = f.id /\ bytes[p + j].opcode = f.opcode
<1> DEFINE complete == Len(bytes) \div FrameSize
<1>1. PICK i \in 1..complete : f = Decoded(Cut(bytes, i))
  BY DEF Fed, Complete
<1> DEFINE p == (i - 1) * FrameSize
           cut == Cut(bytes, i)
<1>2. /\ complete \in Nat /\ Len(bytes) \in Nat
      /\ p \in Nat /\ i * FrameSize = p + FrameSize
      /\ p + FrameSize <= Taken(bytes) /\ Taken(bytes) <= Len(bytes)
  BY Division DEF Taken
<1>3. /\ cut \in Seq(Pieces)
      /\ \A j \in 1..FrameSize : cut[j] = bytes[p + j]
  <2>1. cut = SubSeq(bytes, p + 1, p + FrameSize)
    BY <1>2 DEF Cut
  <2>2. \A j \in p + 1..p + FrameSize : bytes[j] \in Pieces
    BY <1>2
  <2> HIDE DEF p
  <2>3. /\ SubSeq(bytes, p + 1, p + FrameSize) \in Seq(Pieces)
        /\ \A j \in 1..(p + FrameSize) - (p + 1) + 1 :
             SubSeq(bytes, p + 1, p + FrameSize)[j] = bytes[p + 1 + j - 1]
    BY <1>2, <2>2, SubSeqProperties
  <2> QED BY <1>2, <2>1, <2>3
<1> HIDE DEF p
<1>4. \A j \in 1..FrameSize : bytes[p + j] \in Pieces
  BY <1>2
<1>5. Whole(cut)
  BY DEF Damaged, Complete
<1> HIDE DEF cut
<1>6. 1 \in 1..FrameSize
  OBVIOUS
<1>7. /\ f.id = bytes[p + 1].id /\ f.opcode = bytes[p + 1].opcode
      /\ f.overrides = bytes[p + 1].overrides
      /\ f \in Frames
  <2>1. f = Decoded(cut) /\ cut[1] = bytes[p + 1] /\ bytes[p + 1] \in Pieces
    BY <1>1, <1>3, <1>4, <1>6 DEF cut
  <2> QED BY <2>1 DEF Decoded, Pieces, Frames
<1>8. \A j \in 1..FrameSize :
        /\ bytes[p + j].part = j
        /\ bytes[p + j].id = f.id /\ bytes[p + j].opcode = f.opcode
  BY <1>3, <1>5, <1>6, <1>7 DEF Whole
<1>9. p \in 0..Taken(bytes) - FrameSize
  BY <1>2, RemainderIsSuffix
<1> QED BY <1>7, <1>8, <1>9

-----------------------------------------------------------------------------
(* What the steps do                                                       *)

LEMMA ArrivingType ==
  ASSUME TypeOK
  PROVE  /\ Arriving \in Seq(Pieces)
         /\ Len(Arriving) = Len(buffer) + Len(air)
         /\ Len(buffer) \in Nat /\ Len(air) \in Nat
         /\ \A i \in 1..Len(Arriving) :
              /\ Arriving[i] \in Pieces
              /\ Arriving[i] = IF i <= Len(buffer) THEN buffer[i] ELSE air[i - Len(buffer)]
BY ConcatProperties DEF TypeOK, Arriving

\* The bytes that are left are the last ones that arrive.
Left(k) ==
  /\ Len(Arriving') = Len(Arriving) - k
  /\ \A i \in 1..Len(Arriving') : Arriving'[i] = Arriving[i + k]

\* A frame for the pending future, among the first k bytes that arrive.
Completes(k) ==
  /\ reply' \in Frames /\ reply'.opcode = expected
  /\ \E p \in 0..k - FrameSize :
       /\ reply'.overrides = Arriving[p + 1].overrides
       /\ \A j \in 1..FrameSize :
            /\ Arriving[p + j].part = j
            /\ Arriving[p + j].id = reply'.id /\ Arriving[p + j].opcode = expected

\* A notification takes bytes from the front, and completes a future if a frame
\* it waits for is among them.
LEMMA NotificationEffect ==
  ASSUME TypeOK, Notification
  PROVE  /\ buffer' \in Seq(Pieces) /\ Len(buffer') < FrameSize
         /\ air' \in Seq(Pieces)
         /\ \E k \in 0..Len(Arriving) :
              /\ Left(k)
              /\ \/ reply' = reply
                 \/ Pending /\ reply' = Error
                 \/ Pending /\ Completes(k)
<1>1. PICK n \in {1, 2} :
        LET bytes == buffer \o SubSeq(air, 1, n)
            matching == {f \in Fed(bytes) : f.opcode = expected}
        IN /\ n <= Len(air)
           /\ air' = SubSeq(air, n + 1, Len(air))
           /\ buffer' = Remainder(bytes)
           /\ reply' \in IF ~Pending THEN {reply}
                         ELSE IF Damaged(bytes) THEN {Error}
                         ELSE IF matching = {} THEN {reply} ELSE matching
  BY Zenon DEF Notification
<1> DEFINE front == SubSeq(air, 1, n)
           bytes == buffer \o front
           k == Taken(bytes)
<1>2. /\ air \in Seq(Pieces) /\ buffer \in Seq(Pieces)
      /\ Len(air) \in Nat /\ Len(buffer) \in Nat /\ n \in 1..Len(air)
  BY <1>1 DEF TypeOK
<1>3. /\ front \in Seq(Pieces) /\ Len(front) = n
      /\ \A i \in 1..n : front[i] = air[i]
  <2>1. \A i \in 1..n : air[i] \in Pieces
    BY <1>2
  <2> QED BY <1>2, <2>1, SubSeqProperties
<1>4. /\ air' \in Seq(Pieces) /\ Len(air') = Len(air) - n
      /\ \A i \in 1..Len(air) - n : air'[i] = air[i + n]
  <2>1. \A i \in n + 1..Len(air) : air[i] \in Pieces
    BY <1>2
  <2>2. /\ SubSeq(air, n + 1, Len(air)) \in Seq(Pieces)
        /\ Len(SubSeq(air, n + 1, Len(air))) =
             IF n + 1 <= Len(air) THEN Len(air) - (n + 1) + 1 ELSE 0
        /\ \A i \in 1..Len(air) - (n + 1) + 1 :
             SubSeq(air, n + 1, Len(air))[i] = air[n + 1 + i - 1]
    BY <1>2, <2>1, SubSeqProperties
  <2>3. air' = SubSeq(air, n + 1, Len(air))
    BY <1>1
  <2> QED BY <1>2, <2>2, <2>3
<1> HIDE DEF front
<1>5. /\ bytes \in Seq(Pieces) /\ Len(bytes) = Len(buffer) + n
      /\ \A i \in 1..Len(bytes) : bytes[i] =
           IF i <= Len(buffer) THEN buffer[i] ELSE front[i - Len(buffer)]
  BY <1>2, <1>3, ConcatProperties
<1>6. buffer' = Remainder(bytes)
  BY <1>1 DEF front
<1> HIDE DEF bytes, k
<1>7. /\ k \in 0..Len(bytes)
      /\ buffer' \in Seq(Pieces) /\ Len(buffer') = Len(bytes) - k
      /\ Len(buffer') < FrameSize
      /\ \A i \in 1..Len(buffer') : buffer'[i] = bytes[i + k]
  BY <1>5, <1>6, RemainderIsSuffix DEF k
<1>8. \A i \in 1..Len(bytes) : bytes[i] = Arriving[i]
  BY <1>2, <1>3, <1>5, ArrivingType
<1>9. Left(k)
  <2>1. /\ Len(Arriving') = Len(buffer') + Len(air')
        /\ \A i \in 1..Len(Arriving') : Arriving'[i] =
             IF i <= Len(buffer') THEN buffer'[i] ELSE air'[i - Len(buffer')]
    <3>1. Arriving' = buffer' \o air'
      BY DEF Arriving
    <3> DEFINE head == buffer'
               tail == air'
    <3>2. head \in Seq(Pieces) /\ tail \in Seq(Pieces)
      BY <1>4, <1>7
    <3> HIDE DEF head, tail
    <3>3. /\ Len(head \o tail) = Len(head) + Len(tail)
          /\ \A i \in 1..Len(head) + Len(tail) : (head \o tail)[i] =
               IF i <= Len(head) THEN head[i] ELSE tail[i - Len(head)]
      BY <3>2, ConcatProperties
    <3> QED BY <3>1, <3>3 DEF head, tail
  <2>2. Len(Arriving) = Len(buffer) + Len(air)
    BY ArrivingType
  <2>3. Len(Arriving') = Len(Arriving) - k
    BY <1>2, <1>4, <1>5, <1>7, <2>1, <2>2
  <2>4. ASSUME NEW i \in 1..Len(Arriving') PROVE Arriving'[i] = Arriving[i + k]
    <3>1. CASE i <= Len(buffer')
      BY <1>2, <1>4, <1>5, <1>7, <1>8, <2>1, <3>1
    <3>2. CASE ~(i <= Len(buffer'))
      <4>1. Arriving'[i] = air[i - Len(buffer') + n]
        <5>1. i - Len(buffer') \in 1..Len(air) - n
          <6>1. Len(buffer') \in Nat /\ Len(air') = Len(air) - n
            BY <1>4, <1>7
          <6>2. i \in 1..Len(buffer') + Len(air') /\ ~(i <= Len(buffer'))
            BY <2>1, <3>2
          <6> QED BY <1>2, <6>1, <6>2
        <5>2. Arriving'[i] = air'[i - Len(buffer')]
          BY <2>1, <3>2
        <5> QED BY <1>4, <5>1, <5>2
      <4>2. i - Len(buffer') + n = (i + k) - Len(buffer) /\ i + k \in 1..Len(Arriving)
            /\ ~(i + k <= Len(buffer))
        BY <1>2, <1>4, <1>5, <1>7, <2>1, <2>2, <3>2
      <4> QED BY <4>1, <4>2, ArrivingType
    <3> QED BY <3>1, <3>2
  <2> QED BY <2>3, <2>4 DEF Left
<1>10. \/ reply' = reply
       \/ Pending /\ reply' = Error
       \/ Pending /\ Completes(k)
  <2>1. \/ reply' = reply
        \/ Pending /\ reply' = Error
        \/ Pending /\ ~Damaged(bytes) /\ reply' \in Fed(bytes) /\ reply'.opcode = expected
    BY <1>1 DEF bytes, front
  <2> DEFINE Among(f) ==
        \E p \in 0..k - FrameSize :
           /\ f.overrides = bytes[p + 1].overrides
           /\ \A j \in 1..FrameSize :
                /\ bytes[p + j].part = j
                /\ bytes[p + j].id = f.id /\ bytes[p + j].opcode = f.opcode
  <2>2. ASSUME ~Damaged(bytes), NEW f \in Fed(bytes) PROVE f \in Frames /\ Among(f)
    <3>1. bytes \in Seq(Pieces) /\ ~Damaged(bytes) /\ f \in Fed(bytes)
      BY <1>5, <2>2
    <3>2. f \in Frames
      BY <3>1, FedIsWhole
    <3>3. \E p \in 0..Taken(bytes) - FrameSize :
              /\ f.overrides = bytes[p + 1].overrides
              /\ \A j \in 1..FrameSize :
                   /\ bytes[p + j].part = j
                   /\ bytes[p + j].id = f.id /\ bytes[p + j].opcode = f.opcode
      BY <3>1, FedIsWhole
    <3> QED BY <3>2, <3>3 DEF k
  <2>3. ASSUME ~Damaged(bytes), reply' \in Fed(bytes), reply'.opcode = expected
        PROVE  Completes(k)
    <3> DEFINE f == reply'
    <3>1. f \in Fed(bytes) /\ f.opcode = expected
      BY <2>3
    <3> HIDE DEF f
    <3>2. f \in Frames /\ Among(f)
      BY <2>2, <2>3, <3>1
    <3>3. PICK p \in 0..k - FrameSize :
               /\ f.overrides = bytes[p + 1].overrides
               /\ \A j \in 1..FrameSize :
                    /\ bytes[p + j].part = j
                    /\ bytes[p + j].id = f.id /\ bytes[p + j].opcode = expected
      BY <3>1, <3>2
    <3>4. \A j \in 1..FrameSize : p + j \in 1..Len(bytes) /\ bytes[p + j] = Arriving[p + j]
      BY <1>5, <1>7, <1>8
    <3>5. bytes[p + 1] = Arriving[p + 1]
      BY <3>4
    <3>6. \A j \in 1..FrameSize :
            /\ Arriving[p + j].part = j
            /\ Arriving[p + j].id = f.id /\ Arriving[p + j].opcode = expected
      BY <3>3, <3>4
    <3> QED BY <3>1, <3>2, <3>3, <3>5, <3>6 DEF Completes, f
  <2> QED BY <2>1, <2>3
<1>11. k \in 0..Len(Arriving)
  BY <1>2, <1>5, <1>7, ArrivingType
<1> QED BY <1>4, <1>7, <1>9, <1>10, <1>11

LEMMA FrameOfType ==
  ASSUME NEW id \in Nat, NEW opcode \in Opcodes, NEW overrides \in Overrides
  PROVE  /\ FrameOf(id, opcode, overrides) \in Seq(Pieces)
         /\ Len(FrameOf(id, opcode, overrides)) = FrameSize
         /\ \A i \in 1..FrameSize : FrameOf(id, opcode, overrides)[i] =
              [id |-> id, opcode |-> opcode, part |-> i, overrides |-> overrides]
BY DEF FrameOf, Pieces

\* What the device answers arrives behind all the rest.
LEMMA AnswerArrives ==
  ASSUME TypeOK, NEW frame \in Seq(Pieces), air' = air \o frame, buffer' = buffer
  PROVE  /\ air' \in Seq(Pieces)
         /\ Len(Arriving') = Len(Arriving) + Len(frame)
         /\ \A i \in 1..Len(Arriving') : Arriving'[i] =
              IF i <= Len(Arriving) THEN Arriving[i] ELSE frame[i - Len(Arriving)]
<1>1. buffer \in Seq(Pieces) /\ air \in Seq(Pieces)
  BY DEF TypeOK
<1>2. Arriving' = Arriving \o frame
  <2>1. Arriving' = buffer \o (air \o frame)
    BY DEF Arriving
  <2> QED BY <1>1, <2>1, ConcatAssociative DEF Arriving
<1>3. Arriving \in Seq(Pieces)
  BY ArrivingType
<1> QED BY <1>1, <1>2, <1>3, ConcatProperties

\* A lost notification leaves a gap.
LEMMA LossShortens ==
  ASSUME TypeOK, Lose
  PROVE  /\ air' \in Seq(Pieces)
         /\ Len(Arriving') = Len(Arriving) - 1
         /\ \A i \in 1..Len(Arriving') : Arriving'[i] =
              IF i <= Len(buffer) THEN Arriving[i] ELSE Arriving[i + 1]
<1>1. /\ air \in Seq(Pieces) /\ air # <<>> /\ air' = Tail(air)
      /\ buffer \in Seq(Pieces) /\ buffer' = buffer
  BY DEF TypeOK, Lose, inbox
<1>2. /\ air' \in Seq(Pieces) /\ Len(air') = Len(air) - 1
      /\ \A i \in 1..Len(air') : air'[i] = air[i + 1]
  BY <1>1, HeadTailProperties
<1> DEFINE tail == air'
<1>3. tail \in Seq(Pieces) /\ Arriving' = buffer \o tail
  BY <1>1, <1>2 DEF Arriving
<1>4. /\ Len(tail) = Len(air) - 1
      /\ \A i \in 1..Len(tail) : tail[i] = air[i + 1]
  BY <1>2
<1> HIDE DEF tail
<1>5. /\ Len(buffer \o tail) = Len(buffer) + Len(tail)
      /\ \A i \in 1..Len(buffer) + Len(tail) : (buffer \o tail)[i] =
           IF i <= Len(buffer) THEN buffer[i] ELSE tail[i - Len(buffer)]
  BY <1>1, <1>3, ConcatProperties
<1>6. /\ Len(Arriving) = Len(buffer) + Len(air)
      /\ Len(buffer) \in Nat /\ Len(air) \in Nat
      /\ \A i \in 1..Len(Arriving) : Arriving[i] =
           IF i <= Len(buffer) THEN buffer[i] ELSE air[i - Len(buffer)]
  BY ArrivingType
<1>7. ASSUME NEW i \in 1..Len(Arriving')
      PROVE  Arriving'[i] = IF i <= Len(buffer) THEN Arriving[i] ELSE Arriving[i + 1]
  <2>1. i \in 1..Len(buffer) + Len(tail)
    BY <1>3, <1>5
  <2>2. CASE i <= Len(buffer)
    BY <1>3, <1>4, <1>5, <1>6, <2>1, <2>2
  <2>3. CASE ~(i <= Len(buffer))
    <3>1. i - Len(buffer) \in 1..Len(tail) /\ i + 1 \in 1..Len(Arriving)
      BY <1>4, <1>6, <2>1, <2>3
    <3>2. Arriving'[i] = air[i - Len(buffer) + 1]
      BY <1>3, <1>4, <1>5, <2>1, <2>3, <3>1
    <3>3. Arriving[i + 1] = air[i + 1 - Len(buffer)]
      BY <1>6, <2>3, <3>1
    <3>4. i - Len(buffer) + 1 = i + 1 - Len(buffer)
      BY <1>6
    <3> QED BY <2>3, <3>2, <3>3, <3>4
  <2> QED BY <2>2, <2>3
<1> QED BY <1>2, <1>3, <1>4, <1>5, <1>6, <1>7

LEMMA WireRecord == \A s \in Schedule : ToWire(s) \in Record
BY SchedulesAssumption DEF Schedule, ToWire, Record, Minutes

LEMMA PlanType ==
  ASSUME NEW o \in Overrides, NEW slot \in Slots, NEW s \in Wanted
  PROVE  MakePlan(o, slot, s) \in Plan
BY WireRecord DEF MakePlan, Plan

LEMMA TargetType == \A p \in Plan : Target(p) \in Overrides
BY DEF Plan, Target, Overrides

\* The steps in which a call takes its reply.
Takes(t) ==
  \/ Malformed(t) \/ Return(t)
  \/ \E slot \in Slots, s \in Wanted : RejectPlan(t, slot, s) \/ AcceptPlan(t, slot, s)
  \/ Conflict(t) \/ Unneeded(t) \/ Proceed(t) \/ Verified(t) \/ Differs(t)

\* Such a step ends the call, or goes on to the write.
LEMMA TakesEffect ==
  ASSUME NEW t \in Tasks, Takes(t)
  PROVE  /\ Replied(t)
         /\ \/ /\ \E how \in Results : Finish(t, how)
               /\ UNCHANGED stage
               /\ UNCHANGED plan \/ \E slot \in Slots, s \in Wanted : AcceptPlan(t, slot, s)
            \/ Proceed(t)
<1>1. \A how \in {"protocol", "failed", "refused"} : Reported(t, how) \in Results
  BY DEF Reported, Results
<1>2. \A how \in {"read", "rejected", "planned", "conflict", "unchanged", "written",
                  "unverified"} : how \in Results
  BY DEF Results
<1>3. ASSUME NEW slot \in Slots, NEW s \in Wanted, AcceptPlan(t, slot, s)
      PROVE  Replied(t) /\ Finish(t, "planned") /\ UNCHANGED stage
  BY <1>3 DEF AcceptPlan
<1>4. ASSUME NEW slot \in Slots, NEW s \in Wanted, RejectPlan(t, slot, s)
      PROVE  Replied(t) /\ Finish(t, "rejected") /\ UNCHANGED <<stage, plan>>
  BY <1>4 DEF RejectPlan
<1>5. CASE Malformed(t) \/ Return(t) \/ Conflict(t) \/ Unneeded(t) \/ Verified(t) \/ Differs(t)
  <2>1. Replied(t) /\ UNCHANGED <<stage, plan>>
    BY <1>5 DEF Malformed, Return, Conflict, Unneeded, Verified, Differs
  <2>2. \E how \in Results : Finish(t, how)
    BY <1>1, <1>2, <1>5 DEF Malformed, Return, Conflict, Unneeded, Verified, Differs
  <2> QED BY <2>1, <2>2
<1>6. CASE Proceed(t)
  BY <1>6 DEF Proceed
<1> QED BY <1>2, <1>3, <1>4, <1>5, <1>6 DEF Takes

LEMMA ProgressIs ==
  ASSUME NEW t \in Tasks
  PROVE  Progress(t) <=> Refuse(t) \/ Abort(t) \/ FailEnds(t) \/ Written(t) \/ Takes(t)
BY DEF Progress, Takes

-----------------------------------------------------------------------------
(* Types                                                                   *)

LEMMA LeavesType ==
  ASSUME TypeOK, LockInv, PlanInv, NEW t \in Tasks, Leaves(t)
  PROVE  sent' \in Nat /\ toDevice' \in Seq(Requests)
<1>1. lock = t
  BY DEF Leaves, LockInv, Holding
<1>2. stage[t] = "write" => Packet(t) \in Overrides
  BY TargetType DEF Leaves, Packet, TypeOK, PlanInv, Applying
<1>3. stage[t] # "write" => Packet(t) = None
  BY DEF Packet
<1> DEFINE request == [id |-> sent + 1, write |-> Packet(t),
                       opcode |-> IF stage[t] = "write" THEN "set" ELSE Opcode(t)]
<1>4. request \in Requests
  BY <1>2, <1>3 DEF Requests, Opcodes, Opcode, TypeOK
<1>5. toDevice' = Append(toDevice, request) /\ sent' = sent + 1
  BY DEF Leaves
<1> HIDE DEF request
<1> QED BY <1>4, <1>5, AppendProperties DEF TypeOK

LEMMA TypeStep ==
  ASSUME TypeOK, LockInv, FutureInv, PlanInv, [Next]_vars
  PROVE  TypeOK'
<1> USE DEF TypeOK, locks, inbox, link, table
<1>1. ASSUME NEW t \in Tasks, NEW first \in {"read", "plan", "check"}, Call(t, first)
      PROVE  TypeOK'
  BY <1>1 DEF Call
<1>2. ASSUME NEW t \in Tasks, BeginEdit(t) PROVE TypeOK'
  BY <1>2 DEF BeginEdit
<1>3. ASSUME NEW t \in Tasks, CancelWait(t) PROVE TypeOK'
  BY <1>3 DEF CancelWait, Finish, Results
<1>4. ASSUME NEW t \in Tasks, Begin(t) PROVE TypeOK'
  <2>1. <<>> \in Seq(Pieces) /\ Len(<<>>) < FrameSize
    BY EmptySeq
  <2> QED BY <1>4, <2>1 DEF Begin, Opcode, Opcodes
<1>5. ASSUME NEW t \in Tasks, Send(t) PROVE TypeOK'
  BY <1>5, LeavesType DEF Send, Leaves
<1>6. ASSUME NEW t \in Tasks, Receive(t) PROVE TypeOK'
  BY <1>6 DEF Receive
<1>7. ASSUME NEW t \in Tasks, NEW phase \in {"failing", "cancelling"}, Fail(t, phase)
      PROVE  TypeOK'
  <2>1. sent' \in Nat /\ toDevice' \in Seq(Requests)
    BY <1>7, LeavesType DEF Fail
  <2> QED BY <1>7, <2>1 DEF Fail, Forget
<1>8. ASSUME NEW t \in Tasks, Refuse(t) PROVE TypeOK'
  BY <1>8 DEF Refuse, Finish, Reported, Results
<1>9. ASSUME NEW t \in Tasks, FailEnds(t) PROVE TypeOK'
  <2>1. toDevice' \in Seq(Requests) /\ air' \in Seq(Pieces) /\ connected' \in BOOLEAN
    <3>1. CASE Closed
      BY <3>1, EmptySeq DEF Closed
    <3>2. CASE UNCHANGED link
      BY <3>2
    <3> QED BY <1>9, <3>1, <3>2 DEF FailEnds
  <2> QED BY <1>9, <2>1 DEF FailEnds, Finish, Reported, Results
<1>10. ASSUME NEW t \in Tasks, Written(t) PROVE TypeOK'
  BY <1>10 DEF Written, Continue
<1>11. ASSUME NEW t \in Tasks, Takes(t) PROVE TypeOK'
  <2>1. Replied(t)
    BY <1>11, TakesEffect
  <2>2. plan' \in [Tasks -> Plan \union {None}]
    <3>1. CASE UNCHANGED plan
      BY <3>1
    <3>2. ASSUME NEW slot \in Slots, NEW s \in Wanted, AcceptPlan(t, slot, s)
          PROVE  plan' \in [Tasks -> Plan \union {None}]
      <4>1. reply \in Frames
        BY <2>1 DEF Replied, FutureInv
      <4>2. MakePlan(reply.overrides, slot, s) \in Plan
        BY <4>1, PlanType DEF Frames
      <4> QED BY <3>2, <4>2 DEF AcceptPlan
    <3> QED BY <1>11, <3>1, <3>2, TakesEffect DEF Proceed, Continue
  <2>3. /\ lock' \in Tasks \union {None} /\ editing' \in Tasks \union {None}
        /\ pc' \in [Tasks -> {"idle", "queueing", "waiting", "sending", "receiving",
                              "settling", "failing", "cancelling"}]
        /\ stage' \in [Tasks -> {"read", "plan", "check", "write", "readback"}]
        /\ result' \in [Tasks -> Results]
    <3>1. CASE \E how \in Results : Finish(t, how) /\ UNCHANGED stage
      BY <3>1 DEF Finish
    <3>2. CASE Proceed(t)
      BY <3>2 DEF Proceed, Continue
    <3> QED BY <1>11, <3>1, <3>2, TakesEffect
  <2> QED BY <2>1, <2>2, <2>3 DEF Replied, Forget
<1>12. CASE Notification
  <2>1. /\ buffer' \in Seq(Pieces) /\ Len(buffer') < FrameSize /\ air' \in Seq(Pieces)
        /\ reply' = reply \/ reply' = Error \/ reply' \in Frames
    BY <1>12, NotificationEffect DEF Completes
  <2>2. UNCHANGED <<lock, editing, failed, connected, expected, pc, stage, plan, result,
                    calls, sent, toDevice, device, stored>>
    BY <1>12 DEF Notification
  <2> QED BY <2>1, <2>2
<1>13. CASE Disconnected
  BY <1>13, EmptySeq DEF Disconnected, Closed
<1>14. CASE AnswerRead
  <2>1. Head(toDevice) \in Requests /\ Tail(toDevice) \in Seq(Requests)
    BY <1>14, HeadTailProperties DEF AnswerRead
  <2>2. FrameOf(Head(toDevice).id, Head(toDevice).opcode, device) \in Seq(Pieces)
    BY <2>1, FrameOfType DEF Requests
  <2>3. air' \in Seq(Pieces)
    BY <1>14, <2>2, ConcatProperties DEF AnswerRead
  <2> QED BY <1>14, <2>1, <2>3 DEF AnswerRead
<1>15. CASE StoreWrite
  <2>1. Head(toDevice) \in Requests /\ Tail(toDevice) \in Seq(Requests)
    BY <1>15, HeadTailProperties DEF StoreWrite
  <2>2. FrameOf(Head(toDevice).id, "set", device) \in Seq(Pieces)
    BY <2>1, FrameOfType DEF Requests, Opcodes
  <2>3. air' \in Seq(Pieces)
    <3>1. air' \in {air, air \o FrameOf(Head(toDevice).id, "set", device)}
      BY <1>15, Zenon DEF StoreWrite
    <3>2. air \o FrameOf(Head(toDevice).id, "set", device) \in Seq(Pieces)
      BY <2>2, ConcatProperties
    <3> QED BY <3>1, <3>2
  <2>4. device' \in Overrides /\ stored' \in BOOLEAN
    BY <1>15, <2>1 DEF StoreWrite, Requests, Editing
  <2> QED BY <1>15, <2>1, <2>3, <2>4 DEF StoreWrite
<1>16. CASE Lose
  BY <1>16, LossShortens DEF Lose
<1>17. CASE UNCHANGED vars
  BY <1>17 DEF vars
<1>18. ASSUME NEW t \in Tasks, Abort(t) \/ Cancel(t) PROVE TypeOK'
  BY <1>7, <1>18 DEF Abort, Cancel
<1> QED
  BY <1>1, <1>2, <1>3, <1>4, <1>5, <1>6, <1>8, <1>9, <1>10, <1>11, <1>12, <1>13,
     <1>14, <1>15, <1>16, <1>17, <1>18, ProgressIs DEF Next

-----------------------------------------------------------------------------
(* The locks and the future                                                *)

\* None is no task, and no task is another one.
LEMMA FinishUnlocks ==
  ASSUME TypeOK, LockInv, NEW t \in Tasks, NEW how, Finish(t, how),
         UNCHANGED <<stage, failed>>
  PROVE  LockInv'
BY DEF TypeOK, LockInv, Finish, Holding

LEMMA ContinueUnlocks ==
  ASSUME TypeOK, LockInv, NEW t \in Tasks, NEW next \in Applying, Continue(t, next),
         lock = t, editing = t, UNCHANGED failed
  PROVE  LockInv'
BY DEF TypeOK, LockInv, Continue, Holding, Applying

\* Who takes a reply, or has written, holds _lock, and _configuration_lock too
\* from the check on.
LEMMA SettlingHolds ==
  ASSUME LockInv, NEW t \in Tasks, pc[t] = "settling"
  PROVE  lock = t /\ (stage[t] \in Applying => editing = t) /\ ~failed
BY DEF LockInv, Holding, Applying

LEMMA LockStep ==
  ASSUME TypeOK, LockInv, [Next]_vars
  PROVE  LockInv'
<1> USE DEF locks, inbox, link, table
<1>1. ASSUME NEW t \in Tasks, NEW first \in {"read", "plan", "check"}, Call(t, first)
      PROVE  LockInv'
  BY <1>1 DEF Call, LockInv, TypeOK, Holding, Applying
<1>2. ASSUME NEW t \in Tasks, BeginEdit(t) PROVE LockInv'
  BY <1>2 DEF BeginEdit, LockInv, TypeOK, Holding, Applying
<1>3. ASSUME NEW t \in Tasks, CancelWait(t) PROVE LockInv'
  BY <1>3, FinishUnlocks DEF CancelWait
<1>4. ASSUME NEW t \in Tasks, Begin(t) PROVE LockInv'
  BY <1>4 DEF Begin, Usable, LockInv, TypeOK, Holding
<1>5. ASSUME NEW t \in Tasks, Send(t) PROVE LockInv'
  BY <1>5 DEF Send, Leaves, LockInv, TypeOK, Holding
<1>6. ASSUME NEW t \in Tasks, Receive(t) PROVE LockInv'
  BY <1>6 DEF Receive, LockInv, TypeOK, Holding
<1>7. ASSUME NEW t \in Tasks, NEW phase \in {"failing", "cancelling"}, Fail(t, phase),
             pc[t] \in {"sending", "receiving", "settling"}
      PROVE  LockInv'
  <2>1. \A u \in Tasks : u # t => pc[u] \notin Holding /\ pc'[u] = pc[u]
    BY <1>7 DEF Fail, LockInv, TypeOK, Holding
  <2>2. pc'[t] = phase /\ lock = t /\ failed' = TRUE /\ UNCHANGED <<lock, editing, stage>>
    BY <1>7 DEF Fail, LockInv, TypeOK, Holding
  <2> QED BY <1>7, <2>1, <2>2 DEF LockInv, Holding
<1>8. ASSUME NEW t \in Tasks, Refuse(t) PROVE LockInv'
  BY <1>8, FinishUnlocks DEF Refuse
<1>9. ASSUME NEW t \in Tasks, FailEnds(t) PROVE LockInv'
  BY <1>9, FinishUnlocks DEF FailEnds
<1>10. ASSUME NEW t \in Tasks, Written(t) PROVE LockInv'
  BY <1>10, SettlingHolds, ContinueUnlocks DEF Written, Applying
<1>11. ASSUME NEW t \in Tasks, Takes(t) PROVE LockInv'
  <2>1. Replied(t)
    BY <1>11, TakesEffect
  <2>2. CASE Proceed(t)
    BY <2>1, <2>2, SettlingHolds, ContinueUnlocks DEF Proceed, Replied, Applying
  <2>3. CASE \E how \in Results : Finish(t, how) /\ UNCHANGED stage
    BY <2>1, <2>3, FinishUnlocks DEF Replied
  <2> QED BY <1>11, <2>2, <2>3, TakesEffect
<1>12. CASE Notification \/ Disconnected \/ AnswerRead \/ StoreWrite \/ Lose \/ UNCHANGED vars
  <2>1. UNCHANGED <<lock, editing, failed, pc, stage>>
    BY <1>12 DEF Notification, Disconnected, AnswerRead, StoreWrite, Lose, vars
  <2> QED BY <2>1 DEF LockInv
<1>13. ASSUME NEW t \in Tasks, Abort(t) \/ Cancel(t) PROVE LockInv'
  BY <1>7, <1>13 DEF Abort, Cancel
<1> QED
  BY <1>1, <1>2, <1>3, <1>4, <1>5, <1>6, <1>8, <1>9, <1>10, <1>11, <1>12, <1>13,
     ProgressIs DEF Next

\* Nobody else is past _lock.
LEMMA OnlyHolder ==
  ASSUME LockInv, NEW t \in Tasks, NEW u \in Tasks, pc[t] \in Holding, pc[u] \in Holding
  PROVE  t = u
BY DEF LockInv

\* A step that ends the request of t: nothing is pending, nobody settles.
LEMMA ForgottenFuture ==
  ASSUME TypeOK, LockInv, NEW t \in Tasks, pc[t] \in Holding, Forget,
         \A u \in Tasks : u # t => pc'[u] = pc[u], pc'[t] # "settling"
  PROVE  FutureInv'
BY ClientAssumption DEF Forget, FutureInv, LockInv, Holding, Opcodes

LEMMA FutureStep ==
  ASSUME TypeOK, LockInv, FutureInv, [Next]_vars
  PROVE  FutureInv'
<1> USE DEF locks, inbox, link, table
<1>1. ASSUME NEW t \in Tasks, UNCHANGED <<lock, inbox>>, pc[t] \notin Holding,
             pc'[t] \notin Holding,
             \A u \in Tasks : u # t => pc'[u] = pc[u] /\ stage'[u] = stage[u]
      PROVE  FutureInv'
  BY <1>1 DEF FutureInv, TypeOK, LockInv, Holding
<1>2. ASSUME NEW t \in Tasks, NEW first \in {"read", "plan", "check"}, Call(t, first)
      PROVE  FutureInv'
  BY <1>1, <1>2 DEF Call, TypeOK, Holding
<1>3. ASSUME NEW t \in Tasks, BeginEdit(t) PROVE FutureInv'
  BY <1>1, <1>3 DEF BeginEdit, TypeOK, Holding
<1>4. ASSUME NEW t \in Tasks, CancelWait(t) \/ Refuse(t) PROVE FutureInv'
  <2>1. lock # t /\ lock' = lock
    BY <1>4 DEF CancelWait, Refuse, Finish, LockInv, Holding
  <2> QED BY <1>1, <1>4, <2>1 DEF CancelWait, Refuse, Finish, TypeOK, Holding
<1>5. ASSUME NEW t \in Tasks, Begin(t) PROVE FutureInv'
  <2>1. lock = None /\ lock' = t /\ pc' = [pc EXCEPT ![t] = "sending"] /\ stage' = stage
    BY <1>5 DEF Begin
  <2>2. \A u \in Tasks : pc'[u] # "settling" /\ pc'[t] = "sending"
    BY <2>1 DEF TypeOK, LockInv, Holding
  <2>3. expected = None /\ reply = None
    BY <2>1 DEF FutureInv
  <2>4. /\ expected' # "set" /\ reply' = None
        /\ expected' # None => stage[t] # "write"
    BY <1>5, <2>3 DEF Begin, Opcode, FutureInv
  <2> QED BY <2>1, <2>2, <2>4 DEF FutureInv
<1>6. ASSUME NEW t \in Tasks, Send(t) PROVE FutureInv'
  <2>1. lock = t /\ pc[t] = "sending" /\ UNCHANGED <<lock, inbox, stage>>
    BY <1>6 DEF Send, Leaves, LockInv, Holding
  <2>2. pc' = [pc EXCEPT ![t] = IF stage[t] = "write" THEN "settling" ELSE "receiving"]
    BY <1>6 DEF Send
  <2> QED BY <2>1, <2>2 DEF FutureInv, TypeOK
<1>7. ASSUME NEW t \in Tasks, Receive(t) PROVE FutureInv'
  <2>1. lock = t /\ pc[t] = "receiving" /\ reply \in Frames /\ UNCHANGED <<lock, inbox, stage>>
    BY <1>7 DEF Receive, LockInv, Holding
  <2>2. pc' = [pc EXCEPT ![t] = "settling"]
    BY <1>7 DEF Receive
  <2> QED BY <2>1, <2>2 DEF FutureInv, TypeOK
<1>8. ASSUME NEW t \in Tasks, Abort(t) \/ Cancel(t) PROVE FutureInv'
  BY <1>8, ForgottenFuture DEF Abort, Cancel, Fail, TypeOK, Holding
<1>9. ASSUME NEW t \in Tasks, FailEnds(t) PROVE FutureInv'
  <2>1. lock = t /\ lock' = None /\ UNCHANGED inbox
    BY <1>9 DEF FailEnds, Finish, LockInv, Holding
  <2>2. pc' = [pc EXCEPT ![t] = "idle"]
    BY <1>9 DEF FailEnds, Finish
  <2>3. expected = None /\ reply = None
    BY <1>9, <2>1 DEF FutureInv, FailEnds
  <2>4. \A u \in Tasks : pc'[u] # "settling"
    BY <2>1, <2>2 DEF TypeOK, LockInv, Holding
  <2> QED BY <2>1, <2>3, <2>4 DEF FutureInv
<1>10. ASSUME NEW t \in Tasks, Written(t) PROVE FutureInv'
  <2>1. lock = t /\ pc[t] = "settling" /\ stage[t] = "write" /\ lock' = None /\ UNCHANGED inbox
    BY <1>10, SettlingHolds DEF Written, Continue
  <2>2. pc' = [pc EXCEPT ![t] = "waiting"]
    BY <1>10 DEF Written, Continue
  <2>3. expected = None /\ reply = None
    BY <2>1 DEF FutureInv
  <2>4. \A u \in Tasks : pc'[u] # "settling"
    BY <2>1, <2>2 DEF TypeOK, LockInv, Holding
  <2> QED BY <2>1, <2>3, <2>4 DEF FutureInv
<1>11. ASSUME NEW t \in Tasks, Takes(t) PROVE FutureInv'
  <2>1. Replied(t)
    BY <1>11, TakesEffect
  <2>2. \E next \in {"idle", "waiting"} : pc' = [pc EXCEPT ![t] = next]
    BY <1>11, TakesEffect DEF Finish, Proceed, Continue
  <2> QED BY <2>1, <2>2, ForgottenFuture DEF Replied, TypeOK, Holding
<1>12. CASE Notification
  <2>1. UNCHANGED <<lock, expected, pc, stage>>
    BY <1>12 DEF Notification
  <2>2. reply' = reply \/ (expected # None /\ reply' \in Frames \union {Error} /\ reply = None)
    BY <1>12, NotificationEffect DEF Completes, Pending
  <2> QED BY <2>1, <2>2 DEF FutureInv
<1>13. CASE Disconnected
  <2>1. UNCHANGED <<lock, expected, pc, stage>>
    BY <1>13 DEF Disconnected
  <2>2. reply' = reply \/ (expected # None /\ reply' = Error /\ reply = None)
    BY <1>13 DEF Disconnected, Pending
  <2> QED BY <2>1, <2>2 DEF FutureInv
<1>14. CASE AnswerRead \/ StoreWrite \/ Lose \/ UNCHANGED vars
  <2>1. UNCHANGED <<lock, expected, reply, pc, stage>>
    BY <1>14 DEF AnswerRead, StoreWrite, Lose, vars
  <2> QED BY <2>1 DEF FutureInv
<1> QED
  BY <1>2, <1>3, <1>4, <1>5, <1>6, <1>7, <1>8, <1>9, <1>10, <1>11, <1>12, <1>13, <1>14,
     ProgressIs DEF Next

-----------------------------------------------------------------------------
(* Plans, and the write of the call in progress                            *)

LEMMA PlanStep ==
  ASSUME TypeOK, LockInv, FutureInv, PlanInv, [Next]_vars
  PROVE  PlanInv'
<1> USE DEF locks, inbox, link, table
<1>1. ASSUME plan' = plan,
             \A u \in Tasks : pc'[u] # "idle" /\ stage'[u] \in Applying =>
               plan[u] # None
      PROVE  PlanInv'
  BY <1>1 DEF PlanInv
<1>2. ASSUME NEW t \in Tasks, NEW first \in {"read", "plan", "check"}, Call(t, first)
      PROVE  PlanInv'
  <2>1. plan' = plan
    BY <1>2 DEF Call
  <2>2. ASSUME NEW u \in Tasks, pc'[u] # "idle", stage'[u] \in Applying
        PROVE  plan[u] # None
    BY <1>2, <2>2 DEF Call, PlanInv, TypeOK, Applying
  <2> QED BY <1>1, <2>1, <2>2
<1>3. ASSUME NEW t \in Tasks, pc[t] # "idle", UNCHANGED <<plan, stage>>,
             \A u \in Tasks : u # t => pc'[u] = pc[u]
      PROVE  PlanInv'
  BY <1>1, <1>3 DEF PlanInv
<1>4. ASSUME NEW t \in Tasks,
             BeginEdit(t) \/ CancelWait(t) \/ Begin(t) \/ Send(t) \/ Receive(t)
             \/ Refuse(t) \/ Abort(t) \/ Cancel(t) \/ FailEnds(t)
      PROVE  PlanInv'
  BY <1>3, <1>4 DEF BeginEdit, CancelWait, Begin, Send, Receive, Refuse, Abort, Cancel,
     Fail, FailEnds, Finish, Leaves, TypeOK
<1>5. ASSUME NEW t \in Tasks, NEW next \in {"write", "readback"}, Continue(t, next),
             pc[t] = "settling", stage[t] \in Applying
      PROVE  PlanInv'
  <2>1. plan' = plan
    BY <1>5 DEF Continue
  <2>2. ASSUME NEW u \in Tasks, pc'[u] # "idle", stage'[u] \in Applying
        PROVE  plan[u] # None
    BY <1>5, <2>2 DEF Continue, PlanInv, TypeOK
  <2> QED BY <1>1, <2>1, <2>2
<1>6. ASSUME NEW t \in Tasks, Written(t) PROVE PlanInv'
  BY <1>5, <1>6 DEF Written, Applying
<1>7. ASSUME NEW t \in Tasks, Takes(t) PROVE PlanInv'
  <2>1. Replied(t)
    BY <1>7, TakesEffect
  <2>2. CASE Proceed(t)
    BY <1>5, <2>2 DEF Proceed, Replied, Applying
  <2>3. ASSUME NEW how, Finish(t, how), UNCHANGED <<stage, plan>> PROVE PlanInv'
    BY <1>3, <2>1, <2>3 DEF Finish, Replied, TypeOK
  <2>4. ASSUME NEW slot \in Slots, NEW s \in Wanted, AcceptPlan(t, slot, s)
        PROVE  PlanInv'
    <3> DEFINE p == MakePlan(reply.overrides, slot, s)
    <3>1. Accepted(p.before, Target(p))
      BY <2>4 DEF AcceptPlan, Accepted, Target, MakePlan
    <3>2. /\ plan' = [plan EXCEPT ![t] = p] /\ pc' = [pc EXCEPT ![t] = "idle"]
          /\ stage' = stage
      BY <2>4 DEF AcceptPlan, Finish
    <3> HIDE DEF p
    <3> QED BY <3>1, <3>2 DEF PlanInv, TypeOK
  <2> QED BY <1>7, <2>2, <2>3, <2>4, TakesEffect
<1>8. CASE Notification \/ Disconnected \/ AnswerRead \/ StoreWrite \/ Lose \/ UNCHANGED vars
  <2>1. UNCHANGED <<pc, stage, plan>>
    BY <1>8 DEF Notification, Disconnected, AnswerRead, StoreWrite, Lose, vars
  <2> QED BY <2>1 DEF PlanInv
<1> QED
  BY <1>2, <1>4, <1>6, <1>7, <1>8, ProgressIs DEF Next

LEMMA StoredStep ==
  ASSUME TypeOK, LockInv, StoredInv, [Next]_vars
  PROVE  StoredInv'
<1> USE DEF locks, inbox, link, table
<1>1. ASSUME NEW t \in Tasks, NEW first \in {"read", "plan", "check"}, Call(t, first)
      PROVE  StoredInv'
  <2>1. editing # t /\ UNCHANGED <<editing, stored>>
    BY <1>1 DEF Call, LockInv
  <2>2. stage' = [stage EXCEPT ![t] = first]
    BY <1>1 DEF Call
  <2> QED BY <2>1, <2>2 DEF StoredInv, TypeOK
<1>2. ASSUME NEW t \in Tasks, BeginEdit(t) PROVE StoredInv'
  BY <1>2 DEF BeginEdit, StoredInv
<1>3. ASSUME NEW t \in Tasks, NEW how, Finish(t, how), UNCHANGED <<stage, stored>>
      PROVE  StoredInv'
  BY <1>3 DEF Finish, StoredInv
<1>4. ASSUME NEW t \in Tasks, CancelWait(t) \/ Refuse(t) \/ FailEnds(t) PROVE StoredInv'
  BY <1>3, <1>4 DEF CancelWait, Refuse, FailEnds
<1>5. ASSUME NEW t \in Tasks,
             Begin(t) \/ Send(t) \/ Receive(t) \/ Abort(t) \/ Cancel(t)
      PROVE  StoredInv'
  <2>1. UNCHANGED <<editing, stage, stored>>
    BY <1>5 DEF Begin, Send, Receive, Abort, Cancel, Fail
  <2> QED BY <2>1 DEF StoredInv
<1>6. ASSUME NEW t \in Tasks, NEW next \in {"write", "readback"}, Continue(t, next),
             UNCHANGED stored
      PROVE  StoredInv'
  BY <1>6 DEF Continue, StoredInv, TypeOK
<1>7. ASSUME NEW t \in Tasks, Written(t) PROVE StoredInv'
  BY <1>6, <1>7 DEF Written
<1>8. ASSUME NEW t \in Tasks, Takes(t) PROVE StoredInv'
  <2>1. Replied(t)
    BY <1>8, TakesEffect
  <2>2. CASE Proceed(t)
    BY <1>6, <2>1, <2>2 DEF Proceed, Replied
  <2>3. CASE \E how \in Results : Finish(t, how) /\ UNCHANGED stage
    BY <1>3, <2>1, <2>3 DEF Replied
  <2> QED BY <1>8, <2>2, <2>3, TakesEffect
<1>9. CASE StoreWrite
  <2>1. UNCHANGED <<editing, stage>> /\ (stored' = (stored \/ Editing) \/ stored' = stored)
    BY <1>9 DEF StoreWrite
  <2> QED BY <2>1 DEF StoredInv, Editing
<1>10. CASE Notification \/ Disconnected \/ AnswerRead \/ Lose \/ UNCHANGED vars
  <2>1. UNCHANGED <<editing, stage, stored>>
    BY <1>10 DEF Notification, Disconnected, AnswerRead, Lose, vars
  <2> QED BY <2>1 DEF StoredInv
<1> QED
  BY <1>1, <1>2, <1>4, <1>5, <1>7, <1>8, <1>9, <1>10, ProgressIs DEF Next

-----------------------------------------------------------------------------
(* What is under way                                                       *)

\* What arrives is what arrived before, without some of it.
Thinned ==
  \E kept \in [1..Len(Arriving') -> 1..Len(Arriving)] :
    /\ \A i \in 1..Len(Arriving') : Arriving'[i] = Arriving[kept[i]]
    /\ \A i, j \in 1..Len(Arriving') : i < j => kept[i] < kept[j]

LEMMA UnchangedThinned ==
  ASSUME TypeOK, UNCHANGED <<buffer, air>> PROVE Thinned
<1>1. Arriving' = Arriving
  BY DEF Arriving
<1> DEFINE kept == [i \in 1..Len(Arriving') |-> i]
<1>2. kept \in [1..Len(Arriving') -> 1..Len(Arriving)]
  BY <1>1
<1>3. /\ \A i \in 1..Len(Arriving') : Arriving'[i] = Arriving[kept[i]]
      /\ \A i, j \in 1..Len(Arriving') : i < j => kept[i] < kept[j]
  BY <1>1
<1> HIDE DEF kept
<1> QED BY <1>2, <1>3 DEF Thinned

LEMMA LeftThinned ==
  ASSUME TypeOK, NEW k \in 0..Len(Arriving), Left(k) PROVE Thinned
<1> DEFINE kept == [i \in 1..Len(Arriving') |-> i + k]
<1>1. Len(Arriving) \in Nat /\ Len(Arriving') = Len(Arriving) - k
  BY ArrivingType DEF Left
<1>2. kept \in [1..Len(Arriving') -> 1..Len(Arriving)]
  BY <1>1
<1>3. /\ \A i \in 1..Len(Arriving') : Arriving'[i] = Arriving[kept[i]]
      /\ \A i, j \in 1..Len(Arriving') : i < j => kept[i] < kept[j]
  BY <1>1 DEF Left
<1> HIDE DEF kept
<1> QED BY <1>2, <1>3 DEF Thinned

LEMMA LossThinned == ASSUME TypeOK, Lose PROVE Thinned
<1> DEFINE kept == [i \in 1..Len(Arriving') |-> IF i <= Len(buffer) THEN i ELSE i + 1]
<1>1. /\ Len(Arriving) \in Nat /\ Len(buffer) \in Nat
      /\ Len(Arriving') = Len(Arriving) - 1
  BY LossShortens, ArrivingType
<1>2. kept \in [1..Len(Arriving') -> 1..Len(Arriving)]
  BY <1>1
<1>3. /\ \A i \in 1..Len(Arriving') : Arriving'[i] = Arriving[kept[i]]
      /\ \A i, j \in 1..Len(Arriving') : i < j => kept[i] < kept[j]
  BY <1>1, LossShortens
<1> HIDE DEF kept
<1> QED BY <1>2, <1>3 DEF Thinned

\* With the connection go the bytes in the air; with a new request the buffer.
LEMMA ClearedThinned ==
  ASSUME TypeOK,
         \/ buffer' = buffer /\ air' = <<>>
         \/ buffer' = <<>> /\ air' = air
  PROVE  Thinned
<1>1. buffer \in Seq(Pieces) /\ air \in Seq(Pieces)
  BY DEF TypeOK
<1>2. CASE buffer' = buffer /\ air' = <<>>
  <2>1. Arriving' = buffer
    BY <1>1, <1>2, ConcatEmptySeq DEF Arriving
  <2> DEFINE kept == [i \in 1..Len(Arriving') |-> i]
  <2>2. kept \in [1..Len(Arriving') -> 1..Len(Arriving)]
    BY <2>1, ArrivingType
  <2>3. /\ \A i \in 1..Len(Arriving') : Arriving'[i] = Arriving[kept[i]]
        /\ \A i, j \in 1..Len(Arriving') : i < j => kept[i] < kept[j]
    BY <2>1, ArrivingType
  <2> HIDE DEF kept
  <2> QED BY <2>2, <2>3 DEF Thinned
<1>3. CASE buffer' = <<>> /\ air' = air
  <2>1. Arriving' = air
    BY <1>1, <1>3, ConcatEmptySeq DEF Arriving
  <2>2. Left(Len(buffer)) /\ Len(buffer) \in 0..Len(Arriving)
    BY <2>1, ArrivingType DEF Left
  <2> QED BY <2>2, LeftThinned
<1> QED BY <1>2, <1>3

LEMMA ThinnedKeeps ==
  ASSUME TypeOK, Thinned
  PROVE  /\ NothingRead => NothingRead'
         /\ Answered /\ UNCHANGED <<sent, device, toDevice>> => Answered'
<1>1. PICK kept \in [1..Len(Arriving') -> 1..Len(Arriving)] :
        /\ \A i \in 1..Len(Arriving') : Arriving'[i] = Arriving[kept[i]]
        /\ \A i, j \in 1..Len(Arriving') : i < j => kept[i] < kept[j]
  BY DEF Thinned
<1>2. \A i \in 1..Len(Arriving') : kept[i] \in 1..Len(Arriving)
  OBVIOUS
<1>3. NothingRead => NothingRead'
  BY <1>1, <1>2 DEF NothingRead
<1>4. ASSUME Answered, UNCHANGED <<sent, device, toDevice>> PROVE Answered'
  <2>1. ASSUME NEW i \in 1..Len(Arriving'), Arriving'[i].opcode # "set"
        PROVE  /\ Arriving'[i].id = sent
               /\ Arriving'[i].overrides = device
               /\ \A j \in 1..Len(Arriving') :
                    i < j /\ Arriving'[j].opcode # "set" => Arriving'[i].part < Arriving'[j].part
    <3>1. kept[i] \in 1..Len(Arriving) /\ Arriving'[i] = Arriving[kept[i]]
      BY <1>1, <1>2
    <3>2. Arriving'[i].id = sent /\ Arriving'[i].overrides = device
      BY <1>4, <2>1, <3>1 DEF Answered
    <3>3. ASSUME NEW j \in 1..Len(Arriving'), i < j, Arriving'[j].opcode # "set"
          PROVE  Arriving'[i].part < Arriving'[j].part
      <4>1. kept[j] \in 1..Len(Arriving) /\ Arriving'[j] = Arriving[kept[j]]
            /\ kept[i] < kept[j]
        BY <1>1, <1>2, <3>3
      <4> QED BY <1>4, <2>1, <3>1, <3>3, <4>1 DEF Answered
    <3> QED BY <3>2, <3>3
  <2> QED BY <1>4, <2>1 DEF Answered
<1> QED BY <1>3, <1>4

\* Nothing new is under way.
LEMMA ThinnedStep ==
  ASSUME TypeOK, ChannelInv, Thinned,
         UNCHANGED <<sent, device, failed>>,
         toDevice' = toDevice \/ toDevice' = <<>>,
         reply' \in Frames => reply' = reply /\ pc'[lock'] # "sending",
         Receiving /\ reply' \notin Frames => Receiving'
  PROVE  ChannelInv'
<1>1. \A i \in 1..Len(toDevice') :
        /\ toDevice'[i].opcode = "set" <=> toDevice'[i].write # None
        /\ OnlyWrites => toDevice'[i].write # None
  BY DEF ChannelInv, OnlyWrites, TypeOK
<1>2. OnlyWrites /\ NothingRead => OnlyWrites' /\ NothingRead'
  BY <1>1, ThinnedKeeps DEF OnlyWrites
<1>3. reply' \in Frames => /\ toDevice' = <<>> /\ NothingRead'
                           /\ reply'.id = sent' /\ reply'.overrides = device'
                           /\ pc'[lock'] # "sending"
  BY ThinnedKeeps DEF ChannelInv
<1>4. ASSUME Receiving, Unanswered \/ Answered
      PROVE  \/ OnlyWrites' /\ NothingRead'
             \/ Receiving' /\ (Unanswered' \/ Answered')
  <2>1. Receiving'
    BY <1>4 DEF Receiving
  <2>2. CASE Answered
    BY <2>1, <2>2, ThinnedKeeps DEF Answered
  <2>3. CASE Unanswered /\ toDevice' = toDevice
    BY <2>1, <2>3, ThinnedKeeps DEF Unanswered
  <2>4. CASE Unanswered /\ toDevice' = <<>>
    <3>1. OnlyWrites'
      BY <2>4 DEF OnlyWrites
    <3>2. NothingRead'
      BY <2>4, ThinnedKeeps DEF Unanswered
    <3> QED BY <3>1, <3>2
  <2> QED BY <1>4, <2>2, <2>3, <2>4
<1>5. ~failed' => \/ OnlyWrites' /\ NothingRead'
                  \/ Receiving' /\ (Unanswered' \/ Answered')
  <2> SUFFICES ASSUME ~failed'
               PROVE  \/ OnlyWrites' /\ NothingRead'
                      \/ Receiving' /\ (Unanswered' \/ Answered')
    OBVIOUS
  <2>1. \/ OnlyWrites /\ NothingRead
        \/ Receiving /\ (Unanswered \/ Answered)
    BY DEF ChannelInv
  <2> QED BY <1>2, <1>4, <2>1
<1> QED BY <1>1, <1>3, <1>5 DEF ChannelInv

\* Once the client has failed only the form of the requests matters.
LEMMA FailedStep ==
  ASSUME failed', reply' \notin Frames,
         \A i \in 1..Len(toDevice') : toDevice'[i].opcode = "set" <=> toDevice'[i].write # None
  PROVE  ChannelInv'
BY DEF ChannelInv

\* What goes out with the last chunk.
LEMMA LeavesEffect ==
  ASSUME TypeOK, LockInv, PlanInv, NEW t \in Tasks, Leaves(t)
  PROVE  /\ lock = t /\ ~failed
         /\ Len(toDevice) \in Nat /\ Len(toDevice') = Len(toDevice) + 1
         /\ \A i \in 1..Len(toDevice) : toDevice'[i] = toDevice[i]
         /\ toDevice'[Len(toDevice')].id = sent'
         /\ toDevice'[Len(toDevice')].write = Packet(t)
         /\ toDevice'[Len(toDevice')].opcode = "set" <=> Packet(t) # None
         /\ Packet(t) # None <=> stage[t] = "write"
         /\ Packet(t) # None => Packet(t) = Target(plan[t]) /\ plan[t] # None
<1>1. lock = t /\ ~failed /\ pc[t] = "sending"
  BY DEF Leaves, LockInv, Holding
<1>2. ASSUME stage[t] = "write"
      PROVE  Packet(t) = Target(plan[t]) /\ plan[t] # None /\ Packet(t) # None
  <2>1. plan[t] \in Plan
    BY <1>1, <1>2 DEF TypeOK, PlanInv, Applying
  <2> QED BY <1>2, <2>1, TargetType DEF Packet
<1>3. stage[t] # "write" => Packet(t) = None
  BY DEF Packet
<1> DEFINE request == [id |-> sent + 1, write |-> Packet(t),
                       opcode |-> IF stage[t] = "write" THEN "set" ELSE Opcode(t)]
<1>4. /\ request.id = sent + 1 /\ request.write = Packet(t)
      /\ request.opcode = "set" <=> stage[t] = "write"
  BY DEF Opcode
<1>5. toDevice' = Append(toDevice, request) /\ sent' = sent + 1
  BY DEF Leaves
<1> HIDE DEF request
<1> QED BY <1>1, <1>2, <1>3, <1>4, <1>5, AppendProperties DEF TypeOK

\* An answer, or nothing, is added to what is in the air.
LEMMA Answers ==
  ASSUME TypeOK, LockInv, FutureInv, ChannelInv, toDevice # <<>>, reply' = reply,
         UNCHANGED <<lock, failed, pc, sent, buffer>>, toDevice' = Tail(toDevice)
  PROVE  /\ Head(toDevice) = toDevice[1] /\ toDevice[1] \in Requests
         /\ Len(toDevice) \in Nat \ {0} /\ Len(toDevice') = Len(toDevice) - 1
         /\ \A i \in 1..Len(toDevice') : toDevice'[i] = toDevice[i + 1]
         /\ \A i \in 1..Len(toDevice') :
              toDevice'[i].opcode = "set" <=> toDevice'[i].write # None
         /\ reply \notin Frames
         /\ Receiving' = Receiving
         /\ ~failed => \/ OnlyWrites /\ NothingRead
                       \/ Receiving /\ Unanswered
<1>1. toDevice \in Seq(Requests)
  BY DEF TypeOK
<1>2. /\ Head(toDevice) = toDevice[1] /\ toDevice[1] \in Requests
      /\ Len(toDevice) \in Nat \ {0} /\ Len(toDevice') = Len(toDevice) - 1
      /\ \A i \in 1..Len(toDevice') : toDevice'[i] = toDevice[i + 1]
  BY <1>1, HeadTailProperties
<1>3. \A i \in 1..Len(toDevice') :
        toDevice'[i].opcode = "set" <=> toDevice'[i].write # None
  BY <1>2 DEF ChannelInv
<1>4. reply \notin Frames /\ Receiving' = Receiving
  BY DEF ChannelInv, Receiving
<1>5. ~failed => \/ OnlyWrites /\ NothingRead
                 \/ Receiving /\ Unanswered
  BY DEF ChannelInv, Answered
<1> QED BY <1>2, <1>3, <1>4, <1>5

LEMMA AnswerReadStep ==
  ASSUME TypeOK, LockInv, FutureInv, ChannelInv, AnswerRead
  PROVE  ChannelInv'
<1> DEFINE request == Head(toDevice)
           frame == FrameOf(request.id, request.opcode, device)
<1>1. /\ toDevice # <<>> /\ request.write = None /\ air' = air \o frame
      /\ toDevice' = Tail(toDevice)
      /\ UNCHANGED <<lock, failed, pc, sent, buffer, reply, device>>
  BY DEF AnswerRead, locks, inbox, table
<1>2. /\ request = toDevice[1] /\ request \in Requests
      /\ Len(toDevice) \in Nat \ {0} /\ Len(toDevice') = Len(toDevice) - 1
      /\ \A i \in 1..Len(toDevice') :
           toDevice'[i].opcode = "set" <=> toDevice'[i].write # None
      /\ reply' \notin Frames
      /\ Receiving' = Receiving
      /\ ~failed => \/ OnlyWrites /\ NothingRead
                    \/ Receiving /\ Unanswered
  BY <1>1, Answers
<1>3. /\ frame \in Seq(Pieces) /\ Len(frame) = FrameSize
      /\ \A i \in 1..FrameSize :
           frame[i] = [id |-> request.id, opcode |-> request.opcode, part |-> i,
                       overrides |-> device]
  <2>1. request.id \in Nat /\ request.opcode \in Opcodes /\ device \in Overrides
    BY <1>2 DEF Requests, TypeOK
  <2> HIDE DEF request
  <2> QED BY <2>1, FrameOfType
<1> HIDE DEF request, frame
<1>4. /\ Len(Arriving') = Len(Arriving) + FrameSize /\ Len(Arriving) \in Nat
      /\ \A i \in 1..Len(Arriving') : Arriving'[i] =
           IF i <= Len(Arriving) THEN Arriving[i] ELSE frame[i - Len(Arriving)]
  <2>1. frame \in Seq(Pieces) /\ air' = air \o frame /\ buffer' = buffer
    BY <1>1, <1>3
  <2>2. /\ Len(Arriving') = Len(Arriving) + Len(frame)
        /\ \A i \in 1..Len(Arriving') : Arriving'[i] =
             IF i <= Len(Arriving) THEN Arriving[i] ELSE frame[i - Len(Arriving)]
    BY <2>1, AnswerArrives
  <2> QED BY <1>3, <2>2, ArrivingType
<1>5. CASE failed
  BY <1>1, <1>2, <1>5, FailedStep
<1>6. CASE ~failed
  <2>1. Receiving /\ Unanswered
    BY <1>1, <1>2, <1>6 DEF OnlyWrites
  <2>2. Len(toDevice) = 1 /\ request.id = sent
    <3>1. 1 \in 1..Len(toDevice) /\ toDevice[1].write = None
      BY <1>1, <1>2
    <3>2. 1 = Len(toDevice)
      BY <2>1, <3>1 DEF Unanswered
    <3> QED BY <1>2, <2>1, <3>2 DEF Unanswered
  <2>3. toDevice' = <<>>
    BY <1>1, <1>2, <2>2, EmptySeq, HeadTailProperties DEF TypeOK
  <2>4. ASSUME NEW i \in 1..Len(Arriving'), Arriving'[i].opcode # "set"
        PROVE  /\ i - Len(Arriving) \in 1..FrameSize
               /\ Arriving'[i].id = sent /\ Arriving'[i].overrides = device
               /\ Arriving'[i].part = i - Len(Arriving)
    <3>1. ~(i <= Len(Arriving))
      BY <1>4, <2>1, <2>4 DEF Unanswered, NothingRead
    <3>2. i - Len(Arriving) \in 1..FrameSize /\ Arriving'[i] = frame[i - Len(Arriving)]
      BY <1>4, <3>1
    <3> QED BY <1>3, <2>2, <3>2
  <2>5. \A i, j \in 1..Len(Arriving') :
          i < j /\ Arriving'[i].opcode # "set" /\ Arriving'[j].opcode # "set" =>
            Arriving'[i].part < Arriving'[j].part
    <3> SUFFICES ASSUME NEW i \in 1..Len(Arriving'), NEW j \in 1..Len(Arriving'), i < j,
                        Arriving'[i].opcode # "set", Arriving'[j].opcode # "set"
                 PROVE  Arriving'[i].part < Arriving'[j].part
      OBVIOUS
    <3>1. Arriving'[i].part = i - Len(Arriving) /\ Arriving'[j].part = j - Len(Arriving)
      BY <2>4
    <3> QED BY <1>4, <3>1
  <2>6. Answered'
    BY <1>1, <2>3, <2>4, <2>5 DEF Answered
  <2> QED BY <1>2, <2>1, <2>6 DEF ChannelInv
<1> QED BY <1>5, <1>6

LEMMA StoreWriteStep ==
  ASSUME TypeOK, LockInv, FutureInv, ChannelInv, StoreWrite
  PROVE  ChannelInv'
<1> DEFINE request == Head(toDevice)
           frame == FrameOf(request.id, "set", device)
<1>1. /\ toDevice # <<>> /\ request.write # None
      /\ toDevice' = Tail(toDevice)
      /\ UNCHANGED <<lock, failed, pc, sent, buffer, reply>>
  BY DEF StoreWrite, locks, inbox
<1>2. /\ request = toDevice[1] /\ request \in Requests
      /\ Len(toDevice) \in Nat \ {0} /\ Len(toDevice') = Len(toDevice) - 1
      /\ \A i \in 1..Len(toDevice') : toDevice'[i] = toDevice[i + 1]
      /\ \A i \in 1..Len(toDevice') :
           toDevice'[i].opcode = "set" <=> toDevice'[i].write # None
      /\ reply' \notin Frames
      /\ Receiving' = Receiving
      /\ ~failed => \/ OnlyWrites /\ NothingRead
                    \/ Receiving /\ Unanswered
  BY <1>1, Answers
<1>3. /\ frame \in Seq(Pieces) /\ Len(frame) = FrameSize
      /\ \A i \in 1..FrameSize : frame[i].opcode = "set"
  <2>1. request.id \in Nat /\ "set" \in Opcodes /\ device \in Overrides
    BY <1>2 DEF Requests, Opcodes, TypeOK
  <2> HIDE DEF request
  <2>2. /\ frame \in Seq(Pieces) /\ Len(frame) = FrameSize
        /\ \A i \in 1..FrameSize :
             frame[i] = [id |-> request.id, opcode |-> "set", part |-> i,
                         overrides |-> device]
    BY <2>1, FrameOfType
  <2> HIDE DEF frame
  <2> QED BY <2>2
<1>4. air' = air \/ air' = air \o frame
  BY Zenon DEF StoreWrite
<1> HIDE DEF request, frame
<1>5. NothingRead => NothingRead'
  <2>1. CASE air' = air
    BY <1>1, <2>1, UnchangedThinned, ThinnedKeeps
  <2>2. CASE air' = air \o frame
    <3>1. /\ Len(Arriving') = Len(Arriving) + FrameSize /\ Len(Arriving) \in Nat
          /\ \A i \in 1..Len(Arriving') : Arriving'[i] =
               IF i <= Len(Arriving) THEN Arriving[i] ELSE frame[i - Len(Arriving)]
      <4>1. frame \in Seq(Pieces) /\ air' = air \o frame /\ buffer' = buffer
        BY <1>1, <1>3, <2>2
      <4>2. /\ Len(Arriving') = Len(Arriving) + Len(frame)
            /\ \A i \in 1..Len(Arriving') : Arriving'[i] =
                 IF i <= Len(Arriving) THEN Arriving[i] ELSE frame[i - Len(Arriving)]
        BY <4>1, AnswerArrives
      <4> QED BY <1>3, <4>2, ArrivingType
    <3> QED BY <1>3, <3>1 DEF NothingRead
  <2> QED BY <1>4, <2>1, <2>2
<1>6. CASE failed
  BY <1>1, <1>2, <1>6, FailedStep
<1>7. CASE OnlyWrites /\ NothingRead
  <2>1. OnlyWrites'
    BY <1>2, <1>7 DEF OnlyWrites
  <2> QED BY <1>2, <1>5, <1>7, <2>1 DEF ChannelInv
<1>8. CASE Receiving /\ Unanswered
  <2>1. Len(toDevice) # 1
    BY <1>1, <1>2, <1>8 DEF Unanswered
  <2>2. Len(toDevice') \in Nat \ {0} /\ toDevice'[Len(toDevice')] = toDevice[Len(toDevice)]
    BY <1>2, <2>1
  <2>3. \A i \in 1..Len(toDevice') : i # Len(toDevice') => toDevice'[i].write # None
    BY <1>2, <1>8 DEF Unanswered
  <2>4. toDevice' # <<>>
    BY <2>2
  <2>5. Unanswered'
    BY <1>1, <1>5, <1>8, <2>2, <2>3, <2>4 DEF Unanswered
  <2> QED BY <1>2, <1>8, <2>5 DEF ChannelInv
<1> QED BY <1>2, <1>6, <1>7, <1>8

\* A frame that completes a request answers it, and was all there was of a read.
LEMMA NotificationStep ==
  ASSUME TypeOK, LockInv, FutureInv, ChannelInv, Notification
  PROVE  ChannelInv'
<1>1. UNCHANGED <<lock, failed, expected, pc, sent, toDevice, device>>
  BY DEF Notification, locks, table
<1>2. PICK k \in 0..Len(Arriving) :
        /\ Left(k)
        /\ \/ reply' = reply
           \/ Pending /\ reply' = Error
           \/ Pending /\ Completes(k)
  BY NotificationEffect
<1>3. Thinned
  BY <1>2, LeftThinned
<1>4. CASE reply' = reply \/ (Pending /\ reply' = Error)
  <2>1. Receiving /\ reply' \notin Frames => Receiving'
    BY <1>1 DEF Receiving
  <2>2. reply' \in Frames => reply' = reply /\ pc'[lock'] # "sending"
    BY <1>1, <1>4 DEF ChannelInv
  <2> QED BY <1>1, <1>3, <2>1, <2>2, ThinnedStep
<1>5. CASE Pending /\ Completes(k)
  <2>1. PICK p \in 0..k - FrameSize :
          /\ reply'.overrides = Arriving[p + 1].overrides
          /\ \A j \in 1..FrameSize :
               /\ Arriving[p + j].part = j
               /\ Arriving[p + j].id = reply'.id /\ Arriving[p + j].opcode = expected
    BY <1>5 DEF Completes
  <2>2. reply' \in Frames /\ expected # "set" /\ ~failed
    BY <1>5 DEF Completes, FutureInv, LockInv, Pending, TypeOK
  <2>3. /\ Len(Arriving) \in Nat /\ p \in Nat /\ p + FrameSize <= k
        /\ \A j \in 1..FrameSize : p + j \in 1..Len(Arriving)
        /\ 1 \in 1..FrameSize /\ FrameSize \in 1..FrameSize
    BY ArrivingType
  <2>4. ~NothingRead
    BY <2>1, <2>2, <2>3 DEF NothingRead
  <2>5. Receiving /\ Answered
    BY <2>2, <2>4 DEF ChannelInv, Unanswered
  <2>6. reply'.id = sent /\ reply'.overrides = device
    BY <2>1, <2>2, <2>3, <2>5 DEF Answered
  <2>7. NothingRead'
    <3> SUFFICES ASSUME NEW i \in 1..Len(Arriving'), Arriving'[i].opcode # "set"
                 PROVE  FALSE
      BY DEF NothingRead
    <3>1. /\ i + k \in 1..Len(Arriving) /\ Arriving[i + k].opcode # "set"
          /\ p + FrameSize < i + k
      BY <1>2, <2>3 DEF Left
    <3>2. FrameSize < Arriving[i + k].part
      <4>1. /\ p + FrameSize \in 1..Len(Arriving)
            /\ Arriving[p + FrameSize].part = FrameSize
            /\ Arriving[p + FrameSize].opcode # "set"
        BY <2>1, <2>2, <2>3
      <4> QED BY <2>5, <3>1, <4>1 DEF Answered
    <3>3. Arriving[i + k] \in Pieces
      BY <3>1, ArrivingType
    <3> QED BY <3>2, <3>3 DEF Pieces
  <2>8. toDevice' = <<>> /\ OnlyWrites' /\ pc'[lock'] # "sending"
    BY <1>1, <2>5 DEF Answered, OnlyWrites, Receiving
  <2> QED BY <1>1, <2>2, <2>6, <2>7, <2>8 DEF ChannelInv
<1> QED BY <1>2, <1>4, <1>5

LEMMA ChannelStep ==
  ASSUME TypeOK, LockInv, FutureInv, PlanInv, ChannelInv, [Next]_vars
  PROVE  ChannelInv'
<1> USE DEF locks, inbox, link, table
<1>1. ASSUME UNCHANGED <<buffer, air, toDevice, sent, device, failed>>,
             reply' \in Frames => reply' = reply /\ pc'[lock'] # "sending",
             Receiving /\ reply' \notin Frames => Receiving'
      PROVE  ChannelInv'
  BY <1>1, UnchangedThinned, ThinnedStep
<1>2. ASSUME NEW t \in Tasks, lock # t, UNCHANGED <<lock, buffer, reply>>,
             UNCHANGED <<air, toDevice, sent, device, failed>>,
             \A u \in Tasks : u # t => pc'[u] = pc[u]
      PROVE  ChannelInv'
  <2>1. lock # None => pc'[lock'] = pc[lock]
    BY <1>2 DEF TypeOK
  <2>2. Receiving /\ reply' \notin Frames => Receiving'
    BY <1>2, <2>1 DEF Receiving
  <2>3. reply' \in Frames => reply' = reply /\ pc'[lock'] # "sending"
    BY <1>2, <2>1 DEF ChannelInv, FutureInv
  <2> QED BY <1>1, <1>2, <2>2, <2>3
<1>3. ASSUME NEW t \in Tasks, NEW first \in {"read", "plan", "check"}, Call(t, first)
      PROVE  ChannelInv'
  BY <1>2, <1>3 DEF Call, LockInv, Holding, TypeOK
<1>4. ASSUME NEW t \in Tasks, BeginEdit(t) \/ CancelWait(t) \/ Refuse(t) PROVE ChannelInv'
  <2>1. lock # t /\ lock' = lock
    BY <1>4 DEF BeginEdit, CancelWait, Refuse, Finish, LockInv, Holding
  <2> QED BY <1>2, <1>4, <2>1 DEF BeginEdit, CancelWait, Refuse, Finish, TypeOK
<1>5. ASSUME NEW t \in Tasks, Begin(t) PROVE ChannelInv'
  <2>1. ~Receiving /\ UNCHANGED <<sent, device, failed, toDevice, air>>
    BY <1>5 DEF Begin, Receiving
  <2>2. reply' \notin Frames
    BY <1>5 DEF Begin, FutureInv
  <2>3. Thinned
    BY <1>5, UnchangedThinned, ClearedThinned DEF Begin
  <2> QED BY <2>1, <2>2, <2>3, ThinnedStep
<1>6. ASSUME NEW t \in Tasks, Send(t) PROVE ChannelInv'
  <2>1. /\ lock = t /\ ~failed /\ pc[t] = "sending" /\ Leaves(t)
        /\ UNCHANGED <<lock, failed, buffer, air, reply, device>>
    BY <1>6, LeavesEffect DEF Send, Leaves
  <2>2. OnlyWrites /\ NothingRead /\ reply' \notin Frames
    BY <2>1 DEF ChannelInv, Receiving
  <2>3. NothingRead'
    BY <2>1, <2>2, UnchangedThinned, ThinnedKeeps
  <2>4. \A i \in 1..Len(toDevice') :
          toDevice'[i].opcode = "set" <=> toDevice'[i].write # None
    BY <2>1, LeavesEffect DEF ChannelInv
  <2>5. CASE stage[t] = "write"
    <3>1. OnlyWrites'
      BY <2>1, <2>2, <2>5, LeavesEffect DEF OnlyWrites
    <3> QED BY <2>2, <2>3, <2>4, <3>1 DEF ChannelInv
  <2>6. CASE stage[t] # "write"
    <3>1. pc'[t] = "receiving"
      BY <1>6, <2>6 DEF Send, TypeOK
    <3>2. Receiving'
      BY <2>1, <2>2, <3>1 DEF Receiving
    <3>3. /\ Len(toDevice) \in Nat /\ Len(toDevice') = Len(toDevice) + 1
          /\ \A i \in 1..Len(toDevice) : toDevice'[i] = toDevice[i]
          /\ toDevice'[Len(toDevice')].id = sent'
          /\ toDevice'[Len(toDevice')].write = None
      BY <2>1, <2>6, LeavesEffect
    <3>4. \A i \in 1..Len(toDevice') : i # Len(toDevice') => toDevice'[i].write # None
      BY <2>2, <3>3 DEF OnlyWrites
    <3>5. toDevice' # <<>>
      BY <3>3
    <3>6. Unanswered'
      BY <2>3, <3>3, <3>4, <3>5 DEF Unanswered
    <3> QED BY <2>2, <2>4, <3>2, <3>6 DEF ChannelInv
  <2> QED BY <2>5, <2>6
<1>7. ASSUME NEW t \in Tasks, Receive(t) PROVE ChannelInv'
  <2>1. lock = t /\ pc'[t] = "settling" /\ reply' = reply /\ lock' = lock /\ reply \in Frames
    BY <1>7 DEF Receive, LockInv, Holding, TypeOK
  <2> QED BY <1>1, <1>7, <2>1 DEF Receive, Receiving
<1>8. ASSUME NEW t \in Tasks, Abort(t) \/ Cancel(t) PROVE ChannelInv'
  <2>1. failed' /\ reply' \notin Frames
    BY <1>8 DEF Abort, Cancel, Fail, Forget
  <2>2. \A i \in 1..Len(toDevice') :
          toDevice'[i].opcode = "set" <=> toDevice'[i].write # None
    <3>1. CASE Leaves(t)
      BY <3>1, LeavesEffect DEF ChannelInv
    <3>2. CASE toDevice' = toDevice
      BY <3>2 DEF ChannelInv
    <3> QED BY <1>8, <3>1, <3>2 DEF Abort, Cancel, Fail
  <2> QED BY <2>1, <2>2, FailedStep
<1>9. ASSUME NEW t \in Tasks, FailEnds(t) PROVE ChannelInv'
  <2>1. failed' /\ reply' \notin Frames
    BY <1>9 DEF FailEnds, LockInv, FutureInv, Holding
  <2>2. \A i \in 1..Len(toDevice') :
          toDevice'[i].opcode = "set" <=> toDevice'[i].write # None
    BY <1>9 DEF FailEnds, Closed, ChannelInv
  <2> QED BY <2>1, <2>2, FailedStep
<1>10. ASSUME NEW t \in Tasks, Written(t) PROVE ChannelInv'
  <2>1. pc[t] = "settling" /\ lock = t /\ stage[t] = "write" /\ ~failed
    BY <1>10, SettlingHolds DEF Written
  <2>2. ~Receiving /\ reply \notin Frames
    BY <2>1 DEF Receiving, FutureInv
  <2> QED BY <1>1, <1>10, <2>2 DEF Written
<1>11. ASSUME NEW t \in Tasks, Takes(t) PROVE ChannelInv'
  <2>1. Replied(t)
    BY <1>11, TakesEffect
  <2>2. pc[t] = "settling" /\ lock = t
    BY <2>1, SettlingHolds DEF Replied
  <2>3. ~Receiving /\ reply' \notin Frames
    BY <2>1, <2>2 DEF Receiving, Replied, Forget
  <2> QED BY <1>1, <2>1, <2>3 DEF Replied
<1>12. CASE Disconnected
  <2>1. Thinned /\ toDevice' = <<>> /\ UNCHANGED <<sent, device, failed, lock, pc>>
    BY <1>12, ClearedThinned DEF Disconnected, Closed
  <2>2. reply' = reply \/ (reply' = Error /\ reply' \notin Frames)
    BY <1>12 DEF Disconnected
  <2>3. reply' \in Frames => reply' = reply /\ pc'[lock'] # "sending"
    BY <2>1, <2>2 DEF ChannelInv
  <2>4. Receiving /\ reply' \notin Frames => Receiving'
    BY <2>1 DEF Receiving
  <2> QED BY <2>1, <2>3, <2>4, ThinnedStep
<1>13. CASE Lose
  <2>1. Thinned /\ UNCHANGED <<sent, device, failed, lock, pc, toDevice, reply>>
    BY <1>13, LossThinned DEF Lose
  <2>2. reply' \in Frames => reply' = reply /\ pc'[lock'] # "sending"
    BY <2>1 DEF ChannelInv
  <2>3. Receiving /\ reply' \notin Frames => Receiving'
    BY <2>1 DEF Receiving
  <2> QED BY <2>1, <2>2, <2>3, ThinnedStep
<1>14. CASE UNCHANGED vars
  <2>1. UNCHANGED <<buffer, air, toDevice, sent, device, failed, reply, pc, lock>>
    BY <1>14 DEF vars
  <2> QED BY <1>1, <2>1 DEF ChannelInv, Receiving
<1> QED
  BY <1>3, <1>4, <1>5, <1>6, <1>7, <1>8, <1>9, <1>10, <1>11, <1>12, <1>13, <1>14,
     NotificationStep, AnswerReadStep, StoreWriteStep, ProgressIs DEF Next

-----------------------------------------------------------------------------
(* The write                                                               *)

Writing(t) == ~failed /\ pc[t] \in {"waiting", "sending"} /\ stage[t] = "write"

LEMMA WriteStep ==
  ASSUME TypeOK, LockInv, FutureInv, PlanInv, ChannelInv, WriteInv, [Next]_vars
  PROVE  WriteInv'
<1> USE DEF locks, inbox, link, table
<1>1. ASSUME toDevice' = toDevice \/ toDevice' = <<>>, device' = device,
             \A u \in Tasks : Writing(u)' => Writing(u) /\ plan'[u] = plan[u]
      PROVE  WriteInv'
  BY <1>1 DEF WriteInv, Writing
<1>2. ASSUME NEW t \in Tasks, ~Writing(t)', UNCHANGED <<failed, device>>,
             toDevice' = toDevice \/ toDevice' = <<>>,
             \A u \in Tasks : u # t =>
               pc'[u] = pc[u] /\ stage'[u] = stage[u] /\ plan'[u] = plan[u]
      PROVE  WriteInv'
  BY <1>1, <1>2 DEF Writing
<1>3. ASSUME NEW t \in Tasks, NEW first \in {"read", "plan", "check"}, Call(t, first)
      PROVE  WriteInv'
  <2>1. ~Writing(t)'
    BY <1>3 DEF Call, Writing, TypeOK
  <2> QED BY <1>2, <1>3, <2>1 DEF Call, TypeOK
<1>4. ASSUME NEW t \in Tasks, BeginEdit(t) PROVE WriteInv'
  <2>1. ~Writing(t)'
    BY <1>4 DEF BeginEdit, Writing, LockInv
  <2> QED BY <1>2, <1>4, <2>1 DEF BeginEdit, TypeOK
<1>5. ASSUME NEW t \in Tasks, CancelWait(t) \/ Refuse(t) PROVE WriteInv'
  <2>1. ~Writing(t)'
    BY <1>5 DEF CancelWait, Refuse, Finish, Writing, TypeOK
  <2> QED BY <1>2, <1>5, <2>1 DEF CancelWait, Refuse, Finish, TypeOK
<1>6. ASSUME NEW t \in Tasks, Begin(t) PROVE WriteInv'
  BY <1>1, <1>6 DEF Begin, Writing, TypeOK
<1>7. ASSUME NEW t \in Tasks, Leaves(t), UNCHANGED <<plan, device>>
      PROVE  \A i \in 1..Len(toDevice') :
               toDevice'[i].write # None => i = 1 /\ Accepted(device, toDevice'[i].write)
  <2>1. /\ lock = t /\ pc[t] = "sending" /\ ~failed
        /\ Len(toDevice) \in Nat /\ Len(toDevice') = Len(toDevice) + 1
        /\ \A i \in 1..Len(toDevice) : toDevice'[i] = toDevice[i]
        /\ toDevice'[Len(toDevice')].write = Packet(t)
        /\ Packet(t) # None <=> stage[t] = "write"
        /\ Packet(t) # None => Packet(t) = Target(plan[t]) /\ plan[t] # None
    BY <1>7, LeavesEffect DEF Leaves
  <2>2. CASE stage[t] # "write"
    BY <2>1, <2>2 DEF WriteInv
  <2>3. CASE stage[t] = "write"
    <3>1. device = plan[t].before /\ \A i \in 1..Len(toDevice) : toDevice[i].write = None
      BY <2>1, <2>3 DEF WriteInv
    <3>2. OnlyWrites
      BY <2>1 DEF ChannelInv, Receiving
    <3>3. Len(toDevice) = 0
      BY <2>1, <3>1, <3>2 DEF OnlyWrites
    <3>4. Accepted(device, Packet(t))
      BY <2>1, <2>3, <3>1 DEF PlanInv
    <3> QED BY <2>1, <3>3, <3>4
  <2> QED BY <2>2, <2>3
<1>8. ASSUME NEW t \in Tasks, Send(t) PROVE WriteInv'
  <2>1. Leaves(t) /\ UNCHANGED <<plan, device, stage, failed>>
    BY <1>8 DEF Send
  <2>2. ASSUME NEW u \in Tasks, Writing(u)'
        PROVE  device' = plan'[u].before /\ \A i \in 1..Len(toDevice') : toDevice'[i].write = None
    <3>1. u # t
      BY <1>8, <2>2 DEF Send, Writing, TypeOK
    <3>2. Writing(u)
      BY <1>8, <2>1, <2>2, <3>1 DEF Send, Writing, TypeOK
    <3>3. stage[t] # "write"
      BY <2>1, <3>1, <3>2 DEF Writing, LockInv, Leaves, Applying
    <3>4. /\ Len(toDevice) \in Nat /\ Len(toDevice') = Len(toDevice) + 1
          /\ \A i \in 1..Len(toDevice) : toDevice'[i] = toDevice[i]
          /\ toDevice'[Len(toDevice')].write = None
      BY <2>1, <3>3, LeavesEffect
    <3>5. device = plan[u].before /\ \A i \in 1..Len(toDevice) : toDevice[i].write = None
      BY <3>2 DEF WriteInv, Writing
    <3> QED BY <2>1, <3>4, <3>5
  <2> QED BY <1>7, <2>1, <2>2 DEF WriteInv, Writing
<1>9. ASSUME NEW t \in Tasks, Receive(t) PROVE WriteInv'
  <2>1. ~Writing(t)'
    BY <1>9 DEF Receive, Writing, TypeOK
  <2> QED BY <1>2, <1>9, <2>1 DEF Receive, TypeOK
<1>10. ASSUME NEW t \in Tasks, Abort(t) \/ Cancel(t) PROVE WriteInv'
  <2>1. failed' /\ UNCHANGED <<plan, device>>
    BY <1>10 DEF Abort, Cancel, Fail
  <2>2. CASE Leaves(t)
    BY <1>7, <2>1, <2>2 DEF WriteInv
  <2>3. CASE toDevice' = toDevice
    BY <2>1, <2>3 DEF WriteInv
  <2> QED BY <1>10, <2>2, <2>3 DEF Abort, Cancel, Fail
<1>11. ASSUME NEW t \in Tasks, FailEnds(t) PROVE WriteInv'
  <2>1. ~Writing(t)'
    BY <1>11 DEF FailEnds, Finish, Writing, TypeOK
  <2> QED BY <1>2, <1>11, <2>1 DEF FailEnds, Closed, Finish, TypeOK
<1>12. ASSUME NEW t \in Tasks, Written(t) PROVE WriteInv'
  <2>1. ~Writing(t)'
    BY <1>12 DEF Written, Continue, Writing, TypeOK
  <2> QED BY <1>2, <1>12, <2>1 DEF Written, Continue, TypeOK
<1>13. ASSUME NEW t \in Tasks, Takes(t) PROVE WriteInv'
  <2>1. Replied(t)
    BY <1>13, TakesEffect
  <2>2. CASE Proceed(t)
    <3>1. reply \in Frames /\ reply.overrides = plan[t].before
      BY <2>1, <2>2 DEF Replied, FutureInv, Proceed, StillCurrent
    <3>2. toDevice = <<>> /\ reply.overrides = device
      BY <3>1 DEF ChannelInv
    <3>3. UNCHANGED <<plan, toDevice, device, failed>>
      BY <2>1, <2>2 DEF Replied, Proceed, Continue
    <3>4. \A u \in Tasks : u # t => pc'[u] = pc[u] /\ stage'[u] = stage[u]
      BY <2>2 DEF Proceed, Continue, TypeOK
    <3>5. Len(toDevice') = 0 /\ device' = plan'[t].before
      BY <3>1, <3>2, <3>3
    <3>6. \A u \in Tasks : u # t /\ Writing(u)' => device' = plan'[u].before
      BY <3>3, <3>4 DEF Writing, WriteInv
    <3> QED BY <3>5, <3>6 DEF WriteInv, Writing
  <2>3. ASSUME NEW how, Finish(t, how), UNCHANGED stage,
               \A u \in Tasks : u # t => plan'[u] = plan[u]
        PROVE  WriteInv'
    <3>1. ~Writing(t)'
      BY <2>3 DEF Finish, Writing, TypeOK
    <3> QED BY <1>2, <2>1, <2>3, <3>1 DEF Replied, Finish, TypeOK
  <2>4. ASSUME UNCHANGED plan \/ \E slot \in Slots, s \in Wanted : AcceptPlan(t, slot, s)
        PROVE  \A u \in Tasks : u # t => plan'[u] = plan[u]
    BY <2>4 DEF AcceptPlan, TypeOK
  <2> QED BY <1>13, <2>2, <2>3, <2>4, TakesEffect
<1>14. CASE Notification \/ Disconnected \/ Lose \/ UNCHANGED vars
  <2>1. UNCHANGED <<failed, pc, stage, plan, device>> /\ (toDevice' = toDevice \/ toDevice' = <<>>)
    BY <1>14 DEF Notification, Disconnected, Closed, Lose, vars
  <2> QED BY <1>1, <2>1 DEF Writing
<1>15. ASSUME toDevice # <<>>, toDevice' = Tail(toDevice)
       PROVE  /\ Len(toDevice) \in Nat /\ 1 \in 1..Len(toDevice)
              /\ Head(toDevice) = toDevice[1] /\ toDevice[1] \in Requests
              /\ \A i \in 1..Len(toDevice') : toDevice'[i].write = None
  <2>1. /\ Len(toDevice) \in Nat \ {0} /\ Len(toDevice') = Len(toDevice) - 1
        /\ Head(toDevice) = toDevice[1] /\ toDevice[1] \in Requests
        /\ \A i \in 1..Len(toDevice') : toDevice'[i] = toDevice[i + 1]
    BY <1>15, HeadTailProperties DEF TypeOK
  <2>2. ASSUME NEW i \in 1..Len(toDevice') PROVE toDevice'[i].write = None
    <3>1. i + 1 \in 1..Len(toDevice) /\ i + 1 # 1
      BY <2>1
    <3> QED BY <2>1, <3>1 DEF WriteInv
  <2> QED BY <2>1, <2>2
<1>16. CASE AnswerRead
  <2>1. /\ UNCHANGED <<failed, pc, stage, plan, device>>
        /\ toDevice # <<>> /\ toDevice' = Tail(toDevice)
    BY <1>16 DEF AnswerRead
  <2>2. \A u \in Tasks : Writing(u)' => device' = plan'[u].before
    BY <2>1 DEF Writing, WriteInv
  <2> QED BY <1>15, <2>1, <2>2 DEF WriteInv, Writing
<1>17. CASE StoreWrite
  <2>1. /\ UNCHANGED <<failed, pc, stage, plan>>
        /\ toDevice # <<>> /\ toDevice' = Tail(toDevice)
        /\ Head(toDevice).write # None
    BY <1>17 DEF StoreWrite
  <2>2. toDevice[1].write # None /\ 1 \in 1..Len(toDevice)
    BY <1>15, <2>1
  <2>3. \A u \in Tasks : ~Writing(u)'
    BY <2>1, <2>2 DEF Writing, WriteInv
  <2> QED BY <1>15, <2>1, <2>3 DEF WriteInv, Writing
<1> QED
  BY <1>3, <1>4, <1>5, <1>6, <1>8, <1>9, <1>10, <1>11, <1>12, <1>13, <1>14, <1>16,
     <1>17, ProgressIs DEF Next

-----------------------------------------------------------------------------
(* The invariant and what follows from it                                  *)

LEMMA InitInv == Init => ClientInv
<1> SUFFICES ASSUME Init PROVE ClientInv
  OBVIOUS
<1> USE DEF Init
<1>1. TypeOK
  <2>1. /\ buffer \in Seq(Pieces) /\ Len(buffer) < FrameSize
        /\ toDevice \in Seq(Requests) /\ air \in Seq(Pieces)
    BY EmptySeq
  <2>2. /\ pc \in [Tasks -> {"idle", "queueing", "waiting", "sending", "receiving",
                            "settling", "failing", "cancelling"}]
        /\ stage \in [Tasks -> {"read", "plan", "check", "write", "readback"}]
        /\ plan \in [Tasks -> Plan \union {None}]
        /\ result \in [Tasks -> Results]
    BY DEF Results
  <2>3. /\ lock = None /\ editing = None /\ expected = None /\ reply = None
        /\ device \in Overrides /\ sent \in Nat
    OBVIOUS
  <2>4. calls \in 0..MaxCalls
    OBVIOUS
  <2>5. failed \in BOOLEAN /\ connected \in BOOLEAN /\ stored \in BOOLEAN
    OBVIOUS
  <2> QED BY <2>1, <2>2, <2>3, <2>4, <2>5, Zenon DEF TypeOK
<1>2. Len(Arriving) = 0 /\ Len(toDevice) = 0
  BY <1>1, ArrivingType
<1>3. LockInv /\ FutureInv /\ PlanInv /\ StoredInv
  <2>1. /\ expected = None /\ reply = None /\ stored = FALSE
        /\ \A t \in Tasks : /\ pc[t] = "idle" /\ plan[t] = None
                            /\ lock # t /\ editing # t
    OBVIOUS
  <2>2. LockInv /\ PlanInv /\ StoredInv
    BY <2>1 DEF LockInv, PlanInv, StoredInv, Holding
  <2>3. FutureInv
    BY <2>1 DEF FutureInv, Opcodes
  <2> QED BY <2>2, <2>3
<1>4. ChannelInv /\ WriteInv
  BY <1>2 DEF ChannelInv, WriteInv, OnlyWrites, NothingRead
<1> QED BY <1>1, <1>3, <1>4 DEF ClientInv

\* Whatever is lost, damaged, abandoned or cancelled on the connection: the
\* locks, the future, what is under way and the write in progress stay in step.
THEOREM ClientCorrect == Spec => []ClientInv
<1>1. ClientInv /\ [Next]_vars => ClientInv'
  BY TypeStep, LockStep, FutureStep, ChannelStep, PlanStep, WriteStep, StoredStep
     DEF ClientInv
<1> QED BY <1>1, InitInv, PTL DEF Spec

\* Every state of the client has the types of ble.py's attributes: fragments of
\* known replies, plans made of tables, one progress per task.
THEOREM ClientTypes == Spec => []TypeOK
<1>1. ClientInv => TypeOK
  BY DEF ClientInv
<1> QED BY <1>1, ClientCorrect, PTL

\* library/README.md:107-109: no reply of an abandoned request completes a later
\* one, although replies carry no identifier.
THEOREM RepliesAreOwn == Spec => []OwnFrame
<1>1. ClientInv => OwnFrame
  BY DEF ClientInv, ChannelInv, OwnFrame
<1> QED BY <1>1, ClientCorrect, PTL

\* The connection implements the store: what a write replaces is the table that
\* its edit was accepted against, whatever came between.
LEMMA StoreStep ==
  ASSUME TypeOK, WriteInv, [Next]_vars
  PROVE  [Store!Next]_device
<1> USE DEF locks, inbox, link, table
<1>1. CASE StoreWrite
  <2>1. /\ Head(toDevice).write # None /\ toDevice # <<>>
        /\ device' = Head(toDevice).write \/ device' = device
    BY <1>1 DEF StoreWrite
  <2>2. Head(toDevice) = toDevice[1] /\ 1 \in 1..Len(toDevice)
    BY <2>1, HeadTailProperties DEF TypeOK
  <2>3. Accepted(device, Head(toDevice).write)
    BY <2>1, <2>2 DEF WriteInv
  <2>4. ASSUME device' = Head(toDevice).write PROVE Store!Next
    <3>1. PICK slot \in Slots, s \in Wanted :
            ~Refused(device, slot, s) /\ device' = [device EXCEPT ![slot] = ToWire(s)]
      BY <2>3, <2>4 DEF Accepted
    <3>2. ~Store!Refused(device, slot, s)
      BY <3>1 DEF Store!Refused, Store!ToWire, Store!VerifiedWindow, Store!Touches,
         Refused, ToWire, VerifiedWindow, Touches
    <3>3. device' = [device EXCEPT ![slot] = Store!ToWire(s)]
      BY <3>1 DEF Store!ToWire, ToWire
    <3>4. Store!Edit(slot, s)
      BY <3>2, <3>3 DEF Store!Edit
    <3> QED BY <3>4 DEF Store!Next
  <2> QED BY <2>1, <2>4
<1>2. ASSUME NEW t \in Tasks, Takes(t) PROVE device' = device
  BY <1>2, TakesEffect DEF Replied
<1>3. CASE UNCHANGED vars
  BY <1>3 DEF vars
<1>4. CASE Next /\ ~StoreWrite
  <2>1. device' = device
    BY <1>2, <1>4, ProgressIs DEF Next, Call, BeginEdit, CancelWait, Begin, Send, Receive,
       Cancel, Refuse, Abort, Fail, FailEnds, Written, Notification, Disconnected,
       AnswerRead, Lose
  <2> QED BY <2>1
<1> QED BY <1>1, <1>3, <1>4

\* ble.py:217: an edit is applied only if the freshness read found the table of
\* its plan, and the write, which carries all four slots, changes no other one.
THEOREM ClientImplementsStore == Spec => StoreSpec
<1>1. Init => Store!Init
  BY DEF Init, Store!Init
<1>2. ClientInv /\ [Next]_vars => [Store!Next]_device
  BY StoreStep DEF ClientInv
<1> QED BY <1>1, <1>2, ClientCorrect, PTL DEF Spec, StoreSpec, Store!Spec

-----------------------------------------------------------------------------
(* What an edit reports                                                    *)

\* Only the task that holds _configuration_lock gives it up, where its call ends.
LEMMA EditEnds ==
  ASSUME TypeOK, [Next]_vars, NEW t \in Tasks, editing = t, editing' # t
  PROVE  CancelWait(t) \/ Refuse(t) \/ FailEnds(t) \/ Takes(t)
<1> USE DEF locks
<1>1. ASSUME NEW u \in Tasks, NEW how, Finish(u, how) PROVE u = t
  BY <1>1 DEF Finish
<1>2. ASSUME NEW u \in Tasks, Takes(u) PROVE u = t
  BY <1>1, <1>2, TakesEffect DEF Proceed, Continue
<1>3. ASSUME NEW u \in Tasks, CancelWait(u) \/ Refuse(u) \/ FailEnds(u) PROVE u = t
  BY <1>1, <1>3 DEF CancelWait, Refuse, FailEnds
<1>4. editing # None
  OBVIOUS
<1>5. ASSUME NEW u \in Tasks,
             \/ \E first \in {"read", "plan", "check"} : Call(u, first)
             \/ BeginEdit(u) \/ Begin(u) \/ Send(u) \/ Receive(u) \/ Cancel(u)
             \/ Abort(u) \/ Written(u)
      PROVE  FALSE
  BY <1>4, <1>5 DEF Call, BeginEdit, Begin, Send, Receive, Cancel, Abort, Fail, Written,
     Continue
<1>6. ~(Notification \/ Disconnected \/ AnswerRead \/ StoreWrite \/ Lose \/ UNCHANGED vars)
  BY DEF Notification, Disconnected, AnswerRead, StoreWrite, Lose, vars
<1> QED BY <1>2, <1>3, <1>5, <1>6, ProgressIs DEF Next

\* How the call ends that has come to its write.
LEMMA EndsAfterWrite ==
  ASSUME TypeOK, NEW t \in Tasks, stage[t] \in {"write", "readback"}, pc'[t] # "waiting",
         CancelWait(t) \/ Refuse(t) \/ FailEnds(t) \/ Takes(t)
  PROVE  result'[t] \in {"written", "unverified", "cancelled"}
<1>1. ASSUME NEW how \in {"written", "unverified", "cancelled"}, Finish(t, how)
      PROVE  result'[t] \in {"written", "unverified", "cancelled"}
  BY <1>1 DEF Finish, TypeOK
<1>2. \A how : Reported(t, how) = "unverified"
  BY DEF Reported
<1>3. CASE CancelWait(t) \/ Refuse(t) \/ FailEnds(t)
  BY <1>1, <1>2, <1>3 DEF CancelWait, Refuse, FailEnds
<1>4. CASE Takes(t)
  <2>1. Malformed(t) \/ Verified(t) \/ Differs(t)
    BY <1>4 DEF Takes, Return, RejectPlan, AcceptPlan, Conflict, Unneeded, Proceed
  <2> QED BY <1>1, <1>2, <2>1 DEF Malformed, Verified, Differs
<1> QED BY <1>3, <1>4

LEMMA StoredReported ==
  ASSUME ClientInv, [Next]_vars, NEW t \in Tasks, stored, editing = t, editing' # t
  PROVE  result'[t] \in {"written", "unverified", "cancelled"}
<1> USE DEF ClientInv
<1>1. CancelWait(t) \/ Refuse(t) \/ FailEnds(t) \/ Takes(t)
  BY EditEnds
<1>2. stage[t] \in {"write", "readback"}
  BY DEF StoredInv
<1>3. pc'[t] # "waiting"
  BY <1>1, TakesEffect DEF CancelWait, Refuse, FailEnds, Finish, Proceed, Continue, TypeOK
<1> QED BY <1>1, <1>2, <1>3, EndsAfterWrite

\* A plan that changes nothing leaves the table as it was planned from.
LEMMA NothingToDo ==
  ASSUME NEW p \in Plan, ~Changed(p) PROVE Target(p) = p.before
BY DEF Plan, Changed, Target, Overrides

\* The task that takes a reply has the table as it is.
LEMMA VerifiedReported ==
  ASSUME ClientInv, [Next]_vars, NEW t \in Tasks, editing = t, editing' # t,
         result'[t] \in {"written", "unchanged"}
  PROVE  device = Target(plan[t])
<1> USE DEF ClientInv
<1>1. CancelWait(t) \/ Refuse(t) \/ FailEnds(t) \/ Takes(t)
  BY EditEnds
<1>2. ASSUME NEW how \in Results \ {"written", "unchanged"}, Finish(t, how) PROVE FALSE
  BY <1>2 DEF Finish, TypeOK
<1>3. /\ \A how \in {"refused", "failed", "protocol"} :
           Reported(t, how) \in Results \ {"written", "unchanged"}
      /\ \A how \in {"cancelled", "read", "planned", "rejected", "conflict", "unverified"} :
           how \in Results \ {"written", "unchanged"}
  BY DEF Reported, Results
<1>4. Takes(t)
  BY <1>1, <1>2, <1>3 DEF CancelWait, Refuse, FailEnds
<1>5. Replied(t)
  BY <1>4, TakesEffect
<1>6. reply.overrides = device
  BY <1>5 DEF Replied, FutureInv, ChannelInv
<1>7. Verified(t) \/ Unneeded(t)
  BY <1>2, <1>3, <1>4 DEF Takes, Malformed, Return, RejectPlan, AcceptPlan, Conflict,
     Differs, Proceed, Continue
<1>8. CASE Verified(t)
  BY <1>6, <1>8 DEF Verified, AsExpected
<1>9. CASE Unneeded(t)
  <2>1. plan[t] \in Plan
    BY <1>5, <1>9 DEF Unneeded, Replied, PlanInv, TypeOK, Applying
  <2> QED BY <1>6, <1>9, <2>1, NothingToDo DEF Unneeded, StillCurrent
<1> QED BY <1>7, <1>8, <1>9

\* library/README.md:96: an edit that was stored is reported as verified or
\* unverified, and one reported as verified is what the device holds.
THEOREM ReportsAreTrue == Spec => ReportsTruly
<1>1. ClientInv /\ [Next]_vars =>
        [\A t \in Tasks :
           stored /\ editing = t /\ editing' # t =>
             result'[t] \in {"written", "unverified", "cancelled"}]_vars
  BY StoredReported
<1>2. ClientInv /\ [Next]_vars =>
        [\A t \in Tasks :
           editing = t /\ editing' # t /\ result'[t] \in {"written", "unchanged"} =>
             device = Target(plan[t])]_vars
  BY VerifiedReported
<1> QED BY <1>1, <1>2, ClientCorrect, PTL
        DEF Spec, ReportsTruly, StoredIsReported, VerifiedIsOnDevice
===============================================================================

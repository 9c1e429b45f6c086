-------------------------- MODULE CoordinatorProofs --------------------------
(***************************************************************************)
(* Proofs about Coordinator, for any number of edits of any fields, polls, *)
(* devices, changes by another editor and cancellations.                   *)
(***************************************************************************)
EXTENDS Coordinator, SequenceTheorems, TLAPS

USE CoordinatorAssumption

\* Where a call is that has the lock.
Busy == {"current", "planning", "applying", "telemetry", "configuration",
         "exiting", "discarding", "failing", "cancelling"}

\* A call is in the queue once, and at its head while it is busy.
LockInv ==
  /\ \A i, j \in 1..Len(transaction) : transaction[i] = transaction[j] => i = j
  /\ \A a \in Actors : stage[a] \in Busy => Len(transaction) > 0 /\ transaction[1] = a

\* What a busy call has established so far.
WorkInv(a) ==
  /\ stage[a] \in {"planning", "applying"} =>
       /\ a \in Editors /\ work[a].base \in Slots
       /\ outside = 0 => work[a].base = config[work[a].device]
  /\ stage[a] = "current" => a \in Editors
  /\ \/ stage[a] \in {"configuration", "exiting", "discarding"}
     \/ Bluetooth /\ stage[a] \in {"current", "planning", "applying", "telemetry"}
     => work[a].device = Own
  /\ \/ stage[a] \in Over \union {"waiting", "current", "planning", "applying", "telemetry"}
     \/ a = Poll /\ stage[a] = "failing"
     => work[a].telemetry = 0 /\ work[a].configuration = None
  /\ stage[a] = "exiting" => Bluetooth
  /\ stage[a] = "discarding" => a = Poll
  /\ a \in Editors /\ outside = 0 /\ stage[a] \in {"telemetry", "configuration", "exiting"} =>
       \A f \in Changes[a] : config[work[a].device][f] = a
  /\ a \in Editors /\ stage[a] = "exiting" =>
       /\ work[a].configuration # None
       /\ outside = 0 => \A f \in Changes[a] : work[a].configuration.slot[f] = a

\* The sample of a call that has read one is newer than what is shown, and its
\* configuration is the next.
SampleInv(a) ==
  stage[a] \in {"configuration", "exiting", "discarding"} =>
    /\ published.telemetry < work[a].telemetry
    /\ published.configuration # None => published.configuration.at < work[a].telemetry
    /\ work[a].telemetry <= clock
    /\ stage[a] \in {"configuration", "discarding"} => work[a].configuration = None
    /\ stage[a] = "configuration" => work[a].telemetry = clock
    /\ work[a].configuration # None =>
         /\ work[a].configuration.at = work[a].telemetry + 1
         /\ work[a].configuration.at <= clock

ShownInv ==
  /\ published.telemetry <= clock
  /\ published.configuration # None => published.configuration.at <= clock
  /\ ShownIsCoherent

CoordinatorInv ==
  /\ TypeOK /\ LockInv /\ ShownInv /\ BluetoothWritesOwn
  /\ \A a \in Actors : WorkInv(a) /\ SampleInv(a)

\* The parts of the type invariant: the lock with the calls, and the rest.
Works == [device : Devices \union {None}, base : Slots \union {None},
          before : Slots \union {None}, telemetry : Nat,
          configuration : Readings \union {None}]

CallsOK ==
  /\ transaction \in Seq(Actors)
  /\ stage \in [Actors -> Over \union Busy \union {"waiting"}]
  /\ work \in [Actors -> Works]
  /\ \A a \in Actors :
       /\ stage[a] \in Over \union {"waiting"} <=> work[a].device = None
       /\ stage[a] \in Over <=> \A i \in 1..Len(transaction) : transaction[i] # a

DataOK ==
  /\ transport \in {"bluetooth", "wifi"}
  /\ config \in [Devices -> Slots]
  /\ published \in [device : Devices \union {None}, telemetry : Nat,
                    configuration : Readings \union {None}]
  /\ success \in BOOLEAN
  /\ clock \in Nat
  /\ polls \in 0..MaxPolls /\ outside \in 0..MaxOutside /\ cancels \in 0..MaxCancels

LEMMA TypeParts == (TypeOK <=> CallsOK /\ DataOK) /\ (TypeOK' <=> CallsOK' /\ DataOK')
<1>1. Over \union Busy \union {"waiting"} =
        {"idle", "waiting", "current", "planning", "applying", "telemetry",
         "configuration", "exiting", "discarding", "failing", "cancelling",
         "verified", "failed", "cancelled"}
  BY DEF Over, Busy
<1>2. TypeOK <=> CallsOK /\ DataOK
  BY <1>1 DEF TypeOK, CallsOK, DataOK, Works
<1>3. TypeOK' <=> CallsOK' /\ DataOK'
  BY <1>1 DEF TypeOK, CallsOK, DataOK, Works
<1> QED BY <1>2, <1>3

LEMMA InitInv == Init => CoordinatorInv
<1> SUFFICES ASSUME Init PROVE CoordinatorInv
  OBVIOUS
<1>1. /\ NoWork \in Works /\ NoWork.device = None
      /\ NoWork.telemetry = 0 /\ NoWork.configuration = None
  BY DEF NoWork, Works
<1>2. CallsOK
  BY <1>1 DEF Init, CallsOK, Over
<1>3. DataOK
  BY DEF Init, DataOK, Slots, Writers
<1>4. LockInv /\ ShownInv /\ BluetoothWritesOwn
  BY DEF Init, LockInv, Busy, ShownInv, ShownIsCoherent, ShownTogether, OwnShown,
     BluetoothWritesOwn, Slots
<1>5. ASSUME NEW a \in Actors PROVE WorkInv(a) /\ SampleInv(a)
  BY <1>1 DEF Init, WorkInv, SampleInv
<1> QED BY <1>2, <1>3, <1>4, <1>5, TypeParts DEF CoordinatorInv

-----------------------------------------------------------------------------
(* The lock                                                                *)

\* A queue without one of its members.
LEMMA Removal ==
  ASSUME NEW t \in Seq(Actors), NEW k \in 1..Len(t)
  PROVE  LET u == SubSeq(t, 1, k - 1) \o SubSeq(t, k + 1, Len(t))
         IN /\ u \in Seq(Actors) /\ Len(u) = Len(t) - 1
            /\ \A j \in 1..Len(u) : u[j] = IF j < k THEN t[j] ELSE t[j + 1]
<1> DEFINE v == SubSeq(t, 1, k - 1)
           w == SubSeq(t, k + 1, Len(t))
<1>1. v \in Seq(Actors) /\ Len(v) = k - 1 /\ \A j \in 1..k - 1 : v[j] = t[j]
  OBVIOUS
<1>2. w \in Seq(Actors) /\ Len(w) = Len(t) - k /\ \A j \in 1..Len(t) - k : w[j] = t[j + k]
  OBVIOUS
<1> HIDE DEF v, w
<1>3. /\ v \o w \in Seq(Actors) /\ Len(v \o w) = Len(t) - 1
      /\ \A j \in 1..Len(t) - 1 :
           (v \o w)[j] = IF j < k THEN v[j] ELSE w[j - (k - 1)]
  <2>1. /\ v \o w \in Seq(Actors) /\ Len(v \o w) = Len(v) + Len(w)
        /\ \A j \in 1..Len(v) + Len(w) :
             (v \o w)[j] = IF j <= Len(v) THEN v[j] ELSE w[j - Len(v)]
    <3>1. v \in Seq(Actors) /\ w \in Seq(Actors)
      BY <1>1, <1>2
    <3> QED BY <3>1, ConcatProperties, Zenon
  <2>2. Len(v) + Len(w) = Len(t) - 1 /\ \A j \in Nat : j <= Len(v) <=> j < k
    BY <1>1, <1>2
  <2> QED BY <1>1, <2>1, <2>2
<1>4. ASSUME NEW j \in 1..Len(t) - 1
      PROVE  (v \o w)[j] = IF j < k THEN t[j] ELSE t[j + 1]
  <2>1. CASE j < k
    BY <1>1, <1>3, <2>1
  <2>2. CASE ~(j < k)
    <3>1. j - (k - 1) \in 1..Len(t) - k /\ (j - (k - 1)) + k = j + 1
      BY <2>2
    <3>2. w[j - (k - 1)] = t[j + 1]
      BY <1>2, <3>1
    <3> QED BY <1>3, <2>2, <3>2
  <2> QED BY <2>1, <2>2
<1> QED BY <1>3, <1>4 DEF v, w

\* What leaving the queue does to it.
LEMMA Leaving ==
  ASSUME CallsOK, LockInv, NEW a \in Actors, stage[a] \notin Over,
         transaction' = Released(a)
  PROVE  /\ transaction' \in Seq(Actors)
         /\ \A i \in 1..Len(transaction') : transaction'[i] # a
         /\ \A b \in Actors \ {a} :
              (\E i \in 1..Len(transaction') : transaction'[i] = b)
                <=> \E i \in 1..Len(transaction) : transaction[i] = b
         /\ \A i, j \in 1..Len(transaction') : transaction'[i] = transaction'[j] => i = j
         /\ Len(transaction) > 0 /\ transaction[1] # a =>
              Len(transaction') > 0 /\ transaction'[1] = transaction[1]
<1> DEFINE t == transaction
           k == CHOOSE i \in 1..Len(t) : t[i] = a
<1>1. t \in Seq(Actors) /\ k \in 1..Len(t) /\ t[k] = a
  BY DEF CallsOK
<1>2. \A i, j \in 1..Len(t) : t[i] = t[j] => i = j
  BY DEF LockInv
<1>3. transaction' = SubSeq(t, 1, k - 1) \o SubSeq(t, k + 1, Len(t))
  BY DEF Released
<1> HIDE DEF k, t
<1>4. /\ transaction' \in Seq(Actors) /\ Len(transaction') = Len(t) - 1
      /\ \A j \in 1..Len(transaction') :
           transaction'[j] = IF j < k THEN t[j] ELSE t[j + 1]
  BY <1>1, <1>3, Removal
<1>5. \A i \in 1..Len(transaction') : transaction'[i] # a
  BY <1>1, <1>2, <1>4
<1>6. ASSUME NEW b \in Actors \ {a}
      PROVE  (\E i \in 1..Len(transaction') : transaction'[i] = b)
               <=> \E i \in 1..Len(t) : t[i] = b
  <2>1. ASSUME NEW i \in 1..Len(transaction'), transaction'[i] = b
        PROVE  \E j \in 1..Len(t) : t[j] = b
    BY <1>1, <1>4, <2>1
  <2>2. ASSUME NEW j \in 1..Len(t), t[j] = b
        PROVE  \E i \in 1..Len(transaction') : transaction'[i] = b
    <3>1. j # k
      BY <1>1, <2>2
    <3>2. CASE j < k
      BY <1>1, <1>4, <2>2, <3>2
    <3>3. CASE j > k
      <4>1. j - 1 \in 1..Len(transaction') /\ ~(j - 1 < k) /\ (j - 1) + 1 = j
        BY <1>1, <1>4, <3>3
      <4> QED BY <1>4, <2>2, <4>1
    <3> QED BY <1>1, <3>1, <3>2, <3>3
  <2> QED BY <2>1, <2>2
<1>7. ASSUME NEW i \in 1..Len(transaction'), NEW j \in 1..Len(transaction'),
             transaction'[i] = transaction'[j]
      PROVE  i = j
  BY <1>1, <1>2, <1>4, <1>7
<1>8. Len(t) > 0 /\ t[1] # a => Len(transaction') > 0 /\ transaction'[1] = t[1]
  BY <1>1, <1>4
<1> QED BY <1>4, <1>5, <1>6, <1>7, <1>8 DEF t

\* A call ends, whether it had the lock or waited for it.
LEMMA EndsKeepsCalls ==
  ASSUME CoordinatorInv, NEW a \in Actors, stage[a] \notin Over,
         NEW outcome \in Over, Ends(a, outcome)
  PROVE  /\ CallsOK' /\ LockInv'
         /\ stage'[a] \in Over /\ work'[a] = NoWork
         /\ \A b \in Actors \ {a} : stage'[b] = stage[b] /\ work'[b] = work[b]
<1>1. CallsOK /\ LockInv
  BY TypeParts DEF CoordinatorInv
<1>2. /\ transaction' = Released(a)
      /\ work' = [work EXCEPT ![a] = NoWork]
      /\ NoWork \in Works /\ NoWork.device = None
  BY DEF Ends, NoWork, Works
<1>3. /\ stage' \in [Actors -> Over \union Busy \union {"waiting"}]
      /\ stage'[a] \in Over
      /\ \A b \in Actors \ {a} : stage'[b] = stage[b]
  BY <1>1 DEF Ends, CallsOK, Over
<1>4. work' \in [Actors -> Works] /\ work'[a] = NoWork
      /\ \A b \in Actors \ {a} : work'[b] = work[b]
  BY <1>1, <1>2 DEF CallsOK
<1>5. CallsOK'
  <2>1. ASSUME NEW b \in Actors
        PROVE  /\ stage'[b] \in Over \union {"waiting"} <=> work'[b].device = None
               /\ stage'[b] \in Over <=> \A i \in 1..Len(transaction') : transaction'[i] # b
    <3>1. CASE b = a
      BY <1>1, <1>2, <1>3, <1>4, <3>1, Leaving
    <3>2. CASE b # a
      <4>1. (\E i \in 1..Len(transaction') : transaction'[i] = b)
              <=> \E i \in 1..Len(transaction) : transaction[i] = b
        BY <1>1, <1>2, <3>2, Leaving
      <4>2. /\ stage[b] \in Over \union {"waiting"} <=> work[b].device = None
            /\ stage[b] \in Over <=> ~\E i \in 1..Len(transaction) : transaction[i] = b
        BY <1>1 DEF CallsOK
      <4>3. stage'[b] = stage[b] /\ work'[b] = work[b]
        BY <1>3, <1>4, <3>2
      <4> QED BY <4>1, <4>2, <4>3
    <3> QED BY <3>1, <3>2
  <2> QED BY <1>1, <1>2, <1>3, <1>4, <2>1, Leaving DEF CallsOK
<1>6. LockInv'
  <2>1. ASSUME NEW b \in Actors, stage'[b] \in Busy
        PROVE  Len(transaction') > 0 /\ transaction'[1] = b
    <3>1. b # a
      BY <1>3, <2>1 DEF Over, Busy
    <3>2. Len(transaction) > 0 /\ transaction[1] = b
      BY <1>1, <1>3, <2>1, <3>1 DEF LockInv
    <3> QED BY <1>1, <1>2, <3>1, <3>2, Leaving
  <2> QED BY <1>1, <1>2, <2>1, Leaving DEF LockInv
<1> QED BY <1>2, <1>3, <1>4, <1>5, <1>6

\* Nobody else is busy while one call has the lock.
LEMMA OthersWait ==
  ASSUME CoordinatorInv, NEW a \in Actors, transaction[1] = a,
         NEW b \in Actors \ {a}, stage'[b] = stage[b], work'[b] = work[b]
  PROVE  WorkInv(b)' /\ SampleInv(b)'
<1>1. stage[b] \notin Busy
  BY DEF CoordinatorInv, LockInv
<1>2. stage[b] \in Over \union {"waiting"} =>
        work[b].telemetry = 0 /\ work[b].configuration = None
  BY DEF CoordinatorInv, WorkInv
<1> QED BY <1>1, <1>2 DEF Busy, WorkInv, SampleInv

\* Waiting calls are not touched by a step that writes nothing and publishes
\* nothing, whoever takes it.
LEMMA Bystander ==
  ASSUME CoordinatorInv, NEW b \in Actors, stage'[b] = stage[b], work'[b] = work[b],
         UNCHANGED <<transport, config, published, clock, outside>>
  PROVE  WorkInv(b)' /\ SampleInv(b)'
BY DEF CoordinatorInv, WorkInv, SampleInv, Bluetooth

LEMMA HasLock ==
  ASSUME CoordinatorInv, NEW a \in Actors
  PROVE  /\ stage[a] \in Busy => transaction[1] = a /\ work[a].device \in Devices
         /\ stage[a] = "waiting" /\ Turn(a) => transaction[1] = a
         /\ stage[a] \in Busy \union {"waiting"} => stage[a] \notin Over
         /\ work[a] \in Works
<1>1. CallsOK /\ LockInv
  BY TypeParts DEF CoordinatorInv
<1>2. work[a] \in Works
  BY <1>1 DEF CallsOK
<1>3. stage[a] \in Busy => transaction[1] = a
  BY <1>1 DEF LockInv
<1>4. stage[a] \in Busy => stage[a] \notin Over \union {"waiting"}
  BY DEF Busy, Over
<1>5. stage[a] \in Busy => work[a].device \in Devices
  BY <1>1, <1>2, <1>4 DEF CallsOK, Works
<1>6. stage[a] = "waiting" => stage[a] \notin Over
  BY DEF Over
<1>7. stage[a] = "waiting" => Len(transaction) > 0
  BY <1>1, <1>6 DEF CallsOK
<1>8. stage[a] = "waiting" /\ Turn(a) => transaction[1] = a
  BY <1>1, <1>7 DEF Turn, CallsOK
<1> QED BY <1>2, <1>3, <1>4, <1>5, <1>6, <1>8

-----------------------------------------------------------------------------
(* Opening                                                                 *)

LEMMA AskKeepsInv ==
  ASSUME CoordinatorInv, NEW a \in Actors, Ask(a)
  PROVE  CoordinatorInv'
<1> USE DEF data
<1>1. CallsOK /\ LockInv /\ DataOK
  BY TypeParts DEF CoordinatorInv
<1>2. /\ stage[a] = "idle" /\ stage' = [stage EXCEPT ![a] = "waiting"]
      /\ transaction' = Append(transaction, a)
      /\ UNCHANGED <<transport, work, config, published, success, clock, outside, cancels>>
  BY DEF Ask, Waits
<1>3. /\ Len(transaction') = Len(transaction) + 1
      /\ transaction'[Len(transaction) + 1] = a
      /\ \A i \in 1..Len(transaction) : transaction'[i] = transaction[i]
      /\ transaction' \in Seq(Actors) /\ Len(transaction) \in Nat
  BY <1>1, <1>2 DEF CallsOK
<1>4. stage[a] \in Over /\ "waiting" \notin Over /\ "waiting" \notin Busy
  BY <1>2 DEF Over, Busy
<1>5. stage'[a] = "waiting" /\ \A b \in Actors \ {a} : stage'[b] = stage[b]
  BY <1>1, <1>2 DEF CallsOK
<1>6. \A i \in 1..Len(transaction) : transaction[i] # a
  BY <1>1, <1>4 DEF CallsOK
<1>7. CallsOK'
  <2>1. ASSUME NEW b \in Actors
        PROVE  /\ stage'[b] \in Over \union {"waiting"} <=> work'[b].device = None
               /\ stage'[b] \in Over <=> \A i \in 1..Len(transaction') : transaction'[i] # b
    <3>1. CASE b = a
      BY <1>1, <1>2, <1>3, <1>4, <1>5, <3>1 DEF CallsOK
    <3>2. CASE b # a
      BY <1>1, <1>2, <1>3, <1>5, <3>2 DEF CallsOK
    <3> QED BY <3>1, <3>2
  <2> QED BY <1>1, <1>2, <1>3, <2>1 DEF CallsOK
<1>8. LockInv'
  BY <1>1, <1>3, <1>4, <1>5, <1>6 DEF LockInv
<1>9. DataOK'
  BY <1>1, <1>2 DEF Ask, DataOK
<1>10. ShownInv' /\ BluetoothWritesOwn'
  BY <1>2 DEF CoordinatorInv, ShownInv, ShownIsCoherent, ShownTogether, OwnShown,
     BluetoothWritesOwn, Bluetooth
<1>11. ASSUME NEW b \in Actors PROVE WorkInv(b)' /\ SampleInv(b)'
  <2>1. CASE b = a
    <3>1. work'[a].telemetry = 0 /\ work'[a].configuration = None
      BY <1>2, <1>4 DEF CoordinatorInv, WorkInv
    <3> QED BY <1>5, <2>1, <3>1 DEF WorkInv, SampleInv
  <2>2. CASE b # a
    BY <1>2, <1>5, <2>2, Bystander
  <2> QED BY <2>1, <2>2
<1> QED BY <1>7, <1>8, <1>9, <1>10, <1>11, TypeParts DEF CoordinatorInv

\* A step of the call that has the lock: what it must establish.
LEMMA StepKeepsInv ==
  ASSUME CoordinatorInv, NEW a \in Actors, transaction[1] = a, stage[a] \notin Over,
         NEW next \in Busy, GoesOn(a, next), NEW w \in Works, w.device # None,
         work' = [work EXCEPT ![a] = w],
         DataOK', ShownInv', BluetoothWritesOwn',
         stage'[a] = next /\ work'[a] = w => WorkInv(a)' /\ SampleInv(a)'
  PROVE  CoordinatorInv'
<1>1. CallsOK /\ LockInv
  BY TypeParts DEF CoordinatorInv
<1>2. stage' = [stage EXCEPT ![a] = next] /\ transaction' = transaction
  BY DEF GoesOn
<1>3. next \notin Over \union {"waiting"}
  BY DEF Over, Busy
<1>4. stage'[a] = next /\ work'[a] = w
      /\ \A b \in Actors \ {a} : stage'[b] = stage[b] /\ work'[b] = work[b]
  BY <1>1, <1>2 DEF CallsOK
<1>5. CallsOK'
  <2>1. \E i \in 1..Len(transaction) : transaction[i] = a
    BY <1>1 DEF CallsOK
  <2>2. ASSUME NEW b \in Actors
        PROVE  /\ stage'[b] \in Over \union {"waiting"} <=> work'[b].device = None
               /\ stage'[b] \in Over <=> \A i \in 1..Len(transaction') : transaction'[i] # b
    <3>1. CASE b = a
      BY <1>2, <1>3, <1>4, <2>1, <3>1
    <3>2. CASE b # a
      BY <1>1, <1>2, <1>4, <3>2 DEF CallsOK
    <3> QED BY <3>1, <3>2
  <2> QED BY <1>1, <1>2, <2>2 DEF CallsOK
<1>6. LockInv'
  <2>1. Len(transaction) > 0
    BY <1>1 DEF CallsOK
  <2> QED BY <1>1, <1>2, <1>4, <2>1 DEF LockInv
<1>7. ASSUME NEW b \in Actors PROVE WorkInv(b)' /\ SampleInv(b)'
  <2>1. CASE b = a
    BY <1>4, <2>1
  <2>2. CASE b # a
    BY <1>4, <2>2, OthersWait
  <2> QED BY <2>1, <2>2
<1> QED BY <1>5, <1>6, <1>7, TypeParts DEF CoordinatorInv

\* Steps that neither write nor publish.
LEMMA DataStays ==
  ASSUME CoordinatorInv, UNCHANGED <<config, data, clock, rest>>
  PROVE  DataOK' /\ ShownInv' /\ BluetoothWritesOwn'
<1>1. DataOK /\ ShownInv /\ BluetoothWritesOwn
  BY TypeParts DEF CoordinatorInv
<1> QED BY <1>1 DEF data, rest, DataOK, ShownInv, ShownIsCoherent, ShownTogether,
        OwnShown, BluetoothWritesOwn, Bluetooth

LEMMA OpenKeepsInv ==
  ASSUME CoordinatorInv, NEW a \in Actors, Open(a)
  PROVE  CoordinatorInv'
<1>1. stage[a] = "waiting" /\ Turn(a) /\ UNCHANGED <<config, data, clock, rest>>
  BY DEF Open
<1>2. transaction[1] = a /\ stage[a] \notin Over /\ work[a] \in Works
  BY <1>1, HasLock
<1>3. PICK d \in Devices :
        /\ work' = [work EXCEPT ![a].device = d]
        /\ GoesOn(a, IF Bluetooth /\ ~Identified(d) THEN "failing"
                     ELSE IF a = Poll THEN "telemetry" ELSE "current")
  BY DEF Open
<1> DEFINE w == [work[a] EXCEPT !.device = d]
           next == IF Bluetooth /\ ~Identified(d) THEN "failing"
                   ELSE IF a = Poll THEN "telemetry" ELSE "current"
<1>4. w \in Works /\ w.device = d /\ w.device # None /\ w.telemetry = work[a].telemetry
      /\ w.configuration = work[a].configuration
  BY <1>2 DEF Works
<1>5. work' = [work EXCEPT ![a] = w] /\ GoesOn(a, next)
  BY <1>3
<1>6. next \in Busy /\ next \in {"failing", "telemetry", "current"}
      /\ (next = "telemetry" => a = Poll) /\ (next = "current" => a \in Editors)
      /\ (Bluetooth /\ next # "failing" => d = Own)
  BY DEF Busy, Actors, Identified
<1>7. work[a].telemetry = 0 /\ work[a].configuration = None
  BY <1>1 DEF CoordinatorInv, WorkInv
<1>8. Bluetooth' <=> Bluetooth
  BY <1>1 DEF Bluetooth, rest
<1> HIDE DEF w, next
<1>9. stage'[a] = next /\ work'[a] = w => WorkInv(a)' /\ SampleInv(a)'
  BY <1>4, <1>6, <1>7, <1>8 DEF WorkInv, SampleInv, Over
<1> QED BY <1>1, <1>2, <1>4, <1>5, <1>6, <1>9, DataStays, StepKeepsInv

-----------------------------------------------------------------------------
(* An edit                                                                 *)

LEMMA ReadCurrentKeepsInv ==
  ASSUME CoordinatorInv, NEW a \in Actors, ReadCurrent(a)
  PROVE  CoordinatorInv'
<1>1. /\ stage[a] = "current" /\ UNCHANGED <<config, data, clock, rest>>
      /\ GoesOn(a, "planning")
  BY DEF ReadCurrent
<1>2. /\ transaction[1] = a /\ stage[a] \notin Over /\ work[a] \in Works
      /\ work[a].device \in Devices /\ "planning" \in Busy
  BY <1>1, HasLock DEF Busy
<1>3. config \in [Devices -> Slots]
  BY TypeParts DEF CoordinatorInv, DataOK
<1> DEFINE w == [work[a] EXCEPT !.base = config[work[a].device]]
<1>4. /\ w \in Works /\ w.device = work[a].device /\ w.device # None
      /\ w.base = config[w.device] /\ w.base \in Slots /\ w.telemetry = work[a].telemetry
      /\ w.configuration = work[a].configuration
  BY <1>2, <1>3 DEF Works
<1>5. work' = [work EXCEPT ![a] = w]
  BY DEF ReadCurrent
<1>6. WorkInv(a) /\ (Bluetooth' <=> Bluetooth)
  BY <1>1 DEF CoordinatorInv, Bluetooth, rest
<1> HIDE DEF w
<1>7. stage'[a] = "planning" /\ work'[a] = w => WorkInv(a)' /\ SampleInv(a)'
  BY <1>1, <1>4, <1>6 DEF WorkInv, SampleInv, Over
<1> QED BY <1>1, <1>2, <1>4, <1>5, <1>7, DataStays, StepKeepsInv

LEMMA PlanKeepsInv ==
  ASSUME CoordinatorInv, NEW a \in Actors, Plan(a)
  PROVE  CoordinatorInv'
<1>1. /\ stage[a] = "planning" /\ UNCHANGED <<config, data, clock, rest>>
      /\ GoesOn(a, "applying")
  BY DEF Plan
<1>2. /\ transaction[1] = a /\ stage[a] \notin Over /\ work[a] \in Works
      /\ work[a].device \in Devices /\ "applying" \in Busy
  BY <1>1, HasLock DEF Busy
<1>3. config \in [Devices -> Slots]
  BY TypeParts DEF CoordinatorInv, DataOK
<1> DEFINE w == [work[a] EXCEPT !.before = config[work[a].device]]
<1>4. /\ w \in Works /\ w.device = work[a].device /\ w.device # None
      /\ w.base = work[a].base /\ w.telemetry = work[a].telemetry
      /\ w.configuration = work[a].configuration
  BY <1>2, <1>3 DEF Works
<1>5. work' = [work EXCEPT ![a] = w]
  BY DEF Plan
<1>6. WorkInv(a) /\ (Bluetooth' <=> Bluetooth) /\ outside' = outside
  BY <1>1 DEF CoordinatorInv, Bluetooth, rest
<1> HIDE DEF w
<1>7. stage'[a] = "applying" /\ work'[a] = w => WorkInv(a)' /\ SampleInv(a)'
  BY <1>1, <1>4, <1>6 DEF WorkInv, SampleInv, Over
<1> QED BY <1>1, <1>2, <1>4, <1>5, <1>7, DataStays, StepKeepsInv

\* A write of the call that has the lock.
LEMMA WriteKeepsData ==
  ASSUME CoordinatorInv, NEW a \in Actors, stage[a] = "applying",
         config' \in {config, Written(a)},
         UNCHANGED <<transport, data, clock, outside>>
  PROVE  /\ config' \in [Devices -> Slots]
         /\ ShownInv' /\ BluetoothWritesOwn'
<1>1. /\ a \in Editors /\ work[a].base \in Slots /\ work[a].device \in Devices
      /\ Bluetooth => work[a].device = Own
  BY HasLock DEF CoordinatorInv, WorkInv, Busy
<1>2. Edited(a) \in Slots
  BY <1>1 DEF Edited, Slots, Writers
<1>3. config \in [Devices -> Slots] /\ ShownInv /\ BluetoothWritesOwn
  BY TypeParts DEF CoordinatorInv, DataOK
<1>4. config' \in [Devices -> Slots]
  BY <1>1, <1>2, <1>3 DEF Written
<1>5. ShownInv'
  BY <1>3 DEF ShownInv, ShownIsCoherent, ShownTogether, OwnShown, data
<1>6. BluetoothWritesOwn'
  BY <1>1, <1>3 DEF BluetoothWritesOwn, Bluetooth, Written
<1> QED BY <1>4, <1>5, <1>6

LEMMA ApplyKeepsInv ==
  ASSUME CoordinatorInv, NEW a \in Actors, Apply(a) \/ ApplyFails(a)
  PROVE  CoordinatorInv'
<1> DEFINE next == IF Apply(a) THEN "telemetry" ELSE "failing"
<1>1. /\ stage[a] = "applying" /\ config' \in {config, Written(a)}
      /\ UNCHANGED <<work, data, clock, rest>>
      /\ GoesOn(a, next) /\ next \in {"telemetry", "failing"} /\ next \in Busy
      /\ next = "telemetry" => config' = Written(a)
  BY DEF Apply, ApplyFails, Busy
<1> HIDE DEF next
<1>2. /\ transaction[1] = a /\ stage[a] \notin Over /\ work[a] \in Works
      /\ work[a].device # None
  BY <1>1, HasLock DEF Busy
<1>3. config' \in [Devices -> Slots] /\ ShownInv' /\ BluetoothWritesOwn'
  BY <1>1, WriteKeepsData DEF rest
<1>4. DataOK'
  BY <1>1, <1>3, TypeParts DEF CoordinatorInv, DataOK, data, rest
<1>5. work' = [work EXCEPT ![a] = work[a]]
  BY <1>1, TypeParts DEF CoordinatorInv, CallsOK
<1>6. WorkInv(a) /\ (Bluetooth' <=> Bluetooth)
  BY <1>1 DEF CoordinatorInv, Bluetooth, rest
<1>7. next = "telemetry" => \A f \in Changes[a] : config'[work[a].device][f] = a
  <2>1. /\ config \in [Devices -> Slots] /\ work[a].device \in Devices
        /\ a \in Editors
    BY <1>1, <1>6, HasLock, TypeParts DEF CoordinatorInv, DataOK, WorkInv, Busy
  <2>2. Changes[a] \subseteq Fields
    BY <2>1
  <2>3. next = "telemetry" => config'[work[a].device] = Edited(a)
    BY <1>1, <2>1 DEF Written
  <2> QED BY <2>2, <2>3 DEF Edited
<1>8. stage'[a] = next /\ work'[a] = work[a] => WorkInv(a)' /\ SampleInv(a)'
  BY <1>1, <1>6, <1>7 DEF WorkInv, SampleInv, Over
<1> QED BY <1>1, <1>2, <1>3, <1>4, <1>5, <1>8, StepKeepsInv

-----------------------------------------------------------------------------
(* Reading                                                                 *)

LEMMA ReadTelemetryKeepsInv ==
  ASSUME CoordinatorInv, NEW a \in Actors, ReadTelemetry(a)
  PROVE  CoordinatorInv'
<1>1. /\ stage[a] = "telemetry" /\ clock' = clock + 1
      /\ UNCHANGED <<config, data, rest>>
  BY DEF ReadTelemetry
<1>2. /\ transaction[1] = a /\ stage[a] \notin Over /\ work[a] \in Works
      /\ work[a].device # None /\ "configuration" \in Busy /\ "failing" \in Busy
  BY <1>1, HasLock DEF Busy
<1>3. DataOK /\ ShownInv /\ BluetoothWritesOwn /\ WorkInv(a) /\ clock \in Nat
  BY TypeParts DEF CoordinatorInv, DataOK
<1>4. DataOK' /\ ShownInv' /\ BluetoothWritesOwn' /\ (Bluetooth' <=> Bluetooth)
  BY <1>1, <1>3 DEF DataOK, data, rest, ShownInv, ShownIsCoherent, ShownTogether,
     OwnShown, BluetoothWritesOwn, Bluetooth
<1>5. CASE Bluetooth \/ Identified(work[a].device)
  <2> DEFINE w == [work[a] EXCEPT !.telemetry = clock']
  <2>1. work' = [work EXCEPT ![a] = w] /\ GoesOn(a, "configuration")
    BY <1>5 DEF ReadTelemetry
  <2>2. /\ w \in Works /\ w.device = work[a].device /\ w.device # None
        /\ w.telemetry = clock' /\ w.configuration = work[a].configuration
    BY <1>1, <1>2, <1>3 DEF Works
  <2>3. w.device = Own /\ w.configuration = None
    BY <1>1, <1>3, <1>5, <2>2 DEF WorkInv, Identified
  <2> HIDE DEF w
  <2>4. /\ published'.telemetry < clock' /\ clock' \in Nat
        /\ published'.configuration # None => published'.configuration.at < clock'
    <3>1. published'.configuration # None => published'.configuration \in Readings
      BY <1>4 DEF DataOK
    <3> QED BY <1>1, <1>3, <3>1 DEF ShownInv, DataOK, data, Readings
  <2>5. a \in Editors /\ outside' = 0 =>
          \A f \in Changes[a] : config'[w.device][f] = a
    BY <1>1, <1>3, <2>2 DEF WorkInv, rest
  <2>6. stage'[a] = "configuration" /\ work'[a] = w => WorkInv(a)' /\ SampleInv(a)'
    BY <2>2, <2>3, <2>4, <2>5 DEF WorkInv, SampleInv, Over
  <2> QED BY <1>2, <1>4, <2>1, <2>2, <2>6, StepKeepsInv
<1>6. CASE ~(Bluetooth \/ Identified(work[a].device))
  <2>1. work' = [work EXCEPT ![a] = work[a]] /\ GoesOn(a, "failing")
    BY <1>6, TypeParts DEF ReadTelemetry, CoordinatorInv, CallsOK
  <2>2. stage'[a] = "failing" /\ work'[a] = work[a] => WorkInv(a)' /\ SampleInv(a)'
    BY <1>1, <1>3 DEF WorkInv, SampleInv, Over
  <2> QED BY <1>2, <1>4, <2>1, <2>2, StepKeepsInv
<1> QED BY <1>5, <1>6

LEMMA StepFailsKeepsInv ==
  ASSUME CoordinatorInv, NEW a \in Actors, StepFails(a)
  PROVE  CoordinatorInv'
<1>1. /\ stage[a] \in {"current", "planning", "telemetry"} /\ GoesOn(a, "failing")
      /\ UNCHANGED <<work, config, data, clock, rest>>
  BY DEF StepFails
<1>2. /\ transaction[1] = a /\ stage[a] \notin Over /\ work[a] \in Works
      /\ work[a].device # None /\ "failing" \in Busy
  BY <1>1, HasLock DEF Busy
<1>3. work' = [work EXCEPT ![a] = work[a]] /\ WorkInv(a)
  BY <1>1, TypeParts DEF CoordinatorInv, CallsOK
<1>4. stage'[a] = "failing" /\ work'[a] = work[a] => WorkInv(a)' /\ SampleInv(a)'
  BY <1>1, <1>3 DEF WorkInv, SampleInv, Over
<1> QED BY <1>1, <1>2, <1>3, <1>4, DataStays, StepKeepsInv

LEMMA NoConfigurationKeepsInv ==
  ASSUME CoordinatorInv, NEW a \in Actors, NoConfiguration(a)
  PROVE  CoordinatorInv'
<1>1. stage[a] = "configuration" /\ UNCHANGED <<config, data, clock, rest>>
  BY DEF NoConfiguration
<1>2. /\ transaction[1] = a /\ stage[a] \notin Over /\ work[a] \in Works
      /\ work[a].device # None
      /\ "exiting" \in Busy /\ "discarding" \in Busy /\ "failing" \in Busy
  BY <1>1, HasLock DEF Busy
<1>3. /\ WorkInv(a) /\ SampleInv(a) /\ (Bluetooth' <=> Bluetooth)
      /\ UNCHANGED <<published, clock>>
  BY <1>1 DEF CoordinatorInv, data, Bluetooth, rest
<1>4. work[a].configuration = None /\ work \in [Actors -> Works]
  BY <1>1, <1>3, TypeParts DEF SampleInv, CoordinatorInv, CallsOK
<1>5. work' = [work EXCEPT ![a] = work[a]]
  <2>1. work' = work \/ work' = [work EXCEPT ![a].configuration = None]
    BY DEF NoConfiguration, Missing
  <2>2. [work[a] EXCEPT !.configuration = None] = work[a]
    BY <1>2, <1>4 DEF Works
  <2> QED BY <1>4, <2>1, <2>2
<1> DEFINE next == IF Tolerated(a) THEN IF Bluetooth THEN "exiting" ELSE "discarding"
                   ELSE "failing"
<1>6. GoesOn(a, next)
  BY DEF NoConfiguration
<1>7. /\ next \in Busy /\ next \in {"exiting", "discarding", "failing"}
      /\ (next = "failing" => a # Poll) /\ (next = "exiting" => Bluetooth)
      /\ (next # "failing" => a = Poll)
  BY <1>2 DEF Tolerated
<1> HIDE DEF next
<1>8. stage'[a] = next /\ work'[a] = work[a] => WorkInv(a)' /\ SampleInv(a)'
  BY <1>1, <1>3, <1>4, <1>7 DEF WorkInv, SampleInv, Over
<1> QED BY <1>1, <1>2, <1>5, <1>6, <1>7, <1>8, DataStays, StepKeepsInv

-----------------------------------------------------------------------------
(* Ending                                                                  *)

\* A call ends and publishes nothing.
LEMMA EndKeepsInv ==
  ASSUME CoordinatorInv, NEW a \in Actors, stage[a] \in Busy \union {"waiting"},
         NEW outcome \in Over, Ends(a, outcome),
         UNCHANGED <<transport, published, clock, outside>>,
         stage[a] = "waiting" => config' = config,
         DataOK', ShownInv', BluetoothWritesOwn'
  PROVE  CoordinatorInv'
<1>1. /\ CallsOK' /\ LockInv'
      /\ stage'[a] \in Over /\ work'[a] = NoWork
      /\ \A b \in Actors \ {a} : stage'[b] = stage[b] /\ work'[b] = work[b]
  BY HasLock, EndsKeepsCalls
<1>2. ASSUME NEW b \in Actors PROVE WorkInv(b)' /\ SampleInv(b)'
  <2>1. CASE b = a
    BY <1>1, <2>1 DEF NoWork, WorkInv, SampleInv, Over
  <2>2. CASE b # a /\ stage[a] \in Busy
    BY <1>1, <2>2, HasLock, OthersWait
  <2>3. CASE b # a /\ stage[a] = "waiting"
    BY <1>1, <2>3, Bystander
  <2> QED BY <2>1, <2>2, <2>3
<1> QED BY <1>1, <1>2, TypeParts DEF CoordinatorInv

\* A call ends and publishes what it has read.
LEMMA PublishKeepsInv ==
  ASSUME CoordinatorInv, NEW a \in Actors,
         stage[a] \in {"configuration", "exiting", "discarding"},
         NEW w \in Works, w.device = work[a].device, w.telemetry = work[a].telemetry,
         w.configuration # None =>
           w.configuration.at = w.telemetry + 1 /\ w.configuration.at <= clock',
         clock' \in {clock, clock + 1}, UNCHANGED <<config, rest>>, Publish(a, w)
  PROVE  CoordinatorInv'
<1>1. stage[a] \in Busy /\ stage[a] \notin Over /\ transaction[1] = a
  BY HasLock DEF Busy
<1>2. /\ CallsOK' /\ LockInv'
      /\ stage'[a] \in Over /\ work'[a] = NoWork
      /\ \A b \in Actors \ {a} : stage'[b] = stage[b] /\ work'[b] = work[b]
  BY <1>1, EndsKeepsCalls DEF Publish, Over
<1>3. /\ published' = [device |-> w.device, telemetry |-> w.telemetry,
                       configuration |-> w.configuration]
      /\ success' = TRUE
  BY DEF Publish
<1>4. DataOK /\ BluetoothWritesOwn /\ WorkInv(a) /\ SampleInv(a)
  BY TypeParts DEF CoordinatorInv
<1>5. w.device = Own /\ w.telemetry <= clock' /\ w.telemetry \in Nat /\ clock' \in Nat
  BY <1>4 DEF WorkInv, SampleInv, Works, DataOK
<1>6. DataOK'
  BY <1>3, <1>4, <1>5 DEF DataOK, rest, Works
<1>7. ShownInv' /\ BluetoothWritesOwn'
  BY <1>3, <1>4, <1>5 DEF ShownInv, ShownIsCoherent, ShownTogether, OwnShown,
     BluetoothWritesOwn, Bluetooth, rest
<1>8. ASSUME NEW b \in Actors PROVE WorkInv(b)' /\ SampleInv(b)'
  <2>1. CASE b = a
    BY <1>2, <2>1 DEF NoWork, WorkInv, SampleInv, Over
  <2>2. CASE b # a
    BY <1>1, <1>2, <2>2, OthersWait
  <2> QED BY <2>1, <2>2
<1> QED BY <1>2, <1>6, <1>7, <1>8, TypeParts DEF CoordinatorInv

LEMMA ReadConfigurationKeepsInv ==
  ASSUME CoordinatorInv, NEW a \in Actors, ReadConfiguration(a)
  PROVE  CoordinatorInv'
<1> DEFINE reading == Read(a)
           w == [work[a] EXCEPT !.configuration = reading]
<1>1. /\ stage[a] = "configuration" /\ clock' = clock + 1
      /\ UNCHANGED <<config, rest>>
  BY DEF ReadConfiguration
<1>2. /\ transaction[1] = a /\ stage[a] \notin Over /\ work[a] \in Works
      /\ work[a].device \in Devices /\ work[a].device # None /\ "exiting" \in Busy
  BY <1>1, HasLock DEF Busy
<1>3. DataOK /\ ShownInv /\ BluetoothWritesOwn /\ WorkInv(a) /\ SampleInv(a)
  BY TypeParts DEF CoordinatorInv
<1>4. /\ reading \in Readings /\ reading # None
      /\ reading.at = clock + 1 /\ reading.slot = config[work[a].device]
  BY <1>2, <1>3 DEF DataOK, Readings, Read
<1>5. /\ w \in Works /\ w.device = work[a].device
      /\ w.telemetry = work[a].telemetry /\ w.configuration = reading
  BY <1>2, <1>4 DEF Works
<1>6. w.telemetry = clock /\ w.telemetry \in Nat
  BY <1>1, <1>3, <1>5 DEF SampleInv, DataOK
<1> HIDE DEF reading
<1>7. CASE Bluetooth
  <2>1. work' = [work EXCEPT ![a] = w] /\ GoesOn(a, "exiting") /\ UNCHANGED data
    BY <1>7 DEF ReadConfiguration, reading
  <2>2. DataOK' /\ ShownInv' /\ BluetoothWritesOwn'
    BY <1>1, <1>3, <2>1 DEF DataOK, data, rest, ShownInv, ShownIsCoherent,
       ShownTogether, OwnShown, BluetoothWritesOwn, Bluetooth
  <2>3. Bluetooth' /\ published' = published
    BY <1>1, <1>7, <2>1 DEF Bluetooth, rest, data
  <2> HIDE DEF w
  <2>4. /\ published.telemetry < w.telemetry /\ w.telemetry <= clock' /\ w.device = Own
        /\ published.configuration # None => published.configuration.at < w.telemetry
        /\ w.configuration.at = w.telemetry + 1 /\ w.configuration.at <= clock'
    BY <1>1, <1>3, <1>4, <1>5, <1>6 DEF SampleInv, WorkInv, DataOK
  <2>5. /\ w.configuration # None
        /\ a \in Editors /\ outside' = 0 =>
             \A f \in Changes[a] : /\ config'[w.device][f] = a
                                   /\ w.configuration.slot[f] = a
    BY <1>1, <1>3, <1>4, <1>5 DEF WorkInv, rest
  <2>6. stage'[a] = "exiting" /\ work'[a] = w => WorkInv(a)' /\ SampleInv(a)'
    BY <2>3, <2>4, <2>5 DEF WorkInv, SampleInv, Over
  <2> QED BY <1>2, <1>5, <2>1, <2>2, <2>6, StepKeepsInv
<1>8. CASE ~Bluetooth
  <2>1. Publish(a, w)
    BY <1>8 DEF ReadConfiguration, reading
  <2> HIDE DEF w
  <2>2. w.configuration.at = w.telemetry + 1 /\ w.configuration.at <= clock'
    BY <1>1, <1>3, <1>4, <1>5, <1>6 DEF DataOK
  <2> QED BY <1>1, <1>5, <2>1, <2>2, PublishKeepsInv
<1> QED BY <1>7, <1>8

LEMMA CloseKeepsInv ==
  ASSUME CoordinatorInv, NEW a \in Actors, Close(a)
  PROVE  CoordinatorInv'
<1>1. /\ stage[a] \in {"exiting", "discarding"} /\ Publish(a, work[a])
      /\ UNCHANGED <<config, clock, rest>>
  BY DEF Close
<1>2. SampleInv(a) /\ work[a] \in Works
  BY HasLock DEF CoordinatorInv
<1>3. work[a].configuration # None =>
        /\ work[a].configuration.at = work[a].telemetry + 1
        /\ work[a].configuration.at <= clock'
  BY <1>1, <1>2 DEF SampleInv
<1> QED BY <1>1, <1>2, <1>3, PublishKeepsInv

LEMMA RaiseKeepsInv ==
  ASSUME CoordinatorInv, NEW a \in Actors,
         OpenFails(a) \/ CloseFails(a) \/ FailureEnds(a) \/ CancelEnds(a)
  PROVE  CoordinatorInv'
<1>1. /\ stage[a] \in {"waiting", "exiting", "failing", "cancelling"}
      /\ UNCHANGED <<published, config, clock, rest>>
      /\ success' \in {success, success /\ a # Poll}
  BY DEF OpenFails, CloseFails, FailureEnds, CancelEnds, Raise, data
<1>2. PICK outcome \in Over : Ends(a, outcome)
  BY DEF OpenFails, CloseFails, FailureEnds, CancelEnds, Raise, Over
<1>3. stage[a] \in Busy \union {"waiting"}
  BY <1>1 DEF Busy
<1>4. DataOK /\ ShownInv /\ BluetoothWritesOwn
  BY TypeParts DEF CoordinatorInv
<1>5. success' \in BOOLEAN
  BY <1>1, <1>4 DEF DataOK
<1>6. DataOK'
  BY <1>1, <1>4, <1>5 DEF DataOK, rest
<1>7. ShownInv' /\ BluetoothWritesOwn'
  BY <1>1, <1>4 DEF rest, ShownInv, ShownIsCoherent, ShownTogether, OwnShown,
     BluetoothWritesOwn, Bluetooth
<1> QED BY <1>1, <1>2, <1>3, <1>6, <1>7, EndKeepsInv DEF rest

LEMMA CancelKeepsInv ==
  ASSUME CoordinatorInv, NEW a \in Actors, Cancel(a)
  PROVE  CoordinatorInv'
<1>1. /\ stage[a] \notin Over \union {"cancelling"}
      /\ \/ config' = config
         \/ stage[a] = "applying" /\ config' = Written(a)
      /\ cancels' = cancels + 1 /\ cancels < MaxCancels
      /\ UNCHANGED <<transport, published, success, clock, polls, outside>>
  BY DEF Cancel, data
<1>2. CallsOK /\ DataOK /\ ShownInv /\ BluetoothWritesOwn
  BY TypeParts DEF CoordinatorInv
<1>3. stage[a] \in Busy \union {"waiting"}
  BY <1>1, <1>2 DEF CallsOK
<1>4. config' \in [Devices -> Slots] /\ ShownInv' /\ BluetoothWritesOwn'
  <2>1. CASE config' = config
    BY <1>1, <1>2, <2>1 DEF DataOK, ShownInv, ShownIsCoherent, ShownTogether, OwnShown,
       BluetoothWritesOwn, Bluetooth
  <2>2. CASE stage[a] = "applying" /\ config' = Written(a)
    BY <1>1, <2>2, WriteKeepsData DEF data
  <2> QED BY <1>1, <2>1, <2>2
<1>5. DataOK'
  BY <1>1, <1>2, <1>4 DEF DataOK
<1>6. CASE Bluetooth /\ stage[a] # "waiting"
  <2>1. GoesOn(a, "cancelling") /\ work' = [work EXCEPT ![a] = work[a]]
    BY <1>2, <1>6 DEF Cancel, CallsOK
  <2>2. /\ transaction[1] = a /\ stage[a] \notin Over /\ work[a] \in Works
        /\ work[a].device # None /\ "cancelling" \in Busy
    BY <1>3, <1>6, HasLock DEF Busy
  <2>3. stage'[a] = "cancelling" /\ work'[a] = work[a] => WorkInv(a)' /\ SampleInv(a)'
    BY DEF WorkInv, SampleInv, Over
  <2> QED BY <1>4, <1>5, <2>1, <2>2, <2>3, StepKeepsInv
<1>7. CASE ~(Bluetooth /\ stage[a] # "waiting")
  <2>1. Ends(a, "cancelled") /\ "cancelled" \in Over
    BY <1>7 DEF Cancel, Over
  <2> QED BY <1>1, <1>3, <1>4, <1>5, <2>1, EndKeepsInv
<1> QED BY <1>6, <1>7

LEMMA OutsideKeepsInv ==
  ASSUME CoordinatorInv, ChangeOutside
  PROVE  CoordinatorInv'
<1>1. /\ outside < MaxOutside /\ outside' = outside + 1
      /\ UNCHANGED <<transport, transaction, stage, work, published, success, clock,
                     polls, cancels>>
  BY DEF ChangeOutside, data
<1>2. PICK f \in Fields : config' = [config EXCEPT ![Own][f] = Outside]
  BY DEF ChangeOutside
<1>3. CallsOK /\ DataOK /\ ShownInv /\ BluetoothWritesOwn /\ LockInv
  BY TypeParts DEF CoordinatorInv
<1>4. config' \in [Devices -> Slots]
  BY <1>2, <1>3 DEF DataOK, Slots, Writers
<1>5. CallsOK' /\ LockInv'
  BY <1>1, <1>3 DEF CallsOK, LockInv
<1>6. DataOK' /\ outside' # 0
  BY <1>1, <1>3, <1>4 DEF DataOK
<1>7. ShownInv' /\ BluetoothWritesOwn'
  BY <1>1, <1>2, <1>3 DEF ShownInv, ShownIsCoherent, ShownTogether, OwnShown,
     BluetoothWritesOwn, Bluetooth, DataOK
<1>8. ASSUME NEW a \in Actors PROVE WorkInv(a)' /\ SampleInv(a)'
  BY <1>1, <1>6 DEF CoordinatorInv, WorkInv, SampleInv, Bluetooth
<1> QED BY <1>5, <1>6, <1>7, <1>8, TypeParts DEF CoordinatorInv

LEMMA NextInv == CoordinatorInv /\ [Next]_vars => CoordinatorInv'
<1> SUFFICES ASSUME CoordinatorInv, [Next]_vars PROVE CoordinatorInv'
  OBVIOUS
<1>1. CASE UNCHANGED vars
  <2>1. CallsOK /\ LockInv
    BY TypeParts DEF CoordinatorInv
  <2>2. DataOK' /\ ShownInv' /\ BluetoothWritesOwn'
    BY <1>1, DataStays DEF vars, data, rest
  <2>3. CallsOK' /\ LockInv'
    BY <1>1, <2>1 DEF vars, CallsOK, LockInv
  <2>4. \A a \in Actors : WorkInv(a)' /\ SampleInv(a)'
    BY <1>1, Bystander DEF vars, data
  <2> QED BY <2>2, <2>3, <2>4, TypeParts DEF CoordinatorInv
<1>2. ASSUME NEW a \in Actors, Ask(a) \/ Proceed(a) \/ Cancel(a) PROVE CoordinatorInv'
  BY <1>2, AskKeepsInv, OpenKeepsInv, ReadCurrentKeepsInv, PlanKeepsInv, ApplyKeepsInv,
     ReadTelemetryKeepsInv, ReadConfigurationKeepsInv, NoConfigurationKeepsInv,
     StepFailsKeepsInv, CloseKeepsInv, RaiseKeepsInv, CancelKeepsInv
  DEF Proceed
<1> QED BY <1>1, <1>2, OutsideKeepsInv DEF Next

-----------------------------------------------------------------------------
(* Theorems                                                                *)

\* The inductive invariant of the coordinator: one busy call, at the head of
\* the queue, and what it has established.
THEOREM CoordinatorCorrect == Spec => []CoordinatorInv
  BY InitInv, NextInv, PTL DEF Spec

\* Type correctness, and with it that a call is in the queue until it is over.
THEOREM CoordinatorTypes == Spec => []TypeOK
<1>1. CoordinatorInv => TypeOK
  BY DEF CoordinatorInv
<1> QED BY <1>1, CoordinatorCorrect, PTL

\* What the entities show was read in one transaction from the entry's device.
THEOREM ShownBelongsTogether == Spec => []ShownIsCoherent
<1>1. CoordinatorInv => ShownIsCoherent
  BY DEF CoordinatorInv, ShownInv
<1> QED BY <1>1, CoordinatorCorrect, PTL

\* Over Bluetooth no other device is written.
THEOREM OnlyOwnWritten == Spec => []BluetoothWritesOwn
<1>1. CoordinatorInv => BluetoothWritesOwn
  BY DEF CoordinatorInv
<1> QED BY <1>1, CoordinatorCorrect, PTL

\* What is published changes only by the three steps that publish.
LEMMA Publishing ==
  ASSUME [Next]_vars
  PROVE  \/ published' = published
         \/ \E a \in Actors : (ReadConfiguration(a) /\ ~Bluetooth) \/ Close(a)
<1>1. CASE ChangeOutside \/ UNCHANGED vars
  BY <1>1 DEF ChangeOutside, vars, data
<1>2. ASSUME NEW a \in Actors, Ask(a) \/ Proceed(a) \/ Cancel(a)
      PROVE  published' = published \/ (ReadConfiguration(a) /\ ~Bluetooth) \/ Close(a)
  BY <1>2 DEF Ask, Proceed, Cancel, Open, OpenFails, ReadCurrent, Plan, Apply, ApplyFails,
     ReadTelemetry, ReadConfiguration, NoConfiguration, StepFails, CloseFails,
     FailureEnds, CancelEnds, Raise, data
<1> QED BY <1>1, <1>2 DEF Next

\* Nothing shown is replaced by something older.
THEOREM ShownNeverOlder == Spec => NeverOlder
<1> DEFINE P == /\ published'.telemetry >= published.telemetry
                /\ (published.configuration # None /\ published'.configuration # None) =>
                     published'.configuration.at >= published.configuration.at
<1>1. ASSUME CoordinatorInv, [Next]_vars PROVE P
  <2>1. DataOK
    BY <1>1, TypeParts DEF CoordinatorInv
  <2>2. /\ published.telemetry \in Nat /\ clock \in Nat
        /\ published.configuration # None => published.configuration.at \in Nat
    BY <2>1 DEF DataOK, Readings
  <2>3. CASE published' = published
    BY <2>2, <2>3
  <2>4. ASSUME NEW a \in Actors, ReadConfiguration(a), ~Bluetooth PROVE P
    <3>1. SampleInv(a) /\ stage[a] = "configuration" /\ work[a] \in Works
      BY <1>1, <2>4, HasLock DEF CoordinatorInv, ReadConfiguration
    <3>2. /\ published'.telemetry = work[a].telemetry
          /\ published'.configuration.at = clock + 1
      BY <2>4, <3>1 DEF ReadConfiguration, Publish, Read, Works
    <3>3. work[a].telemetry \in Nat
      BY <3>1 DEF Works
    <3> QED BY <2>2, <3>1, <3>2, <3>3 DEF SampleInv
  <2>5. ASSUME NEW a \in Actors, Close(a) PROVE P
    <3>1. SampleInv(a) /\ stage[a] \in {"exiting", "discarding"} /\ work[a] \in Works
      BY <1>1, <2>5, HasLock DEF CoordinatorInv, Close
    <3>2. /\ published'.telemetry = work[a].telemetry
          /\ published'.configuration = work[a].configuration
      BY <2>5 DEF Close, Publish
    <3>3. work[a].telemetry \in Nat
      BY <3>1 DEF Works
    <3> QED BY <2>2, <3>1, <3>2, <3>3 DEF SampleInv
  <2> QED BY <1>1, <2>3, <2>4, <2>5, Publishing
<1>2. CoordinatorInv /\ [Next]_vars => [P]_vars
  BY <1>1
<1> QED BY <1>2, CoordinatorCorrect, PTL DEF Spec, NeverOlder

\* Nothing but the fields that an edit asked for changes while it is applied.
THEOREM OtherFieldsKept == Spec => KeepsOtherFields
<1> DEFINE P == \A f \in Fields : outside' = 0 /\ config'[Own][f] # config[Own][f] =>
                  \E e \in Editors : stage[e] = "applying" /\ f \in Changes[e]
<1>1. ASSUME CoordinatorInv, [Next]_vars PROVE P
  <2> SUFFICES ASSUME NEW f \in Fields, outside' = 0, config'[Own][f] # config[Own][f]
               PROVE  \E e \in Editors : stage[e] = "applying" /\ f \in Changes[e]
    OBVIOUS
  <2>1. ~ChangeOutside
    BY <1>1, TypeParts DEF ChangeOutside, CoordinatorInv, DataOK
  <2>2. \E a \in Actors : stage[a] = "applying" /\ config' = Written(a) /\ outside' = outside
    <3>1. ~UNCHANGED vars
      BY DEF vars
    <3>2. PICK a \in Actors : Ask(a) \/ Proceed(a) \/ Cancel(a)
      BY <1>1, <2>1, <3>1 DEF Next
    <3>3. CASE Apply(a) \/ ApplyFails(a)
      BY <3>3 DEF Apply, ApplyFails, rest
    <3>4. CASE Cancel(a)
      BY <3>4 DEF Cancel
    <3>5. ~(Apply(a) \/ ApplyFails(a) \/ Cancel(a)) => config' = config
      BY <3>2 DEF Ask, Proceed, Open, OpenFails, ReadCurrent, Plan, ReadTelemetry,
         ReadConfiguration, NoConfiguration, StepFails, Close, CloseFails,
         FailureEnds, CancelEnds
    <3> QED BY <3>3, <3>4, <3>5
  <2>3. PICK a \in Actors : stage[a] = "applying" /\ config' = Written(a) /\ outside' = outside
    BY <2>2
  <2>4. /\ a \in Editors /\ work[a].base = config[work[a].device]
        /\ work[a].device \in Devices
    BY <1>1, <2>3, HasLock DEF CoordinatorInv, WorkInv, Busy
  <2>5. config \in [Devices -> Slots]
    BY <1>1, TypeParts DEF CoordinatorInv, DataOK
  <2>6. work[a].device = Own /\ config'[Own] = Edited(a)
    BY <2>3, <2>4, <2>5 DEF Written
  <2>7. f \in Changes[a]
    BY <2>4, <2>6 DEF Edited
  <2> QED BY <2>3, <2>4, <2>7
<1>2. CoordinatorInv /\ [Next]_vars => [P]_vars
  BY <1>1
<1> QED BY <1>2, CoordinatorCorrect, PTL DEF Spec, KeepsOtherFields

\* Success means that the values asked for are on the device and on show.
THEOREM EditsAreShown == Spec => EditsShown
<1> DEFINE P == \A e \in Editors :
                  stage[e] # "verified" /\ stage'[e] = "verified" /\ outside' = 0 =>
                    /\ published'.configuration # None
                    /\ \A f \in Changes[e] :
                         published'.configuration.slot[f] = e /\ config'[Own][f] = e
<1>1. ASSUME CoordinatorInv, [Next]_vars PROVE P
  <2> SUFFICES ASSUME NEW e \in Editors, stage[e] # "verified", stage'[e] = "verified",
                      outside' = 0
               PROVE  /\ published'.configuration # None
                      /\ \A f \in Changes[e] :
                           published'.configuration.slot[f] = e /\ config'[Own][f] = e
    OBVIOUS
  <2>1. /\ e \in Actors /\ e # Poll /\ WorkInv(e) /\ work[e] \in Works /\ DataOK
        /\ stage \in [Actors -> Over \union Busy \union {"waiting"}]
    BY <1>1, HasLock, TypeParts DEF Actors, CoordinatorInv, CallsOK
  <2>2. PICK a \in Actors : Ask(a) \/ Proceed(a) \/ Cancel(a)
    BY <1>1 DEF Next, ChangeOutside, vars
  <2>3. a = e
    BY <2>1, <2>2 DEF Ask, Proceed, Cancel, Open, OpenFails, ReadCurrent, Plan, Apply,
       ApplyFails, ReadTelemetry, ReadConfiguration, NoConfiguration, StepFails, Close,
       CloseFails, FailureEnds, CancelEnds, GoesOn, Publish, Raise, Ends
  <2>4. (ReadConfiguration(e) /\ ~Bluetooth) \/ Close(e)
    BY <2>1, <2>2, <2>3 DEF Ask, Proceed, Cancel, Open, OpenFails, ReadCurrent, Plan,
       Apply, ApplyFails, ReadTelemetry, ReadConfiguration, NoConfiguration, StepFails,
       CloseFails, FailureEnds, CancelEnds, GoesOn, Raise, Ends
  <2>5. ASSUME ReadConfiguration(e), ~Bluetooth
        PROVE  /\ published'.configuration # None
               /\ \A f \in Changes[e] :
                    published'.configuration.slot[f] = e /\ config'[Own][f] = e
    <3>1. stage[e] = "configuration" /\ UNCHANGED <<config, rest>>
      BY <2>5 DEF ReadConfiguration
    <3>2. work[e].device = Own /\ \A f \in Changes[e] : config[Own][f] = e
      BY <2>1, <3>1 DEF WorkInv, rest
    <3>3. Read(e) \in Readings
      BY <2>1, <3>2 DEF Read, Readings, DataOK
    <3>4. published'.configuration = Read(e)
      BY <2>1, <2>5 DEF ReadConfiguration, Publish, Works
    <3> QED BY <3>1, <3>2, <3>3, <3>4 DEF Read
  <2>6. ASSUME Close(e)
        PROVE  /\ published'.configuration # None
               /\ \A f \in Changes[e] :
                    published'.configuration.slot[f] = e /\ config'[Own][f] = e
    <3>1. stage[e] \in {"exiting", "discarding"} /\ UNCHANGED <<config, rest>>
          /\ published'.configuration = work[e].configuration
      BY <2>6 DEF Close, Publish
    <3>2. stage[e] = "exiting" /\ work[e].device = Own
      BY <2>1, <3>1 DEF WorkInv
    <3> QED BY <2>1, <3>1, <3>2 DEF WorkInv, rest
  <2> QED BY <2>4, <2>5, <2>6
<1>2. CoordinatorInv /\ [Next]_vars => [P]_vars
  BY <1>1
<1> QED BY <1>2, CoordinatorCorrect, PTL DEF Spec, EditsShown

\* Over Wi-Fi a valid sample is shown, whatever happens to its configuration.
THEOREM WifiShowsTelemetry == Spec => WifiTelemetryShown
<1>1. ASSUME CoordinatorInv, [Next]_vars, ~Bluetooth PROVE ShowsTelemetry
  <2> SUFFICES ASSUME stage[Poll] \notin {"idle", "cancelling"}, stage'[Poll] = "idle",
                      work[Poll].telemetry # 0, work[Poll].configuration = None,
                      cancels' = cancels
               PROVE  published'.telemetry = work[Poll].telemetry
    BY DEF ShowsTelemetry
  <2>1. /\ Poll \in Actors /\ WorkInv(Poll) /\ work[Poll] \in Works
        /\ stage \in [Actors -> Over \union Busy \union {"waiting"}]
    BY <1>1, HasLock, TypeParts DEF Actors, CoordinatorInv, CallsOK
  <2>2. stage[Poll] \notin Over \union {"waiting", "telemetry", "failing", "exiting"}
    BY <1>1, <2>1 DEF WorkInv
  <2>3. stage' # stage
    OBVIOUS
  <2>4. PICK a \in Actors : Ask(a) \/ Proceed(a) \/ Cancel(a)
    BY <1>1, <2>3 DEF Next, ChangeOutside, vars
  <2>5. a = Poll
    BY <2>1, <2>4 DEF Ask, Proceed, Cancel, Open, OpenFails, ReadCurrent, Plan, Apply,
       ApplyFails, ReadTelemetry, ReadConfiguration, NoConfiguration, StepFails, Close,
       CloseFails, FailureEnds, CancelEnds, GoesOn, Publish, Raise, Ends
  <2>6. CASE ReadConfiguration(a) \/ Close(a)
    BY <1>1, <2>1, <2>5, <2>6 DEF ReadConfiguration, Close, Publish, Works
  <2>7. ~(Ask(a) \/ OpenFails(a) \/ CloseFails(a) \/ FailureEnds(a) \/ CancelEnds(a))
    BY <2>2, <2>5 DEF Ask, OpenFails, CloseFails, FailureEnds, CancelEnds, Over
  <2>8. ~Cancel(a)
    BY <1>1, TypeParts DEF Cancel, CoordinatorInv, DataOK
  <2>9. ~(\/ Open(a) \/ ReadCurrent(a) \/ Plan(a) \/ Apply(a) \/ ApplyFails(a)
          \/ ReadTelemetry(a) \/ NoConfiguration(a) \/ StepFails(a))
    BY <2>1, <2>5 DEF Open, ReadCurrent, Plan, Apply, ApplyFails, ReadTelemetry,
       NoConfiguration, StepFails, GoesOn
  <2> QED BY <2>4, <2>6, <2>7, <2>8, <2>9 DEF Proceed
<1>2. CoordinatorInv /\ [Next]_vars => [~Bluetooth => ShowsTelemetry]_vars
  BY <1>1
<1> QED BY <1>2, CoordinatorCorrect, PTL DEF Spec, WifiTelemetryShown
=============================================================================

-------------------------- MODULE CliListenerProofs --------------------------
(***************************************************************************)
(* Proofs about CliListener, for any number of connections and any count.  *)
(***************************************************************************)
EXTENDS CliListener, TLAPS

USE ListenerAssumption

\* Who reads is wanted: it holds the lock, so no other handler prints meanwhile.
ReaderWanted == \A c \in Connections : handler[c] = "reading" => Wanted(samples)

\* The event says why it was set.
FinishedMeans ==
  /\ count # Unlimited => samples <= count
  /\ finished /\ ~failed => samples = count
  /\ main = "closing" => finished

\* After the command has ended no handler is left.
NothingLeft ==
  status # None =>
    /\ main # "serving"
    /\ \A c \in Connections : handler[c] \in {"absent", "done"}

ListenerInv == TypeOK /\ ReaderWanted /\ FinishedMeans /\ NothingLeft /\ CountMet

LEMMA InitInv == Init => ListenerInv
<1> SUFFICES ASSUME Init PROVE ListenerInv
  OBVIOUS
<1>1. TypeOK
  <2>1. \A c \in Connections : handler[c] \notin {"reading", "sleeping"} /\ active # c
    BY DEF Init
  <2>2. finished \in BOOLEAN /\ failed \in BOOLEAN
    BY DEF Init
  <2>3. samples \in 0..MaxSamples
    BY DEF Init
  <2> QED BY <2>1, <2>2, <2>3 DEF Init, TypeOK
<1>2. count # Unlimited => samples <= count
  BY DEF Init
<1>3. status # 0 /\ ~finished /\ main = "serving" /\ status = None
  BY DEF Init
<1>4. ReaderWanted /\ FinishedMeans /\ NothingLeft /\ CountMet
  BY <1>2, <1>3 DEF Init, ReaderWanted, FinishedMeans, NothingLeft, CountMet
<1> QED BY <1>1, <1>4 DEF ListenerInv

\* A step in which one handler returns and nothing is printed.
LEMMA ReturnsKeepsInv ==
  ASSUME ListenerInv, NEW c \in Connections, Returns(c),
         handler[c] \notin {"absent", "done"},
         UNCHANGED <<process, samples>>, peer' \in [Connections -> {"up", "silent", "closed"}],
         \/ UNCHANGED <<finished, failed>>
         \/ finished' = TRUE /\ failed' = TRUE
  PROVE  ListenerInv'
<1>1. TypeOK'
  BY DEF ListenerInv, TypeOK, Returns, process
<1>2. ReaderWanted' /\ FinishedMeans' /\ NothingLeft' /\ CountMet'
  BY DEF ListenerInv, TypeOK, Returns, process, ReaderWanted, FinishedMeans,
         NothingLeft, CountMet, Wanted
<1> QED BY <1>1, <1>2 DEF ListenerInv

\* Taking the lock, or giving it back, at the head of the loop.
LEMMA ReadsKeepsInv ==
  ASSUME ListenerInv, NEW c \in Connections, Reads(c),
         handler[c] \in {"opened", "sleeping"}, active \in {None, c},
         UNCHANGED <<process, shared, peer>>
  PROVE  ListenerInv'
<1>1. CASE Wanted(samples) /\ peer[c] # "closed"
  <2>1. handler' = [handler EXCEPT ![c] = "reading"] /\ active' = c
    BY <1>1 DEF Reads
  <2>2. TypeOK'
    BY <2>1 DEF ListenerInv, TypeOK, process, shared
  <2>3. ReaderWanted' /\ FinishedMeans' /\ NothingLeft' /\ CountMet'
    BY <1>1, <2>1 DEF ListenerInv, TypeOK, process, shared, ReaderWanted,
       FinishedMeans, NothingLeft, CountMet, Wanted
  <2> QED BY <2>2, <2>3 DEF ListenerInv
<1>2. CASE ~(Wanted(samples) /\ peer[c] # "closed")
  <2>1. Returns(c)
    BY <1>2 DEF Reads
  <2> QED BY <2>1, ReturnsKeepsInv DEF shared, ListenerInv, TypeOK
<1> QED BY <1>1, <1>2

\* The one step that prints.
LEMMA SampleKeepsInv ==
  ASSUME ListenerInv, NEW c \in Connections, Sample(c)
  PROVE  ListenerInv'
<1>1. /\ Wanted(samples) /\ samples' = samples + 1 /\ samples \in Nat
      /\ handler[c] = "reading" /\ active = c /\ samples' \in 0..MaxSamples
      /\ UNCHANGED <<count, main, status, failed, peer>>
  BY DEF ListenerInv, TypeOK, ReaderWanted, Sample, process
<1>2. \A d \in Connections \ {c} : handler[d] \notin {"reading", "sleeping"}
  BY <1>1 DEF ListenerInv, TypeOK
<1>3. status = None
  BY <1>1 DEF ListenerInv, NothingLeft
<1>4. ~(finished /\ ~failed)
  BY <1>1 DEF ListenerInv, TypeOK, FinishedMeans, Wanted
<1>5. count # Unlimited => samples' <= count
  BY <1>1 DEF ListenerInv, TypeOK, Wanted
<1>6. CASE Wanted(samples')
  <2>1. /\ handler' = [handler EXCEPT ![c] = "sleeping"]
        /\ UNCHANGED <<active, finished>>
    BY <1>6 DEF Sample
  <2>2. TypeOK'
    BY <1>1, <2>1 DEF ListenerInv, TypeOK
  <2>3. ReaderWanted'
    BY <1>2, <2>1 DEF ReaderWanted, ListenerInv, TypeOK
  <2>4. FinishedMeans' /\ NothingLeft' /\ CountMet'
    BY <1>1, <1>3, <1>4, <1>5, <2>1
    DEF FinishedMeans, NothingLeft, CountMet, ListenerInv
  <2> QED BY <2>2, <2>3, <2>4 DEF ListenerInv
<1>7. CASE ~Wanted(samples')
  <2>1. finished' = TRUE /\ Returns(c)
    BY <1>7 DEF Sample
  <2>2. TypeOK'
    BY <1>1, <2>1 DEF ListenerInv, TypeOK, Returns
  <2>3. ReaderWanted'
    BY <1>2, <2>1 DEF ReaderWanted, ListenerInv, TypeOK, Returns
  <2>4. samples' = count
    BY <1>1, <1>5, <1>7 DEF ListenerInv, TypeOK, Wanted
  <2>5. FinishedMeans' /\ NothingLeft' /\ CountMet'
    BY <1>1, <1>3, <1>5, <2>1, <2>4 DEF FinishedMeans, NothingLeft, CountMet
  <2> QED BY <2>2, <2>3, <2>5 DEF ListenerInv
<1> QED BY <1>6, <1>7

LEMMA NextInv == ListenerInv /\ [Next]_vars => ListenerInv'
<1> SUFFICES ASSUME ListenerInv, [Next]_vars PROVE ListenerInv'
  OBVIOUS
<1> USE DEF process, shared
<1>1. ASSUME NEW c \in Connections, Connect(c) PROVE ListenerInv'
  <2>1. TypeOK'
    BY <1>1 DEF Connect, ListenerInv, TypeOK
  <2>2. ReaderWanted' /\ FinishedMeans' /\ NothingLeft' /\ CountMet'
    BY <1>1 DEF Connect, ListenerInv, TypeOK, ReaderWanted, FinishedMeans,
       NothingLeft, CountMet, Wanted
  <2> QED BY <2>1, <2>2 DEF ListenerInv
<1>2. ASSUME NEW c \in Connections, Start(c) PROVE ListenerInv'
  <2>1. CASE active = None
    BY <1>2, <2>1, ReadsKeepsInv DEF Start
  <2>2. CASE active # None
    <3>1. TypeOK'
      BY <1>2, <2>2 DEF Start, ListenerInv, TypeOK
    <3>2. ReaderWanted' /\ FinishedMeans' /\ NothingLeft' /\ CountMet'
      BY <1>2, <2>2 DEF Start, ListenerInv, TypeOK, ReaderWanted, FinishedMeans,
         NothingLeft, CountMet, Wanted
    <3> QED BY <3>1, <3>2 DEF ListenerInv
  <2> QED BY <2>1, <2>2
<1>3. ASSUME NEW c \in Connections, Woken(c) PROVE ListenerInv'
  <2>1. active = c
    BY <1>3 DEF Woken, ListenerInv, TypeOK
  <2> QED BY <1>3, <2>1, ReadsKeepsInv DEF Woken
<1>4. ASSUME NEW c \in Connections,
             Refused(c) \/ TimedOut(c) \/ ConnectionLost(c) \/ Malformed(c)
      PROVE  ListenerInv'
  <2>1. peer' \in [Connections -> {"up", "silent", "closed"}]
    BY <1>4 DEF Refused, TimedOut, ConnectionLost, Malformed, Fails, ListenerInv, TypeOK
  <2> QED BY <1>4, <2>1, ReturnsKeepsInv
          DEF Refused, TimedOut, ConnectionLost, Malformed, Fails
<1>5. ASSUME NEW c \in Connections, CloseConnection(c) \/ Lose(c) PROVE ListenerInv'
  <2>1. TypeOK'
    BY <1>5 DEF CloseConnection, Lose, ListenerInv, TypeOK
  <2>2. ReaderWanted' /\ FinishedMeans' /\ NothingLeft' /\ CountMet'
    BY <1>5 DEF CloseConnection, Lose, ListenerInv, ReaderWanted, FinishedMeans,
       NothingLeft, CountMet, Wanted
  <2> QED BY <2>1, <2>2 DEF ListenerInv
<1>6. CASE Finish \/ Interrupt
  BY <1>6 DEF Finish, Interrupt, ListenerInv, TypeOK, ReaderWanted, FinishedMeans,
     NothingLeft, CountMet, Wanted
<1>7. CASE End
  <2>1. ExitStatus = 0 => main = "interrupted" \/ samples = count
    BY <1>7 DEF End, ExitStatus, ListenerInv, TypeOK, FinishedMeans
  <2>2. TypeOK'
    BY <1>7 DEF End, ExitStatus, ListenerInv, TypeOK
  <2>3. ReaderWanted' /\ FinishedMeans' /\ NothingLeft' /\ CountMet'
    BY <1>7, <2>1 DEF End, ListenerInv, ReaderWanted, FinishedMeans, NothingLeft,
       CountMet, Wanted
  <2> QED BY <2>2, <2>3 DEF ListenerInv
<1>8. CASE UNCHANGED vars
  BY <1>8 DEF vars, ListenerInv, TypeOK, ReaderWanted, FinishedMeans, NothingLeft,
     CountMet, Wanted
<1> QED
  BY <1>1, <1>2, <1>3, <1>4, <1>5, <1>6, <1>7, <1>8, SampleKeepsInv DEF Next, Handle

\* The inductive invariant of the listener: one reader at a time, wanted as long
\* as it reads, and an event that tells the count from an error.
THEOREM ListenerCorrect == Spec => []ListenerInv
  BY InitInv, NextInv, PTL DEF Spec

\* Type correctness, and with it that the handler between its reads, asleep or
\* awake, is the one that holds the lock.
THEOREM ListenerTypes == Spec => []TypeOK
<1>1. ListenerInv => TypeOK
  BY DEF ListenerInv
<1> QED BY <1>1, ListenerCorrect, PTL

\* --count is met exactly over any number of connections, and status 0 says so.
THEOREM CountIsMet == Spec => []CountMet
<1>1. ListenerInv => CountMet
  BY DEF ListenerInv
<1> QED BY <1>1, ListenerCorrect, PTL
=============================================================================

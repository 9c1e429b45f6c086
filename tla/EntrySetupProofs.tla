--------------------------- MODULE EntrySetupProofs ---------------------------
(***************************************************************************)
(* Proofs about EntrySetup for any set of endpoints and any sequence of    *)
(* failures, cancellations, option changes and crashes.                    *)
(*                                                                         *)
(* The inductive invariant follows the endpoint through setup: it is read  *)
(* once into target, the listener is on it from the moment setup goes on,  *)
(* the entry records it before the first refresh, and only a device that   *)
(* points at it lets the entry be loaded.                                  *)
(*                                                                         *)
(* What the listener needs before that, its certificate, is proved below.  *)
(***************************************************************************)
EXTENDS EntrySetup, CertificateStore, TLAPS

TargetKnown == phase \in Setting \union {"loaded"} => target \in Endpoints

ListenerOnTarget ==
  /\ phase \in Setting \union {"loaded"} /\ phase # "starting" => listener = target
  /\ phase \in {"notloaded", "retry", "starting"} => listener = None

TargetRecorded ==
  phase \in {"refreshing", "loaded"} => data.configured /\ data.endpoint = target

LoadedWhereDevicePoints == phase = "loaded" => server = target

EntryInv ==
  TypeOK /\ TargetKnown /\ ListenerOnTarget /\ TargetRecorded /\ LoadedWhereDevicePoints

LEMMA EntryInit == Init => EntryInv
<1> SUFFICES ASSUME Init
             PROVE  EntryInv
  OBVIOUS
<1>1. PICK e \in Endpoints : data = [endpoint |-> e, configured |-> FALSE, previous |-> None]
  BY DEF Init
<1>2. data \in Data
  BY <1>1 DEF Data
<1>3. options \in Options /\ disk = [data |-> data, options |-> options]
  BY DEF Init, Options
<1>4. disk \in [data: Data, options: Options]
  BY <1>2, <1>3
<1>5. TypeOK
  BY <1>2, <1>3, <1>4 DEF Init, TypeOK, Servers
<1> QED
  BY <1>5 DEF Init, EntryInv, TargetKnown, ListenerOnTarget, TargetRecorded,
     LoadedWhereDevicePoints, Setting

\* The endpoint is recorded as setup goes on to its first refresh.
LEMMA EntryRecord ==
  ASSUME EntryInv, phase \in {"checking", "verifying"}, server = target, Record
  PROVE  EntryInv'
<1>1. target \in Endpoints
  BY DEF EntryInv, TargetKnown, Setting
<1>2. data' \in Data
  BY <1>1 DEF Record, Updated, FirstPrevious, EntryInv, TypeOK, Data
<1>3. data'.configured /\ data'.endpoint = target'
  BY DEF Record, Updated
<1>4. listener = target
  BY DEF EntryInv, ListenerOnTarget, Setting
<1>5. phase' = "refreshing" /\ UNCHANGED <<options, disk, target, before, listener, reload, server>>
  BY DEF Record
<1>6. TypeOK'
  BY <1>2, <1>5 DEF EntryInv, TypeOK, Setting
<1> QED
  BY <1>1, <1>3, <1>4, <1>5, <1>6
     DEF EntryInv, TargetKnown, ListenerOnTarget, TargetRecorded, LoadedWhereDevicePoints

LEMMA EntryStep == EntryInv /\ [Next]_vars => EntryInv'
<1> SUFFICES ASSUME EntryInv, [Next]_vars
             PROVE  EntryInv'
  OBVIOUS
<1> USE DEF EntryInv, TargetKnown, ListenerOnTarget, TargetRecorded,
            LoadedWhereDevicePoints, Setting
<1>1. CASE StartSetup
  <2>1. Advertised \in Endpoints
    BY DEF Advertised, TypeOK, Data, Options
  <2> QED
    BY <1>1, <2>1 DEF StartSetup, TypeOK, entry
<1>2. CASE SetupFails \/ SetupCancelled
  BY <1>2 DEF SetupFails, SetupCancelled, GiveUp, Released, TypeOK, entry
<1>3. CASE ListenerStarted
  BY <1>3 DEF ListenerStarted, NeedsBluetooth, TypeOK, entry
<1>4. CASE Planned
  BY <1>4 DEF Planned, TypeOK, entry
<1>5. CASE Unneeded
  BY <1>5, EntryRecord DEF Unneeded
<1>6. CASE Verified
  BY <1>6, EntryRecord DEF Verified, ReadbackMatches
<1>7. CASE Checked
  BY <1>7 DEF Checked, TypeOK, entry
<1>8. CASE Write
  <2>1. server' \in Servers
    BY <1>8 DEF Write, TypeOK, Servers
  <2> QED
    BY <1>8, <2>1 DEF Write, TypeOK, entry
<1>9. CASE Refreshed
  BY <1>9 DEF Refreshed, TypeOK, entry
<1>10. CASE Unload
  BY <1>10 DEF Unload, TypeOK, entry
<1>11. ASSUME NEW e \in Endpoints, NEW password \in BOOLEAN,
              ChangeOptions(e, password)
       PROVE  EntryInv'
  BY <1>11 DEF ChangeOptions, TypeOK, Options
<1>12. CASE Save
  BY <1>12 DEF Save, TypeOK
<1>13. CASE Crash
  BY <1>13 DEF Crash, TypeOK
<1>14. CASE UNCHANGED vars
  BY <1>14 DEF vars, entry, TypeOK
<1> QED
  BY <1>1, <1>2, <1>3, <1>4, <1>5, <1>6, <1>7, <1>8, <1>9, <1>10, <1>11,
     <1>12, <1>13, <1>14 DEF Next

THEOREM EntryCorrect == Spec => []EntryInv
BY EntryInit, EntryStep, PTL DEF Spec

\* Type correctness: the listener is started only on an endpoint that can be
\* advertised, and the device points only there or at its previous server.
THEOREM EntryTypes == Spec => []TypeOK
<1>1. EntryInv => TypeOK
  BY DEF EntryInv
<1> QED
  BY <1>1, EntryCorrect, PTL

\* An entry that is neither loaded nor being set up does not keep the port.
THEOREM ListenerNeverLeaks == Spec => []NoLeakedListener
<1>1. EntryInv => NoLeakedListener
  BY DEF EntryInv, ListenerOnTarget, NoLeakedListener
<1> QED
  BY <1>1, EntryCorrect, PTL

\* A loaded entry, its listener and the device agree on the endpoint.
THEOREM LoadedEntryAgrees == Spec => []LoadedAgrees
<1>1. EntryInv => LoadedAgrees
  <2> SUFFICES ASSUME EntryInv, phase = "loaded"
               PROVE  data.configured /\ data.endpoint = server /\ listener = server
    BY DEF LoadedAgrees
  <2>1. data.configured /\ data.endpoint = target
    BY DEF EntryInv, TargetRecorded
  <2>2. server = target /\ listener = target
    BY DEF EntryInv, LoadedWhereDevicePoints, ListenerOnTarget
  <2> QED
    BY <2>1, <2>2
<1> QED
  BY <1>1, EntryCorrect, PTL

\* The device is never pointed at an endpoint where nobody listens.
THEOREM DevicePointedAtListener == Spec => ListenerFirst
<1>1. EntryInv /\ [Next]_vars => [server' # server => listener = server']_vars
  <2> SUFFICES ASSUME EntryInv, Next, server' # server
               PROVE  listener = server'
    OBVIOUS
  <2>1. Write
    BY DEF Next, StartSetup, SetupFails, SetupCancelled, GiveUp, ListenerStarted,
       Planned, Unneeded, Verified, Record, Checked, Refreshed, Unload,
       ChangeOptions, Save, Crash
  <2> QED
    BY <2>1 DEF Write, EntryInv, ListenerOnTarget, Setting
<1> QED
  BY <1>1, EntryCorrect, PTL DEF Spec, ListenerFirst

\* The record is true of the device, and the first previous server is kept: only
\* a step that has seen the device hold the target writes it, or a crash that
\* restores what was saved.
THEOREM RecordIsTrue == Spec => RecordsTruly
<1>1. ASSUME [Next]_vars, data' # data, data' # disk.data
      PROVE  Record /\ server = target
  <2>1. ~Crash
    BY <1>1 DEF Crash
  <2> QED
    BY <1>1, <2>1 DEF Next, vars, entry, StartSetup, SetupFails, SetupCancelled, GiveUp,
       ListenerStarted, Planned, Unneeded, Verified, ReadbackMatches, Checked, Write,
       Refreshed, Unload, ChangeOptions, Save
<1>2. [Next]_vars => [data' # data /\ data' # disk.data => data'.endpoint = server']_vars
  <2>1. Record /\ server = target => data'.endpoint = server'
    BY DEF Record, Updated
  <2> QED
    BY <1>1, <2>1
<1>3. [Next]_vars =>
        [data.previous # None /\ data' # disk.data => data'.previous = data.previous]_vars
  <2>1. Record /\ data.previous # None => data'.previous = data.previous
    BY DEF Record, Updated, FirstPrevious
  <2> QED
    BY <1>1, <2>1
<1>4. Spec => RecordedIsStored
  BY <1>2, PTL DEF Spec, RecordedIsStored
<1>5. Spec => PreviousKept
  BY <1>3, PTL DEF Spec, PreviousKept
<1> QED
  BY <1>4, <1>5 DEF RecordsTruly

-----------------------------------------------------------------------------
(* The certificate, when one start at a time is at work, for any number of *)
(* generations.                                                            *)

USE CertificateAssumption

OneStart == \A s, t \in Starts : s = t

\* The key is written first, so a certificate that exists has its key.
CertificateHasKey == certFile # Missing => keyFile = certFile

\* A pair is made only while there is no certificate.
MadeOnce ==
  \A s \in Starts :
    /\ pc[s] = "findkey" => certFile # Missing
    /\ pc[s] \in {"generate", "writekey", "writecert"} => certFile = Missing
    /\ pc[s] \in {"writekey", "writecert"} => mine[s] # Missing
    /\ pc[s] = "writecert" => keyFile = mine[s]

CertificateInv == CertificateTypeOK /\ CertificateHasKey /\ MadeOnce /\ LoadsPair

\* Where the one start is says where every start is.
LEMMA OnlyStart ==
  ASSUME OneStart, NEW s \in Starts, NEW t \in Starts PROVE t = s
  BY DEF OneStart

LEMMA CertificateStart == CertificateInit => CertificateInv
  BY DEF CertificateInit, CertificateInv, CertificateTypeOK, Content, CertificateHasKey, MadeOnce, LoadsPair

\* A step that makes no pair and replaces no file.
LEMMA FilesStay ==
  ASSUME OneStart, CertificateInv, NEW s \in Starts,
         \/ Begin(s) \/ FindCertificate(s) \/ FindKey(s) \/ Generate(s)
         \/ LoadCertificate(s) \/ LoadKey(s) \/ StopServing(s)
  PROVE  CertificateInv'
<1> USE DEF Step
<1>1. CertificateTypeOK'
  <2>1. CASE Generate(s)
    BY <2>1 DEF Generate, NewGeneration, CertificateInv, CertificateTypeOK, Content
  <2>2. CASE ~Generate(s)
    BY <2>2 DEF Begin, FindCertificate, FindKey, LoadCertificate, LoadKey,
       StopServing, CertificateInv, CertificateTypeOK
  <2> QED BY <2>1, <2>2
<1>2. UNCHANGED <<certFile, keyFile>>
  BY DEF Begin, FindCertificate, FindKey, Generate, LoadCertificate, LoadKey, StopServing
<1>3. CertificateHasKey'
  BY <1>2 DEF CertificateHasKey, CertificateInv
<1>4. \A t \in Starts : t = s
  BY OnlyStart
<1>5. pc' = [pc EXCEPT ![s] = pc'[s]]
  BY DEF CertificateInv, CertificateTypeOK, Begin, FindCertificate, FindKey, Generate,
     LoadCertificate, LoadKey, StopServing
<1>6. /\ pc'[s] = "findkey" => certFile # Missing
      /\ pc'[s] \in {"generate", "writekey", "writecert"} => certFile = Missing
      /\ pc'[s] \in {"writekey", "writecert"} => mine'[s] # Missing
      /\ pc'[s] = "writecert" => keyFile = mine'[s]
      /\ pc'[s] = "loadcert" => certFile # Missing /\ keyFile = certFile
  BY DEF CertificateInv, CertificateTypeOK, MadeOnce, CertificateHasKey, LoadsPair, Begin,
     FindCertificate, CertificateThere, FindKey, KeyThere, Generate, NewGeneration,
     LoadCertificate, LoadKey, StopServing
<1>7. MadeOnce' /\ LoadsPair'
  BY <1>2, <1>4, <1>6 DEF MadeOnce, LoadsPair
<1> QED BY <1>1, <1>3, <1>7 DEF CertificateInv

\* The two steps that replace a file.
LEMMA FileReplaced ==
  ASSUME OneStart, CertificateInv, NEW s \in Starts,
         WriteKey(s) \/ WriteCertificate(s)
  PROVE  CertificateInv'
<1> USE DEF Step
<1>1. \A t \in Starts : t = s
  BY OnlyStart
<1>2. certFile = Missing /\ mine[s] # Missing /\ mine[s] \in Content
  BY DEF CertificateInv, CertificateTypeOK, MadeOnce, WriteKey, WriteCertificate
<1>3. CertificateTypeOK'
  BY <1>2 DEF CertificateInv, CertificateTypeOK, WriteKey, WriteCertificate
<1>4. CASE WriteKey(s)
  <2>1. keyFile' = mine[s] /\ UNCHANGED <<certFile, mine>> /\ pc'[s] = "writecert"
    BY <1>4 DEF WriteKey, CertificateInv, CertificateTypeOK
  <2> QED
    BY <1>1, <1>2, <1>3, <2>1 DEF CertificateInv, CertificateHasKey, MadeOnce, LoadsPair
<1>5. CASE WriteCertificate(s)
  <2>1. /\ certFile' = mine[s] /\ keyFile = mine[s]
        /\ UNCHANGED keyFile /\ pc'[s] = "loadcert"
    BY <1>5 DEF WriteCertificate, CertificateInv, CertificateTypeOK, MadeOnce
  <2> QED
    BY <1>1, <1>2, <1>3, <2>1 DEF CertificateInv, CertificateHasKey, MadeOnce, LoadsPair
<1> QED BY <1>4, <1>5

LEMMA CertificateStep ==
  ASSUME OneStart PROVE CertificateInv /\ [CertificateNext]_files => CertificateInv'
<1> SUFFICES ASSUME CertificateInv, [CertificateNext]_files PROVE CertificateInv'
  OBVIOUS
<1>1. CASE HostStops
  BY <1>1 DEF HostStops, CertificateInv, CertificateTypeOK, Content, CertificateHasKey, MadeOnce, LoadsPair
<1>2. CASE UNCHANGED files
  BY <1>2 DEF files, CertificateInv, CertificateTypeOK, CertificateHasKey, MadeOnce, LoadsPair
<1> QED BY <1>1, <1>2, FilesStay, FileReplaced DEF CertificateNext

\* The inductive invariant: a certificate has its key, and none is made beside it.
THEOREM CertificateCorrect == ASSUME OneStart PROVE CertificateSpec => []CertificateInv
  BY CertificateStart, CertificateStep, PTL DEF CertificateSpec

\* Type correctness of the files and of the start that is at work.
THEOREM CertificateTypes == ASSUME OneStart PROVE CertificateSpec => []CertificateTypeOK
<1>1. CertificateInv => CertificateTypeOK
  BY DEF CertificateInv
<1> QED BY <1>1, CertificateCorrect, PTL

\* Whatever crashed when, a start that goes on to load finds a pair.
THEOREM PairIsLoaded == ASSUME OneStart PROVE CertificateSpec => []LoadsPair
<1>1. CertificateInv => LoadsPair
  BY DEF CertificateInv
<1> QED BY <1>1, CertificateCorrect, PTL

\* No start replaces a pair that exists.
THEOREM PairIsRetained == ASSUME OneStart PROVE CertificateSpec => Retained
<1>1. CertificateInv /\ [CertificateNext]_files =>
        [certFile # Missing /\ keyFile # Missing => UNCHANGED <<certFile, keyFile>>]_files
  <2> SUFFICES ASSUME CertificateInv, CertificateNext, certFile # Missing
               PROVE  UNCHANGED <<certFile, keyFile>>
    BY DEF files
  <2>1. ASSUME NEW s \in Starts, WriteKey(s) \/ WriteCertificate(s) PROVE FALSE
    BY <2>1 DEF WriteKey, WriteCertificate, Step, CertificateInv, MadeOnce
  <2> QED
    BY <2>1 DEF CertificateNext, Begin, FindCertificate, FindKey, Generate, LoadCertificate,
       LoadKey, StopServing, HostStops
<1> QED BY <1>1, CertificateCorrect, PTL DEF CertificateSpec, Retained
=============================================================================

--------------------------- MODULE CertificateStore ---------------------------
(***************************************************************************)
(* ensure_certificate (wifi_server.py) and the load_cert_chain after it.   *)
(* Every Wi-Fi entry starts a listener of its own, and all of them share   *)
(* the directory .storage/catch_control.  ensure_certificate runs in a     *)
(* thread of the executor, so the file operations of several starts        *)
(* interleave; each file is replaced atomically, the pair is not.          *)
(*                                                                         *)
(* A generation is one run of rsa.generate_private_key: a key and the      *)
(* certificate made from it belong together when their generations agree.  *)
(***************************************************************************)
EXTENDS Naturals

CONSTANTS
  Starts,          \* the listeners that may start at the same time
  Missing,         \* the file does not exist
  MaxGenerations   \* bound: key pairs generated in one behaviour

ASSUME CertificateAssumption ==
  /\ MaxGenerations \in Nat
  /\ Missing \notin Nat

VARIABLES
  certFile,     \* server-cert.pem: the generation of its content
  keyFile,      \* server-key.pem
  pc,           \* where each start is
  mine,         \* the generation a start has made, or the certificate it read
  generations   \* key pairs made so far

files == <<certFile, keyFile, pc, mine, generations>>

Content == 1..MaxGenerations \union {Missing}

CertificateTypeOK ==
  /\ certFile \in Content
  /\ keyFile \in Content
  /\ pc \in [Starts -> {"idle", "findcert", "findkey", "generate", "writekey",
                        "writecert", "loadcert", "loadkey", "serving"}]
  /\ mine \in [Starts -> Content]
  /\ generations \in 0..MaxGenerations

CertificateInit ==
  /\ certFile = Missing
  /\ keyFile = Missing
  /\ pc = [s \in Starts |-> "idle"]
  /\ mine = [s \in Starts |-> Missing]
  /\ generations = 0

Step(s, from, to) == pc[s] = from /\ pc' = [pc EXCEPT ![s] = to]

-----------------------------------------------------------------------------
(* ensure_certificate, in an executor thread                               *)

\* async_start of an entry that is set up or retried
Begin(s) ==
  /\ Step(s, "idle", "findcert")
  /\ UNCHANGED <<certFile, keyFile, mine, generations>>

\* Mutation of CertificateThere: the key alone decides.
NotLooked == TRUE

\* certificate_path.is_file() ...
CertificateThere == certFile # Missing

FindCertificate(s) ==
  /\ Step(s, "findcert", IF CertificateThere THEN "findkey" ELSE "generate")
  /\ UNCHANGED <<certFile, keyFile, mine, generations>>

\* Mutation of KeyThere: a key pair is made at every start.
NeverThere == FALSE

\* ... and key_path.is_file()
KeyThere == keyFile # Missing

FindKey(s) ==
  /\ Step(s, "findkey", IF KeyThere THEN "loadcert" ELSE "generate")
  /\ UNCHANGED <<certFile, keyFile, mine, generations>>

\* Mutation of NewGeneration: generation numbers skip, past their bound.
SkippedGeneration == generations + 2

NewGeneration == generations + 1

\* rsa.generate_private_key and the certificate signed with it
Generate(s) ==
  /\ generations < MaxGenerations
  /\ Step(s, "generate", "writekey")
  /\ generations' = NewGeneration
  /\ mine' = [mine EXCEPT ![s] = NewGeneration]
  /\ UNCHANGED <<certFile, keyFile>>

\* _write_private replaces one file at a time, the key first.
WriteKey(s) ==
  /\ Step(s, "writekey", "writecert")
  /\ keyFile' = mine[s]
  /\ UNCHANGED <<certFile, mine, generations>>

WriteCertificate(s) ==
  /\ Step(s, "writecert", "loadcert")
  /\ certFile' = mine[s]
  /\ UNCHANGED <<keyFile, mine, generations>>

-----------------------------------------------------------------------------
(* context.load_cert_chain, in the event loop                              *)

LoadCertificate(s) ==
  /\ Step(s, "loadcert", "loadkey")
  /\ mine' = [mine EXCEPT ![s] = certFile]
  /\ UNCHANGED <<certFile, keyFile, generations>>

\* A key that is not the certificate's raises SSLError; setup is retried.
LoadKey(s) ==
  /\ Step(s, "loadkey", IF keyFile = mine[s] THEN "serving" ELSE "idle")
  /\ UNCHANGED <<certFile, keyFile, mine, generations>>

\* The entry is unloaded, or another step of its setup fails.
StopServing(s) ==
  /\ Step(s, "serving", "idle")
  /\ UNCHANGED <<certFile, keyFile, mine, generations>>

\* The host stops between any two steps; what os.replace has done stays.
HostStops ==
  /\ pc' = [s \in Starts |-> "idle"]
  /\ mine' = [s \in Starts |-> Missing]
  /\ UNCHANGED <<certFile, keyFile, generations>>

CertificateNext ==
  \/ \E s \in Starts :
       \/ Begin(s) \/ FindCertificate(s) \/ FindKey(s) \/ Generate(s)
       \/ WriteKey(s) \/ WriteCertificate(s)
       \/ LoadCertificate(s) \/ LoadKey(s) \/ StopServing(s)
  \/ HostStops

CertificateSpec == CertificateInit /\ [][CertificateNext]_files

-----------------------------------------------------------------------------
(* Properties                                                              *)

\* A start that goes on to load the chain finds a certificate and its key,
\* whatever crashes left half of an earlier pair behind.
LoadsPair ==
  \A s \in Starts : pc[s] = "loadcert" => certFile # Missing /\ keyFile = certFile

\* home-assistant/README.md:53-54: the pair is generated "on first Wi-Fi
\* startup" and retained: once both files exist no start replaces them.
Retained ==
  [][certFile # Missing /\ keyFile # Missing => UNCHANGED <<certFile, keyFile>>]_files

\* wifi_server.py:31 "Create one persistent ten-year RSA certificate": when no
\* start is at work, the files that exist are one certificate and its key.
PersistentPair ==
  /\ \A s \in Starts : pc[s] \in {"idle", "serving"}
  /\ certFile # Missing
  /\ keyFile # Missing
  => keyFile = certFile
=============================================================================

------------------------- MODULE EndpointUpdateProofs -------------------------
(***************************************************************************)
(* Proofs about EndpointUpdate for any size of the fields and fragments,   *)
(* any hosts, ports and settings, and any checksum.                        *)
(*                                                                         *)
(* Until the write nothing is on the link but one reply: what is lost of   *)
(* it is not made up for by anything else, so a frame that is complete     *)
(* then is the reply.  Only the readback may meet what is left of the      *)
(* answer to the write; there the checksum has to tell.                    *)
(***************************************************************************)
EXTENDS EndpointUpdate, FiniteSetTheorems, SequenceTheorems, TLAPS

USE FramesAssumption, UpdateAssumption

Bytes == 0..255

\* What a frame may consist of, whatever the checksum is.
Symbols == Bytes \union {Crc(body) \div 256 : body \in Seq(Bytes)}
                 \union {Crc(body) % 256 : body \in Seq(Bytes)}

Payloads == {p \in Seq(Bytes) : Len(p) = PayloadSize}

-----------------------------------------------------------------------------
(* The least element of a set of natural numbers                           *)

\* A bounded set of naturals has a least element: of its initial parts, one is
\* contained in all others.
LEMMA LeastExists ==
  ASSUME NEW n \in Nat, NEW S \in SUBSET (0..n), S # {}
  PROVE  \E x \in S : \A y \in S : x =< y
<1> DEFINE upTo(k) == {y \in S : y =< k}
           parts == {upTo(k) : k \in S}
<1>1. IsFiniteSet(S)
  BY FS_BoundedSetOfNaturals
<1>2. FiniteSubsetsOf(S) = SUBSET S
  BY <1>1, FS_FiniteSubsetsOfFinite
<1>3. IsWellFoundedOn(StrictSubsetOrdering(S), SUBSET S)
  BY <1>2, FS_StrictSubsetOrderingWellFounded
<1>4. parts \subseteq SUBSET S /\ parts # {}
  <2>1. \A k \in S : upTo(k) \in SUBSET S
    OBVIOUS
  <2>2. PICK k \in S : TRUE
    OBVIOUS
  <2>3. upTo(k) \in parts
    OBVIOUS
  <2> QED BY <2>1, <2>3
<1>5. PICK least \in parts : \A part \in parts : <<part, least>> \notin StrictSubsetOrdering(S)
  <2> HIDE DEF parts
  <2> QED BY <1>3, <1>4, WFMin
<1>6. PICK x \in S : least = upTo(x)
  OBVIOUS
<1>7. ASSUME NEW y \in S, ~(x =< y) PROVE FALSE
  <2>1. S \subseteq Int /\ y < x
    BY <1>7
  <2>2. \A z \in S : z =< y => z =< x
    BY <2>1
  <2>3. x =< x /\ ~(x =< y)
    BY <2>1
  <2>4. upTo(y) \subseteq upTo(x) /\ x \in upTo(x) /\ x \notin upTo(y)
    BY <2>2, <2>3, Zenon
  <2>5. <<upTo(y), least>> \in StrictSubsetOrdering(S)
    BY <1>6, <2>4 DEF StrictSubsetOrdering
  <2> QED BY <1>5, <2>5
<1> QED BY <1>7

\* The greatest element, by counting down.
LEMMA GreatestExists ==
  ASSUME NEW n \in Nat, NEW S \in SUBSET (0..n), S # {}
  PROVE  \E x \in S : \A y \in S : x >= y
<1> DEFINE T == {n - y : y \in S}
<1>1. T \in SUBSET (0..n) /\ T # {}
  <2>1. \A y \in S : n - y \in 0..n
    OBVIOUS
  <2>2. PICK y \in S : TRUE
    OBVIOUS
  <2>3. n - y \in T
    OBVIOUS
  <2> QED BY <2>1, <2>3
<1>2. PICK t \in T : \A u \in T : t =< u
  <2> HIDE DEF T
  <2> QED BY <1>1, LeastExists
<1>3. PICK x \in S : t = n - x
  OBVIOUS
<1>4. \A y \in S : n - y \in T
  OBVIOUS
<1>5. \A y \in S : n - x =< n - y
  BY <1>2, <1>3, <1>4
<1> QED
  <2>1. S \subseteq Int
    OBVIOUS
  <2> QED BY <1>5, <2>1

\* Min and Max of such a set are what they are named for.
LEMMA MinIs ==
  ASSUME NEW n \in Nat, NEW S \in SUBSET (0..n), S # {}
  PROVE  Min(S) \in S /\ \A y \in S : Min(S) =< y
  BY LeastExists DEF Min

LEMMA MaxIs ==
  ASSUME NEW n \in Nat, NEW S \in SUBSET (0..n), S # {}
  PROVE  Max(S) \in S /\ \A y \in S : Max(S) >= y
  BY GreatestExists DEF Max

\* An element below all others is the minimum, of any set of naturals.
LEMMA MinIsIt ==
  ASSUME NEW S \in SUBSET Nat, NEW x \in S, \A y \in S : x =< y
  PROVE  Min(S) = x
<1> DEFINE IsLeast(m) == \A y \in S : m =< y
<1>1. \A m \in S : IsLeast(m) => m = x
  OBVIOUS
<1>2. IsLeast(x)
  OBVIOUS
<1> HIDE DEF IsLeast
<1>3. (CHOOSE m \in S : IsLeast(m)) = x
  BY <1>1, <1>2
<1> QED BY <1>3 DEF Min, IsLeast

-----------------------------------------------------------------------------
(* The inductive invariant                                                 *)

\* How many fragments a frame makes, and how far the first k of them reach.
Count == (FrameSize + Fragment - 1) \div Fragment
Reach(k) == IF k * Fragment < FrameSize THEN k * Fragment ELSE FrameSize

\* The rest of a frame is still to come, all of its last fragments.  What was got
\* of the frame is its beginning, or less because some of it was lost.
UnderWay(frame, rest, got) ==
  LET gone == Count - Len(rest)
  IN /\ gone >= 0
     /\ \A j \in 1..Len(rest) :
          rest[j] = SubSeq(frame, Reach(gone + j - 1) + 1, Reach(gone + j))
     /\ Len(got) =< Reach(gone)
     /\ Len(got) = Reach(gone) => got = SubSeq(frame, 1, Reach(gone))

LinkInv ==
  /\ buffer \in Seq(Symbols)
  /\ air \in Seq(Seq(Symbols))
  /\ stage = "called" => air = <<>> /\ buffer = <<>>

\* Before the write there is one reply on the link; the reply to the freshness
\* read shows what is stored.
ReplyInv ==
  /\ stage = "planning" => \E p \in Payloads : UnderWay(Frame(GET, p), air, buffer)
  /\ stage = "checking" => UnderWay(Frame(GET, stored), air, buffer)

\* The plan is what network.py makes of an endpoint that it accepts.
Host == Strip(asked.host)
IsPlan ==
  /\ plan \in [original : Payloads, updated : Payloads]
  /\ ValidHost(Host) /\ ValidPort(asked.port)
  /\ plan.updated = Updated(plan.original, Host, asked.port)

PlanInv ==
  /\ plan # None => IsPlan
  /\ \/ stage \in {"checking", "writing", "settling", "verifying"}
     \/ result \in {"unchanged", "written", "unverified"}
     => plan # None

StoredInv ==
  /\ stage = "writing" => stored = plan.original
  /\ result = "unchanged" => stored = plan.original /\ ~Changed
  /\ stage \in {"settling", "verifying"} \/ result \in {"written", "unverified"} =>
       stored \in {plan.original, plan.updated}

UpdateInv ==
  /\ TypeOK /\ stored \in Payloads /\ result # "unbuildable"
  /\ LinkInv /\ ReplyInv /\ PlanInv /\ StoredInv

-----------------------------------------------------------------------------
(* Sequences of bytes                                                      *)

\* The sizes and the places of the fields, as numbers.
LEMMA Sizes ==
  /\ FrameSize \in Nat /\ FrameSize = PayloadSize + 3 /\ PayloadSize \in Nat
  /\ HostSize \in Nat /\ PayloadSize = 2 * HostSize + 8
  /\ Server1 = 2 /\ Server2 = HostSize + 4
  /\ Password = 2 * HostSize + 6 /\ Ssid = 2 * HostSize + 7
  /\ Fragment \in Nat /\ Fragment >= 1 /\ Fragment =< FrameSize
  BY DEF FrameSize, Server1, Server2, Password, Ssid

\* What lies between two places of a sequence.
LEMMA Slice ==
  ASSUME NEW S, NEW s \in Seq(S), NEW m \in Nat \ {0}, NEW n \in Nat,
         m =< n + 1, n =< Len(s)
  PROVE  /\ SubSeq(s, m, n) \in Seq(S)
         /\ Len(SubSeq(s, m, n)) = n - m + 1
         /\ \A i \in 1..n - m + 1 : SubSeq(s, m, n)[i] = s[m + i - 1]
<1>1. \A i \in m..n : s[i] \in S
  OBVIOUS
<1> QED BY <1>1, SubSeqProperties

\* FRAME.build, for any checksum.
LEMMA FrameIs ==
  ASSUME NEW op \in Bytes, NEW p \in Payloads
  PROVE  /\ Frame(op, p) \in Seq(Symbols)
         /\ Len(Frame(op, p)) = FrameSize
         /\ Opcode(Frame(op, p)) = op
         /\ Payload(Frame(op, p)) = p
<1> DEFINE body == <<op>> \o p
<1>1. /\ <<op>> \in Seq(Bytes) /\ Len(<<op>>) = 1 /\ p \in Seq(Bytes) /\ Len(p) = PayloadSize
  BY DEF Payloads
<1>2. /\ body \in Seq(Bytes)
      /\ Len(body) = PayloadSize + 1
      /\ body[1] = op
      /\ \A i \in 1..PayloadSize : body[i + 1] = p[i]
  BY <1>1, Sizes, ConcatProperties
<1> HIDE DEF body
<1>3. Crc(body) \div 256 \in Symbols /\ Crc(body) % 256 \in Symbols
  BY <1>2 DEF Symbols
<1>4. PICK check \in Seq(Symbols) :
        Len(check) = 2 /\ check = <<Crc(body) \div 256, Crc(body) % 256>>
  <2>1. \A high, low \in Symbols : <<high, low>> \in Seq(Symbols) /\ Len(<<high, low>>) = 2
    OBVIOUS
  <2> QED BY <1>3, <2>1, Zenon
<1>5. body \in Seq(Symbols)
  BY <1>2 DEF Symbols
<1>6. /\ body \o check \in Seq(Symbols)
      /\ Len(body \o check) = PayloadSize + 3
      /\ \A i \in 1..PayloadSize + 1 : (body \o check)[i] = body[i]
  <2>1. /\ body \o check \in Seq(Symbols)
        /\ Len(body \o check) = Len(body) + Len(check)
        /\ \A i \in 1..Len(body) + Len(check) :
             (body \o check)[i] = IF i =< Len(body) THEN body[i] ELSE check[i - Len(body)]
    BY <1>4, <1>5, ConcatProperties
  <2> QED BY <1>2, <1>4, <2>1, Sizes
<1>7. Frame(op, p) = body \o check
  BY <1>4 DEF Frame, body
<1>8. /\ SubSeq(body \o check, 2, PayloadSize + 1) \in Seq(Symbols)
      /\ Len(SubSeq(body \o check, 2, PayloadSize + 1)) = PayloadSize
      /\ \A i \in 1..PayloadSize : SubSeq(body \o check, 2, PayloadSize + 1)[i] = p[i]
  BY <1>2, <1>6, Sizes, Slice
<1>9. SubSeq(body \o check, 2, PayloadSize + 1) = p
  <2>1. p \in Seq(Symbols)
    BY <1>1 DEF Symbols
  <2> QED BY <1>1, <1>8, <2>1, SeqEqual
<1>10. FrameSize - 2 = PayloadSize + 1
  BY Sizes
<1>11. (body \o check)[1] = op
  BY <1>2, <1>6, Sizes
<1> QED
  <2>1. Frame(op, p) \in Seq(Symbols) /\ Len(Frame(op, p)) = FrameSize
    BY <1>6, <1>7, Sizes
  <2>2. Opcode(Frame(op, p)) = op
    BY <1>7, <1>11 DEF Opcode
  <2>3. Payload(Frame(op, p)) = p
    BY <1>7, <1>9, <1>10 DEF Payload
  <2> QED BY <2>1, <2>2, <2>3

-----------------------------------------------------------------------------
(* The link                                                                *)

\* Whole frames laid end to end fit into the bytes, and less than one is left.
LEMMA Division ==
  ASSUME NEW L \in Nat, NEW F \in Nat \ {0}
  PROVE  /\ L \div F \in Nat
         /\ (L \div F) * F \in 0..L
         /\ L - (L \div F) * F < F
         /\ \A i \in 1..L \div F :
              (i - 1) * F \in Nat /\ i * F = (i - 1) * F + F /\ i * F <= (L \div F) * F
<1>1. L \div F \in Nat /\ (L \div F) * F <= L /\ L < (L \div F) * F + F
  OBVIOUS
<1>2. \A m, n \in Nat : m <= n => m * F \in Nat /\ m * F <= n * F
  OBVIOUS
<1>3. \A n \in Nat \ {0} : n * F = (n - 1) * F + F
  OBVIOUS
<1>4. (L \div F) * F \in Nat
  BY <1>1, <1>2
<1> QED BY <1>1, <1>2, <1>3, <1>4

\* As many whole frames as fit are taken out of the bytes; less than one is left.
LEMMA FeedIs ==
  ASSUME NEW bytes \in Seq(Symbols)
  PROVE  /\ Feed(bytes).left \in Seq(Symbols)
         /\ Len(Feed(bytes).left) < FrameSize
         /\ Feed(bytes).frames \in Seq(Seq(Symbols))
<1> DEFINE complete == Complete(bytes)
           Cut(i) == SubSeq(bytes, (i - 1) * FrameSize + 1, i * FrameSize)
<1>1. /\ complete \in Nat
      /\ complete * FrameSize \in 0..Len(bytes)
      /\ Len(bytes) - complete * FrameSize < FrameSize
      /\ \A i \in 1..complete :
           /\ (i - 1) * FrameSize \in Nat
           /\ i * FrameSize = (i - 1) * FrameSize + FrameSize
           /\ i * FrameSize =< complete * FrameSize
  <2>1. Len(bytes) \in Nat /\ FrameSize \in Nat \ {0}
    BY Sizes
  <2> QED BY <2>1, Division DEF Complete
<1>2. \A i \in 1..complete : Cut(i) \in Seq(Symbols)
  <2> TAKE i \in 1..complete
  <2> DEFINE from == (i - 1) * FrameSize
  <2>1. /\ from \in Nat /\ i * FrameSize = from + FrameSize
        /\ from + FrameSize =< complete * FrameSize
    BY <1>1
  <2> HIDE DEF from
  <2> DEFINE done == complete * FrameSize
  <2>2. done \in 0..Len(bytes) /\ Len(bytes) \in Nat
    BY <1>1
  <2> HIDE DEF done
  <2>3. from + FrameSize =< Len(bytes)
    BY <2>1, <2>2, Sizes DEF done
  <2>4. SubSeq(bytes, from + 1, from + FrameSize) \in Seq(Symbols)
    BY <2>1, <2>3, Sizes, Slice
  <2> QED BY <2>1, <2>4 DEF from
<1> DEFINE rest == SubSeq(bytes, complete * FrameSize + 1, Len(bytes))
<1>3. rest \in Seq(Symbols) /\ Len(rest) < FrameSize
  <2> DEFINE done == complete * FrameSize
  <2>1. done \in 0..Len(bytes) /\ Len(bytes) \in Nat /\ Len(bytes) - done < FrameSize
    BY <1>1
  <2> HIDE DEF done
  <2>2. /\ SubSeq(bytes, done + 1, Len(bytes)) \in Seq(Symbols)
        /\ Len(SubSeq(bytes, done + 1, Len(bytes))) = Len(bytes) - (done + 1) + 1
    BY <2>1, Slice
  <2> QED BY <2>1, <2>2, Sizes DEF done
<1>4. [i \in 1..complete |-> Cut(i)] \in Seq(Seq(Symbols))
  <2> HIDE DEF Cut, complete
  <2> QED BY <1>1, <1>2
<1>5. <<>> \in Seq(Symbols) /\ Len(<<>>) < FrameSize /\ <<>> \in Seq(Seq(Symbols))
  BY Sizes
<1>6. /\ Feed(bytes).left \in {<<>>, rest}
      /\ Feed(bytes).frames \in {<<>>, [i \in 1..complete |-> Cut(i)]}
  BY DEF Feed
<1> HIDE DEF rest, Cut, complete
<1> QED BY <1>3, <1>4, <1>5, <1>6

\* Less than a frame stays in the buffer.
LEMMA FeedPart ==
  ASSUME NEW bytes \in Seq(Symbols), Len(bytes) < FrameSize
  PROVE  ~Feed(bytes).damaged /\ Feed(bytes).frames = <<>> /\ Feed(bytes).left = bytes
<1>1. Complete(bytes) = 0
  BY Sizes DEF Complete
<1>2. SubSeq(bytes, 0 * FrameSize + 1, Len(bytes)) = bytes
  BY Sizes, SubSeqFull
<1> QED BY <1>1, <1>2 DEF Feed

\* A whole frame is taken out, or refused.
LEMMA FeedWhole ==
  ASSUME NEW frame \in Seq(Symbols), Len(frame) = FrameSize, ~Feed(frame).damaged
  PROVE  Feed(frame).frames = <<frame>>
<1>1. Complete(frame) = 1
  BY Sizes DEF Complete
<1>2. SubSeq(frame, (1 - 1) * FrameSize + 1, 1 * FrameSize) = frame
  BY Sizes, SubSeqFull
<1>3. \A i \in 1..1 : i = 1
  OBVIOUS
<1>4. Feed(frame).frames =
        [i \in 1..1 |-> SubSeq(frame, (i - 1) * FrameSize + 1, i * FrameSize)]
  BY <1>1 DEF Feed
<1>5. [i \in 1..1 |-> SubSeq(frame, (i - 1) * FrameSize + 1, i * FrameSize)] =
        [i \in 1..1 |-> frame]
  BY <1>2, <1>3
<1> QED BY <1>4, <1>5

\* The fragments of a frame follow each other, and end where it ends.
LEMMA ReachIs ==
  /\ Count \in Nat /\ Count >= 1
  /\ Reach(0) = 0 /\ Reach(Count) = FrameSize
  /\ \A k \in 0..Count - 1 :
       /\ Reach(k) = k * Fragment /\ Reach(k) \in Nat /\ Reach(k) < FrameSize
       /\ Reach(k + 1) \in Nat /\ Reach(k) < Reach(k + 1) /\ Reach(k + 1) =< FrameSize
<1>1. /\ Fragment \in Nat \ {0} /\ FrameSize \in Nat \ {0}
      /\ FrameSize + Fragment - 1 \in Nat
  BY Sizes
<1>2. /\ Count \in Nat
      /\ Count * Fragment \in 0..FrameSize + Fragment - 1
      /\ (FrameSize + Fragment - 1) - Count * Fragment < Fragment
  BY <1>1, Division DEF Count
<1> DEFINE total == Count * Fragment
<1>3. total \in Nat /\ total >= FrameSize /\ total - Fragment < FrameSize
  <2> HIDE DEF total
  <2>1. total \in 0..FrameSize + Fragment - 1 /\ (FrameSize + Fragment - 1) - total < Fragment
    BY <1>2 DEF total
  <2> QED BY <1>1, <2>1
<1>4. Count >= 1
  BY <1>1, <1>2, <1>3
<1>5. ASSUME NEW k \in 0..Count - 1
      PROVE  /\ Reach(k) = k * Fragment /\ Reach(k) \in Nat /\ Reach(k) < FrameSize
             /\ Reach(k + 1) \in Nat /\ Reach(k) < Reach(k + 1) /\ Reach(k + 1) =< FrameSize
  <2> DEFINE at == k * Fragment
  <2>1. k \in Nat /\ k + 1 \in Nat /\ k + 1 =< Count
    BY <1>2
  <2>2. at \in Nat /\ (k + 1) * Fragment = at + Fragment
    BY <1>1, <2>1
  <2>3. \A m, n \in Nat : m =< n => m * Fragment =< n * Fragment
    BY <1>1
  <2>4. (k + 1) * Fragment =< total
    BY <1>2, <2>1, <2>3
  <2> HIDE DEF at, total
  <2>5. at < FrameSize
    BY <1>1, <1>3, <2>2, <2>4
  <2>6. Reach(k) = at
    BY <2>5 DEF Reach, at
  <2>7. Reach(k + 1) = IF at + Fragment < FrameSize THEN at + Fragment ELSE FrameSize
    BY <2>2 DEF Reach
  <2> QED BY <1>1, <2>2, <2>5, <2>6, <2>7 DEF at
<1>6. Reach(0) = 0
  <2>1. 0 * Fragment = 0
    BY <1>1
  <2> QED BY <1>1, <2>1 DEF Reach
<1>7. Reach(Count) = FrameSize
  <2> HIDE DEF total
  <2>1. ~(total < FrameSize)
    BY <1>1, <1>3
  <2> QED BY <2>1 DEF Reach, total
<1> QED BY <1>2, <1>4, <1>5, <1>6, <1>7

\* A reply is sent in fragments that reach from one to the next.
LEMMA FragmentsAre ==
  ASSUME NEW frame \in Seq(Symbols), Len(frame) = FrameSize
  PROVE  /\ Fragments(frame) \in Seq(Seq(Symbols))
         /\ Len(Fragments(frame)) = Count
         /\ \A j \in 1..Count :
              Fragments(frame)[j] = SubSeq(frame, Reach(j - 1) + 1, Reach(j))
<1> DEFINE piece(j) == SubSeq(frame, Reach(j - 1) + 1, Reach(j))
<1>1. \A j \in 1..Count : piece(j) \in Seq(Symbols)
  <2> TAKE j \in 1..Count
  <2>1. j - 1 \in 0..Count - 1 /\ (j - 1) + 1 = j
    BY ReachIs
  <2>2. /\ Reach(j - 1) \in Nat /\ Reach(j - 1) + 1 \in Nat \ {0} /\ Reach(j) \in Nat
        /\ Reach(j - 1) + 1 =< Reach(j) + 1 /\ Reach(j) =< Len(frame)
    BY <2>1, ReachIs, Sizes
  <2> QED BY <2>2, Slice
<1>2. \A j \in 1..Count :
        /\ (j - 1) * Fragment = Reach(j - 1)
        /\ (IF j * Fragment < Len(frame) THEN j * Fragment ELSE Len(frame)) = Reach(j)
  <2> TAKE j \in 1..Count
  <2>1. j - 1 \in 0..Count - 1
    BY ReachIs
  <2> QED BY <2>1, ReachIs DEF Reach
<1>3. Fragments(frame) = [j \in 1..Count |-> piece(j)]
  BY <1>2 DEF Fragments, Count
<1> HIDE DEF piece
<1>4. [j \in 1..Count |-> piece(j)] \in Seq(Seq(Symbols))
  BY <1>1, ReachIs
<1>5. Len([j \in 1..Count |-> piece(j)]) = Count
  BY ReachIs
<1> QED BY <1>3, <1>4, <1>5 DEF piece

\* When it is sent nothing of it was got yet.
LEMMA SentIsUnderWay ==
  ASSUME NEW frame \in Seq(Symbols), Len(frame) = FrameSize
  PROVE  UnderWay(frame, Fragments(frame), <<>>)
<1>1. Count - Len(Fragments(frame)) = 0
  BY FragmentsAre, ReachIs
<1>2. \A j \in 1..Count : 0 + j - 1 = j - 1 /\ 0 + j = j
  BY ReachIs
<1>3. SubSeq(frame, 1, 0) = <<>> /\ Len(<<>>) = 0
  BY SubSeqEmpty
<1>4. \A j \in 1..Len(Fragments(frame)) :
        Fragments(frame)[j] = SubSeq(frame, Reach(0 + j - 1) + 1, Reach(0 + j))
  BY <1>2, FragmentsAre
<1> QED BY <1>1, <1>3, <1>4, ReachIs DEF UnderWay

\* A fragment that is lost leaves the rest under way, and a gap.
LEMMA LostIsUnderWay ==
  ASSUME NEW frame \in Seq(Symbols), Len(frame) = FrameSize,
         NEW rest \in Seq(Seq(Symbols)), rest # <<>>, NEW got \in Seq(Symbols),
         UnderWay(frame, rest, got)
  PROVE  UnderWay(frame, Tail(rest), got)
<1> DEFINE gone == Count - Len(rest)
<1>1. Len(rest) \in Nat \ {0} /\ Len(Tail(rest)) = Len(rest) - 1
  BY HeadTailProperties
<1>2. gone \in 0..Count - 1 /\ Count - Len(Tail(rest)) = gone + 1
  BY <1>1, ReachIs DEF UnderWay
<1>3. /\ \A j \in 1..Len(rest) :
           rest[j] = SubSeq(frame, Reach(gone + j - 1) + 1, Reach(gone + j))
      /\ Len(got) =< Reach(gone)
  BY DEF UnderWay
<1> HIDE DEF gone
<1>4. \A j \in 1..Len(Tail(rest)) :
        Tail(rest)[j] = SubSeq(frame, Reach(gone + 1 + j - 1) + 1, Reach(gone + 1 + j))
  <2> TAKE j \in 1..Len(Tail(rest))
  <2>1. j + 1 \in 1..Len(rest) /\ Tail(rest)[j] = rest[j + 1]
    BY <1>1, HeadTailProperties
  <2>2. gone + (j + 1) - 1 = gone + 1 + j - 1 /\ gone + (j + 1) = gone + 1 + j
    BY <1>1, <1>2
  <2>3. rest[j + 1] = SubSeq(frame, Reach(gone + (j + 1) - 1) + 1, Reach(gone + (j + 1)))
    BY <1>3, <2>1
  <2> QED BY <2>1, <2>2, <2>3
<1>5. Len(got) \in Nat /\ Reach(gone) \in Nat /\ Reach(gone + 1) \in Nat
  BY <1>2, ReachIs
<1>6. /\ Len(got) =< Reach(gone + 1) /\ Len(got) # Reach(gone + 1)
      /\ gone + 1 >= 0
  <2>1. Reach(gone) < Reach(gone + 1)
    BY <1>2, ReachIs
  <2> QED BY <1>2, <1>3, <1>5, <2>1
<1> QED BY <1>2, <1>4, <1>6 DEF UnderWay

\* A fragment that arrives goes on where all before it ended.
LEMMA ArrivedIsUnderWay ==
  ASSUME NEW frame \in Seq(Symbols), Len(frame) = FrameSize,
         NEW rest \in Seq(Seq(Symbols)), rest # <<>>, NEW got \in Seq(Symbols),
         UnderWay(frame, rest, got)
  PROVE  UnderWay(frame, Tail(rest), got \o rest[1])
<1> DEFINE gone == Count - Len(rest)
           all == got \o rest[1]
<1>1. Len(rest) \in Nat \ {0} /\ Len(Tail(rest)) = Len(rest) - 1
  BY HeadTailProperties
<1>2. gone \in 0..Count - 1 /\ Count - Len(Tail(rest)) = gone + 1
  BY <1>1, ReachIs DEF UnderWay
<1>3. UnderWay(frame, Tail(rest), got)
  BY LostIsUnderWay
<1>4. /\ rest[1] = SubSeq(frame, Reach(gone) + 1, Reach(gone + 1))
      /\ Len(got) =< Reach(gone)
      /\ Len(got) = Reach(gone) => got = SubSeq(frame, 1, Reach(gone))
  <2>1. 1 \in 1..Len(rest) /\ gone + 1 - 1 = gone
    BY <1>1, <1>2
  <2>2. rest[1] = SubSeq(frame, Reach(gone + 1 - 1) + 1, Reach(gone + 1))
    BY <2>1 DEF UnderWay
  <2> QED BY <2>1, <2>2 DEF UnderWay
<1>5. \A j \in 1..Len(Tail(rest)) :
        Tail(rest)[j] = SubSeq(frame, Reach(gone + 1 + j - 1) + 1, Reach(gone + 1 + j))
  BY <1>2, <1>3 DEF UnderWay
<1> DEFINE a == Reach(gone)
           b == Reach(gone + 1)
<1> HIDE DEF gone
<1>6. a \in Nat /\ b \in Nat /\ a < b /\ b =< FrameSize
  BY <1>2, ReachIs
<1> HIDE DEF a, b
<1>7. /\ rest[1] = SubSeq(frame, a + 1, b) /\ rest[1] \in Seq(Symbols)
      /\ Len(rest[1]) = b - a
  <2>1. rest[1] = SubSeq(frame, a + 1, b)
    BY <1>4 DEF a, b
  <2>2. /\ SubSeq(frame, a + 1, b) \in Seq(Symbols)
        /\ Len(SubSeq(frame, a + 1, b)) = b - (a + 1) + 1
    BY <1>6, Sizes, Slice
  <2> QED BY <1>6, <2>1, <2>2
<1>8. Len(all) = Len(got) + Len(rest[1])
  BY <1>7, ConcatProperties
<1>9. Len(got) \in Nat /\ Len(got) =< a /\ (Len(got) = a => got = SubSeq(frame, 1, a))
  BY <1>4 DEF a
<1> HIDE DEF all
<1>10. Len(all) =< b /\ (Len(all) = b => Len(got) = a)
  BY <1>6, <1>7, <1>8, <1>9
<1>11. Len(got) = a => all = SubSeq(frame, 1, b)
  <2> SUFFICES ASSUME Len(got) = a PROVE all = SubSeq(frame, 1, b)
    OBVIOUS
  <2>1. 1 \in 1..Len(frame) + 1 /\ a \in 1 - 1..Len(frame) /\ b \in a..Len(frame)
    BY <1>6, Sizes
  <2>2. SubSeq(frame, 1, a) \o SubSeq(frame, a + 1, b) = SubSeq(frame, 1, b)
    BY <2>1, ConcatAdjacentSubSeq
  <2> QED BY <1>7, <1>9, <2>2 DEF all
<1>12. gone + 1 >= 0
  BY <1>2
<1> QED BY <1>2, <1>5, <1>10, <1>11, <1>12 DEF UnderWay, all, b

\* A frame of which nothing is to come has been got whole, and only then as much
\* as a frame holds.
LEMMA CompleteIsWhole ==
  ASSUME NEW frame \in Seq(Symbols), Len(frame) = FrameSize,
         NEW rest \in Seq(Seq(Symbols)), NEW got \in Seq(Symbols),
         UnderWay(frame, rest, got)
  PROVE  Len(got) < FrameSize \/ (got = frame /\ rest = <<>>)
<1> DEFINE gone == Count - Len(rest)
<1>1. Len(rest) \in Nat /\ gone \in 0..Count
  BY ReachIs DEF UnderWay
<1>2. Len(got) =< Reach(gone) /\ (Len(got) = Reach(gone) => got = SubSeq(frame, 1, Reach(gone)))
  BY DEF UnderWay
<1>3. CASE rest = <<>>
  <2>1. gone = Count
    BY <1>1, <1>3, ReachIs
  <2>2. Len(got) =< FrameSize /\ (Len(got) = FrameSize => got = frame)
    BY <1>2, <2>1, ReachIs, SubSeqFull
  <2> QED BY <1>3, <2>2, Sizes
<1>4. CASE rest # <<>>
  <2>1. Len(rest) # 0
    BY <1>4, EmptySeq
  <2>2. gone \in 0..Count - 1
    BY <1>1, <2>1, ReachIs
  <2> HIDE DEF gone
  <2>3. Len(got) < FrameSize
    BY <1>2, <2>2, ReachIs, Sizes
  <2> QED BY <2>3
<1> QED BY <1>3, <1>4

\* What a notification brings, and what it leaves on the link.
LEMMA NotifiedTypes ==
  ASSUME NEW rest \in Seq(Seq(Symbols)), NEW got \in Seq(Symbols),
         NEW n \in {1, 2} \cap DOMAIN rest,
         NEW new, new = IF n = 1 THEN rest[1] ELSE rest[1] \o rest[2]
  PROVE  /\ got \o new \in Seq(Symbols)
         /\ SubSeq(rest, n + 1, Len(rest)) \in Seq(Seq(Symbols))
         /\ rest # <<>>
<1>1. n \in Nat \ {0} /\ n =< Len(rest) /\ Len(rest) \in Nat /\ rest # <<>>
  BY EmptySeq
<1>2. rest[1] \in Seq(Symbols) /\ (n = 2 => rest[2] \in Seq(Symbols))
  BY <1>1
<1>3. new \in Seq(Symbols) /\ got \o new \in Seq(Symbols)
  BY <1>2, ConcatProperties
<1>4. SubSeq(rest, n + 1, Len(rest)) \in Seq(Seq(Symbols))
  BY <1>1, Slice
<1> QED BY <1>1, <1>3, <1>4

\* Fragments can be appended one by one.
LEMMA Regrouped ==
  ASSUME NEW s \in Seq(Symbols), NEW t \in Seq(Symbols), NEW u \in Seq(Symbols)
  PROVE  s \o (t \o u) = (s \o t) \o u
<1>1. /\ s \o t \in Seq(Symbols) /\ t \o u \in Seq(Symbols)
      /\ (s \o t) \o u \in Seq(Symbols) /\ s \o (t \o u) \in Seq(Symbols)
  BY ConcatProperties
<1>2. /\ Len((s \o t) \o u) = Len(s) + Len(t) + Len(u)
      /\ Len(s \o (t \o u)) = Len(s) + Len(t) + Len(u)
  BY <1>1, ConcatProperties
<1>3. \A i \in 1..Len(s) + Len(t) + Len(u) : ((s \o t) \o u)[i] = (s \o (t \o u))[i]
  OBVIOUS
<1> QED BY <1>1, <1>2, <1>3, SeqEqual

\* Two fragments that were coalesced are one after the other.
LEMMA CoalescedIs ==
  ASSUME NEW rest \in Seq(Seq(Symbols)), NEW got \in Seq(Symbols), 2 \in DOMAIN rest
  PROVE  /\ Tail(rest) # <<>> /\ rest[2] = Tail(rest)[1]
         /\ SubSeq(rest, 2 + 1, Len(rest)) = Tail(Tail(rest))
         /\ got \o (rest[1] \o rest[2]) = (got \o rest[1]) \o rest[2]
<1>1. Len(rest) \in Nat /\ 2 =< Len(rest) /\ rest # <<>>
  BY EmptySeq
<1>2. rest[1] \in Seq(Symbols) /\ rest[2] \in Seq(Symbols)
  BY <1>1
<1>3. /\ Tail(rest) = SubSeq(rest, 2, Len(rest)) /\ Tail(rest) \in Seq(Seq(Symbols))
      /\ Len(Tail(rest)) = Len(rest) - 1
      /\ \A i \in 1..Len(Tail(rest)) : Tail(rest)[i] = rest[i + 1]
  BY <1>1, TailIsSubSeq, HeadTailProperties
<1>4. Len(Tail(rest)) >= 1
  BY <1>1, <1>3
<1>5. Tail(rest) # <<>>
  <2>1. \A t \in Seq(Seq(Symbols)) : Len(t) >= 1 => t # <<>>
    OBVIOUS
  <2> QED BY <1>3, <1>4, <2>1
<1>6. rest[2] = Tail(rest)[1]
  <2>1. 1 \in 1..Len(Tail(rest)) /\ 1 + 1 = 2
    BY <1>3, <1>4, <1>1
  <2> QED BY <1>3, <2>1
<1>7. Tail(SubSeq(rest, 2, Len(rest))) = SubSeq(rest, 2 + 1, Len(rest))
  <2>1. 2 \in 1..Len(rest) /\ Len(rest) \in 2..Len(rest)
    BY <1>1
  <2> QED BY <2>1, HeadTailOfSubSeq
<1>8. got \o (rest[1] \o rest[2]) = (got \o rest[1]) \o rest[2]
  BY <1>2, Regrouped
<1> QED BY <1>3, <1>5, <1>6, <1>7, <1>8, Zenon

\* While one frame is under way: a notification is damaged, brings a part of the
\* frame, or completes it, and then nothing else is on the link.
LEMMA NotifiedIs ==
  ASSUME NEW frame \in Seq(Symbols), Len(frame) = FrameSize,
         NEW rest \in Seq(Seq(Symbols)), NEW got \in Seq(Symbols),
         UnderWay(frame, rest, got),
         NEW n \in {1, 2} \cap DOMAIN rest,
         NEW new, new = IF n = 1 THEN rest[1] ELSE rest[1] \o rest[2],
         ~Feed(got \o new).damaged
  PROVE  \/ /\ Feed(got \o new).frames = <<>>
            /\ UnderWay(frame, SubSeq(rest, n + 1, Len(rest)), Feed(got \o new).left)
         \/ /\ Feed(got \o new).frames = <<frame>>
            /\ SubSeq(rest, n + 1, Len(rest)) = <<>>
<1> DEFINE later == SubSeq(rest, n + 1, Len(rest))
<1>1. got \o new \in Seq(Symbols) /\ later \in Seq(Seq(Symbols)) /\ rest # <<>>
  BY NotifiedTypes
<1>2. UnderWay(frame, Tail(rest), got \o rest[1])
  BY <1>1, ArrivedIsUnderWay
<1>3. UnderWay(frame, later, got \o new)
  <2>1. CASE n = 1
    <3>1. later = Tail(rest) /\ new = rest[1]
      <4>1. Tail(rest) = SubSeq(rest, 2, Len(rest))
        BY <1>1, TailIsSubSeq
      <4> QED BY <2>1, <4>1
    <3> QED BY <1>2, <3>1
  <2>2. CASE n = 2
    <3>1. /\ Tail(rest) # <<>> /\ rest[2] = Tail(rest)[1]
          /\ later = Tail(Tail(rest))
          /\ got \o new = (got \o rest[1]) \o rest[2]
      <4>1. 2 \in DOMAIN rest /\ new = rest[1] \o rest[2]
        BY <2>2
      <4> QED BY <2>2, <4>1, CoalescedIs
    <3>2. rest[1] \in Seq(Symbols) /\ Tail(rest) \in Seq(Seq(Symbols))
      BY <1>1, HeadTailProperties
    <3>3. got \o rest[1] \in Seq(Symbols)
      BY <3>2, ConcatProperties
    <3>4. UnderWay(frame, Tail(Tail(rest)), (got \o rest[1]) \o Tail(rest)[1])
      BY <1>2, <3>1, <3>2, <3>3, ArrivedIsUnderWay
    <3> QED BY <3>1, <3>4
  <2> QED BY <2>1, <2>2
<1> HIDE DEF later
<1>4. Len(got \o new) < FrameSize \/ (got \o new = frame /\ later = <<>>)
  BY <1>1, <1>3, CompleteIsWhole
<1>5. CASE Len(got \o new) < FrameSize
  <2>1. Feed(got \o new).frames = <<>> /\ Feed(got \o new).left = got \o new
    BY <1>1, <1>5, FeedPart
  <2> QED BY <1>3, <2>1 DEF later
<1>6. CASE got \o new = frame /\ later = <<>>
  <2>1. Feed(frame).frames = <<frame>>
    BY <1>6, FeedWhole
  <2> QED BY <1>6, <2>1 DEF later
<1> QED BY <1>4, <1>5, <1>6

-----------------------------------------------------------------------------
(* Hosts, ports and payloads                                               *)

\* Trailing and leading blanks go; what is left is text.
LEMMA StripType ==
  ASSUME NEW host \in Seq(Nat)
  PROVE  Strip(host) \in Seq(Nat)
<1> DEFINE kept == {i \in DOMAIN host : host[i] # Space}
<1>1. Len(host) \in Nat /\ kept \in SUBSET (0..Len(host)) /\ kept \subseteq 1..Len(host)
  OBVIOUS
<1>2. CASE kept = {}
  BY <1>2 DEF Strip
<1>3. CASE kept # {}
  <2>1. /\ Min(kept) \in 1..Len(host) /\ Max(kept) \in 1..Len(host)
        /\ Min(kept) =< Max(kept)
    <3> HIDE DEF kept
    <3> QED BY <1>1, <1>3, MinIs, MaxIs
  <2>2. Strip(host) = SubSeq(host, Min(kept), Max(kept))
    BY <1>3 DEF Strip
  <2> HIDE DEF kept
  <2>3. SubSeq(host, Min(kept), Max(kept)) \in Seq(Nat)
    BY <1>1, <2>1, Slice
  <2> QED BY <2>2, <2>3
<1> QED BY <1>2, <1>3

\* A host that the validation accepts is made of bytes, none of them a NUL, and
\* leaves room for one.
LEMMA ValidHostIs ==
  ASSUME NEW host \in Seq(Nat), ValidHost(host)
  PROVE  /\ Len(host) \in Nat /\ Len(host) < HostSize
         /\ \A i \in 1..Len(host) : host[i] \in Bytes /\ host[i] # 0
<1>1. \A x \in Letters \union Inner : x \in Bytes /\ x # 0
  BY DEF Letters, Inner, Bytes
<1>2. \A i \in 1..Len(host) : host[i] \in Range(host)
  BY DEF Range
<1> QED BY <1>1, <1>2, Sizes DEF ValidHost

\* A text ends at the first NUL.
LEMMA TextIs ==
  ASSUME NEW raw \in Seq(Bytes), NEW host \in Seq(Nat), Len(host) < Len(raw),
         raw[Len(host) + 1] = 0,
         \A i \in 1..Len(host) : raw[i] = host[i] /\ raw[i] # 0
  PROVE  Text(raw) = host
<1> DEFINE ends == {i \in DOMAIN raw : raw[i] = 0} \union {Len(raw) + 1}
<1>1. Len(host) + 1 \in ends
  OBVIOUS
<1>2. ends \in SUBSET Nat
  OBVIOUS
<1>3. \A i \in ends : Len(host) + 1 =< i
  OBVIOUS
<1>4. Min(ends) = Len(host) + 1
  <2> HIDE DEF ends
  <2> QED BY <1>1, <1>2, <1>3, MinIsIt
<1>5. Text(raw) = SubSeq(raw, 1, Len(host))
  <2>1. Text(raw) = SubSeq(raw, 1, Min(ends) - 1)
    BY DEF Text
  <2>2. Min(ends) - 1 = Len(host)
    BY <1>4
  <2> QED BY <2>1, <2>2
<1>6. /\ SubSeq(raw, 1, Len(host)) \in Seq(Bytes)
      /\ Len(SubSeq(raw, 1, Len(host))) = Len(host)
      /\ \A i \in 1..Len(host) : SubSeq(raw, 1, Len(host))[i] = host[i]
  BY Slice
<1>7. SubSeq(raw, 1, Len(host)) \in Seq(Nat)
  BY <1>6 DEF Bytes
<1> QED BY <1>5, <1>6, <1>7, SeqEqual

\* What precedes the first NUL, when the text does not fill its bytes.
LEMMA TextWas ==
  ASSUME NEW raw \in Seq(Bytes), Len(Text(raw)) < Len(raw)
  PROVE  /\ raw[Len(Text(raw)) + 1] = 0
         /\ \A i \in 1..Len(Text(raw)) : raw[i] = Text(raw)[i] /\ raw[i] # 0
<1> DEFINE ends == {i \in DOMAIN raw : raw[i] = 0} \union {Len(raw) + 1}
<1>1. ends \in SUBSET (0..Len(raw) + 1) /\ ends # {} /\ Len(raw) + 1 \in Nat
  OBVIOUS
<1>2. Min(ends) \in ends /\ \A i \in ends : Min(ends) =< i
  <2> HIDE DEF ends
  <2> QED BY <1>1, MinIs
<1>3. Text(raw) = SubSeq(raw, 1, Min(ends) - 1)
  BY DEF Text
<1>4. Min(ends) \in 1..Len(raw) + 1
  BY <1>2
<1> DEFINE least == Min(ends)
<1> HIDE DEF least
<1>5. least \in 1..Len(raw) + 1 /\ Text(raw) = SubSeq(raw, 1, least - 1)
  BY <1>3, <1>4 DEF least
<1>6. /\ Len(Text(raw)) = least - 1 /\ least - 1 \in Nat /\ (least - 1) + 1 = least
      /\ \A i \in 1..least - 1 : Text(raw)[i] = raw[i]
  <2>1. /\ Len(SubSeq(raw, 1, least - 1)) = (least - 1) - 1 + 1
        /\ \A i \in 1..(least - 1) - 1 + 1 : SubSeq(raw, 1, least - 1)[i] = raw[1 + i - 1]
    BY <1>5, Slice
  <2> QED BY <1>5, <2>1
<1>7. least # Len(raw) + 1
  BY <1>5, <1>6
<1>8. raw[least] = 0
  BY <1>2, <1>7 DEF least
<1>9. \A i \in 1..least - 1 : raw[i] # 0
  <2> SUFFICES ASSUME NEW i \in 1..least - 1, raw[i] = 0 PROVE FALSE
    OBVIOUS
  <2>1. i \in ends
    BY <1>5
  <2>2. least =< i
    BY <1>2, <2>1 DEF least
  <2> QED BY <1>5, <2>2
<1> QED BY <1>5, <1>6, <1>8, <1>9

\* Two sequences of bytes, one after the other.
LEMMA Joined ==
  ASSUME NEW s \in Seq(Bytes), NEW t \in Seq(Bytes)
  PROVE  /\ s \o t \in Seq(Bytes)
         /\ Len(s \o t) = Len(s) + Len(t)
         /\ \A i \in 1..Len(s) : (s \o t)[i] = s[i]
         /\ \A i \in 1..Len(t) : (s \o t)[Len(s) + i] = t[i]
<1>1. Len(s) \in Nat /\ Len(t) \in Nat
  OBVIOUS
<1>2. /\ s \o t \in Seq(Bytes) /\ Len(s \o t) = Len(s) + Len(t)
      /\ \A i \in 1..Len(s) + Len(t) :
           (s \o t)[i] = IF i =< Len(s) THEN s[i] ELSE t[i - Len(s)]
  BY ConcatProperties
<1>3. \A i \in 1..Len(s) : (s \o t)[i] = s[i]
  BY <1>1, <1>2
<1>4. ASSUME NEW i \in 1..Len(t)
      PROVE  (s \o t)[Len(s) + i] = t[i]
  <2>1. Len(s) + i \in 1..Len(s) + Len(t) /\ ~(Len(s) + i =< Len(s)) /\ (Len(s) + i) - Len(s) = i
    BY <1>1
  <2> QED BY <1>2, <2>1
<1> QED BY <1>2, <1>3, <1>4

\* The two bytes of a port that fits.
LEMMA LowByte ==
  ASSUME NEW p \in Int, p > 0, p < 32768, NEW q \in Int, NEW r \in Int,
         r >= 0, r < 256, 256 * q + r = p
  PROVE  q >= 0 /\ q < 256
  OBVIOUS

LEMMA WholePort ==
  ASSUME NEW p \in Int, p > 0, p < 32768, NEW q \in Int, NEW r \in Int,
         r >= 0, r < 65536, 65536 * q + r = p
  PROVE  r = p
  OBVIOUS

LEMMA Quotient ==
  ASSUME NEW L \in Nat, NEW F \in Nat \ {0}
  PROVE  /\ L \div F \in Nat /\ L % F \in Nat /\ L % F < F
         /\ F * (L \div F) + (L % F) = L
  OBVIOUS

\* A port in two bytes, and back.
LEMMA PortIs ==
  ASSUME NEW port \in Int, ValidPort(port)
  PROVE  /\ Fits(port)
         /\ Built(port) \in Seq(Bytes) /\ Len(Built(port)) = 2
         /\ \A bytes : bytes[1] = Built(port)[1] /\ bytes[2] = Built(port)[2] =>
                         Parsed(bytes) = port
<1>1. port \in 1..32767
  BY DEF ValidPort
<1>2. /\ port % 256 \in 0..255 /\ port \div 256 \in 0..255
      /\ (port % 256) + 256 * (port \div 256) = port
  <2>1. /\ port \div 256 \in Nat /\ port % 256 \in Nat /\ port % 256 < 256
        /\ 256 * (port \div 256) + (port % 256) = port
    BY <1>1, Quotient
  <2>2. port \div 256 < 256
    BY <1>1, <2>1, LowByte
  <2> QED BY <2>1, <2>2
<1>3. Built(port) = <<port % 256, port \div 256>>
  <2>1. /\ port \div 65536 \in Nat /\ port % 65536 \in Nat /\ port % 65536 < 65536
        /\ 65536 * (port \div 65536) + (port % 65536) = port
    BY <1>1, Quotient
  <2>2. port % 65536 = port
    BY <1>1, <2>1, WholePort
  <2> QED BY <2>2 DEF Built
<1>4. Built(port) \in Seq(Bytes) /\ Len(Built(port)) = 2
  BY <1>2, <1>3 DEF Bytes
<1>5. Built(port)[1] = port % 256 /\ Built(port)[2] = port \div 256
  BY <1>3
<1>6. ASSUME NEW bytes, bytes[1] = Built(port)[1], bytes[2] = Built(port)[2]
      PROVE  Parsed(bytes) = port
  <2> DEFINE value == bytes[1] + 256 * bytes[2]
  <2>1. value = port
    BY <1>2, <1>5, <1>6
  <2>2. Parsed(bytes) = IF value >= 32768 THEN value - 65536 ELSE value
    BY DEF Parsed
  <2> HIDE DEF value
  <2> QED BY <1>1, <2>1, <2>2
<1>7. Fits(port)
  BY <1>1 DEF Fits
<1> QED BY <1>4, <1>6, <1>7

\* One server's field, filled up with NULs, and its port.
LEMMA ServerIs ==
  ASSUME NEW host \in Seq(Nat), ValidHost(host), NEW port \in Int, ValidPort(port)
  PROVE  LET server == Padded(host) \o Built(port)
         IN /\ server \in Seq(Bytes) /\ Len(server) = HostSize + 2
            /\ \A i \in 1..Len(host) : server[i] = host[i]
            /\ server[Len(host) + 1] = 0
            /\ server[HostSize + 1] = Built(port)[1]
            /\ server[HostSize + 2] = Built(port)[2]
<1> DEFINE nuls == [i \in 1..HostSize - Len(host) |-> 0]
<1>1. /\ Len(host) \in Nat /\ Len(host) < HostSize /\ HostSize \in Nat
      /\ \A i \in 1..Len(host) : host[i] \in Bytes
  BY ValidHostIs, Sizes
<1>2. host \in Seq(Bytes)
  BY <1>1
<1>3. /\ nuls \in Seq(Bytes) /\ Len(nuls) = HostSize - Len(host)
      /\ nuls[1] = 0
  BY <1>1 DEF Bytes
<1> HIDE DEF nuls
<1>4. /\ host \o nuls \in Seq(Bytes) /\ Len(host \o nuls) = HostSize
      /\ \A i \in 1..Len(host) : (host \o nuls)[i] = host[i]
      /\ (host \o nuls)[Len(host) + 1] = 0
  <2>1. 1 \in 1..Len(nuls)
    BY <1>1, <1>3
  <2> QED BY <1>1, <1>2, <1>3, <2>1, Joined
<1>5. Padded(host) = host \o nuls
  BY DEF Padded, nuls
<1> DEFINE field == Padded(host)
<1>6. /\ field \in Seq(Bytes) /\ Len(field) = HostSize
      /\ \A i \in 1..Len(host) : field[i] = host[i]
      /\ field[Len(host) + 1] = 0
  BY <1>4, <1>5
<1> HIDE DEF field
<1>7. Built(port) \in Seq(Bytes) /\ Len(Built(port)) = 2
  BY PortIs
<1> DEFINE server == field \o Built(port)
<1>8. /\ server \in Seq(Bytes) /\ Len(server) = HostSize + 2
      /\ \A i \in 1..HostSize : server[i] = field[i]
      /\ \A i \in 1..2 : server[HostSize + i] = Built(port)[i]
  <2>1. /\ field \o Built(port) \in Seq(Bytes)
        /\ Len(field \o Built(port)) = Len(field) + Len(Built(port))
        /\ \A i \in 1..Len(field) : (field \o Built(port))[i] = field[i]
        /\ \A i \in 1..Len(Built(port)) :
             (field \o Built(port))[Len(field) + i] = Built(port)[i]
    BY <1>6, <1>7, Joined
  <2> QED BY <1>6, <1>7, <2>1
<1> HIDE DEF server
<1>9. /\ \A i \in 1..Len(host) : server[i] = host[i]
      /\ server[Len(host) + 1] = 0
  BY <1>1, <1>6, <1>8
<1>10. server[HostSize + 1] = Built(port)[1] /\ server[HostSize + 2] = Built(port)[2]
  BY <1>8
<1> QED BY <1>8, <1>9, <1>10 DEF server, field

\* The updated payload, byte by byte.
LEMMA UpdatedIs ==
  ASSUME NEW payload \in Payloads, NEW host \in Seq(Nat), ValidHost(host),
         NEW port \in Int, ValidPort(port)
  PROVE  LET server == Padded(host) \o Built(port)
             updated == Updated(payload, host, port)
         IN /\ updated \in Payloads
            /\ updated[1] = payload[1]
            /\ \A i \in 1..HostSize + 2 :
                 updated[1 + i] = server[i] /\ updated[HostSize + 3 + i] = server[i]
            /\ \A i \in 1..3 : updated[2 * HostSize + 5 + i] = payload[2 * HostSize + 5 + i]
<1> DEFINE server == Padded(host) \o Built(port)
           ip == <<payload[1]>>
           others == SubSeq(payload, Password, PayloadSize)
<1>1. /\ payload \in Seq(Bytes) /\ Len(payload) = 2 * HostSize + 8
      /\ HostSize \in Nat /\ Password = 2 * HostSize + 6 /\ PayloadSize = 2 * HostSize + 8
  BY Sizes DEF Payloads
<1>2. server \in Seq(Bytes) /\ Len(server) = HostSize + 2
  BY ServerIs
<1>3. ip \in Seq(Bytes) /\ Len(ip) = 1 /\ ip[1] = payload[1]
  BY <1>1
<1>4. /\ others \in Seq(Bytes) /\ Len(others) = 3
      /\ \A i \in 1..3 : others[i] = payload[2 * HostSize + 5 + i]
  <2> DEFINE from == 2 * HostSize + 6
             to == 2 * HostSize + 8
  <2>1. /\ from \in Nat \ {0} /\ to \in Nat /\ to = from + 2 /\ from =< to + 1
        /\ to =< Len(payload)
    BY <1>1
  <2>2. others = SubSeq(payload, from, to)
    BY <1>1
  <2>3. \A i \in 1..3 : from + i - 1 = 2 * HostSize + 5 + i
    BY <1>1
  <2> HIDE DEF from, to
  <2>4. /\ SubSeq(payload, from, to) \in Seq(Bytes)
        /\ Len(SubSeq(payload, from, to)) = to - from + 1
        /\ \A i \in 1..to - from + 1 : SubSeq(payload, from, to)[i] = payload[from + i - 1]
    BY <1>1, <2>1, Slice
  <2>5. to - from + 1 = 3
    BY <2>1
  <2> QED BY <2>2, <2>3, <2>4, <2>5
<1>5. Updated(payload, host, port) = ((ip \o server) \o server) \o others
  BY DEF Updated
<1> HIDE DEF server, ip, others
<1> DEFINE first == ip \o server
<1>6. /\ first \in Seq(Bytes) /\ Len(first) = HostSize + 3
      /\ first[1] = payload[1]
      /\ \A i \in 1..HostSize + 2 : first[1 + i] = server[i]
  <2>1. /\ first \in Seq(Bytes) /\ Len(first) = Len(ip) + Len(server)
        /\ \A i \in 1..Len(ip) : first[i] = ip[i]
        /\ \A i \in 1..Len(server) : first[Len(ip) + i] = server[i]
    BY <1>2, <1>3, Joined
  <2> QED BY <1>1, <1>2, <1>3, <2>1
<1> HIDE DEF first
<1> DEFINE both == first \o server
<1>7. /\ both \in Seq(Bytes) /\ Len(both) = 2 * HostSize + 5
      /\ both[1] = payload[1]
      /\ \A i \in 1..HostSize + 2 :
           both[1 + i] = server[i] /\ both[HostSize + 3 + i] = server[i]
  <2>1. /\ both \in Seq(Bytes) /\ Len(both) = Len(first) + Len(server)
        /\ \A i \in 1..Len(first) : both[i] = first[i]
        /\ \A i \in 1..Len(server) : both[Len(first) + i] = server[i]
    BY <1>2, <1>6, Joined
  <2>2. 1 \in 1..HostSize + 3 /\ \A i \in 1..HostSize + 2 : 1 + i \in 1..HostSize + 3
    BY <1>1
  <2> QED BY <1>1, <1>2, <1>6, <2>1, <2>2
<1> HIDE DEF both
<1> DEFINE all == both \o others
<1>8. /\ all \in Seq(Bytes) /\ Len(all) = PayloadSize
      /\ all[1] = payload[1]
      /\ \A i \in 1..HostSize + 2 :
           all[1 + i] = server[i] /\ all[HostSize + 3 + i] = server[i]
      /\ \A i \in 1..3 : all[2 * HostSize + 5 + i] = payload[2 * HostSize + 5 + i]
  <2>1. /\ all \in Seq(Bytes) /\ Len(all) = Len(both) + Len(others)
        /\ \A i \in 1..Len(both) : all[i] = both[i]
        /\ \A i \in 1..Len(others) : all[Len(both) + i] = others[i]
    BY <1>4, <1>7, Joined
  <2>2. /\ 1 \in 1..2 * HostSize + 5
        /\ \A i \in 1..HostSize + 2 :
             1 + i \in 1..2 * HostSize + 5 /\ HostSize + 3 + i \in 1..2 * HostSize + 5
    BY <1>1
  <2>3. Len(all) = PayloadSize
    BY <1>1, <1>4, <1>7, <2>1
  <2>4. /\ all[1] = payload[1]
        /\ \A i \in 1..HostSize + 2 :
             all[1 + i] = server[i] /\ all[HostSize + 3 + i] = server[i]
    BY <1>7, <2>1, <2>2
  <2>5. \A i \in 1..3 : all[2 * HostSize + 5 + i] = payload[2 * HostSize + 5 + i]
    BY <1>4, <1>7, <2>1
  <2> QED BY <2>1, <2>3, <2>4, <2>5
<1> HIDE DEF all
<1>9. Updated(payload, host, port) = all
  BY <1>5 DEF all, both, first
<1> QED BY <1>8, <1>9 DEF Payloads, server

\* A device that keeps the updated payload reads the endpoint in both fields.
LEMMA UpdatedReads ==
  ASSUME NEW payload \in Payloads, NEW host \in Seq(Nat), ValidHost(host),
         NEW port \in Int, ValidPort(port), NEW at \in {Server1, Server2}
  PROVE  DeviceReads(Updated(payload, host, port), at) = [host |-> host, port |-> port]
<1> DEFINE server == Padded(host) \o Built(port)
           updated == Updated(payload, host, port)
<1>1. /\ HostSize \in Nat /\ at \in Nat /\ at >= 2 /\ at + HostSize + 2 =< PayloadSize
      /\ at = 2 \/ at = HostSize + 4
      /\ Len(host) \in Nat /\ Len(host) < HostSize
      /\ \A i \in 1..Len(host) : host[i] # 0
  BY Sizes, ValidHostIs
<1>2. /\ updated \in Seq(Bytes) /\ Len(updated) = PayloadSize
      /\ \A i \in 1..HostSize + 2 :
           updated[1 + i] = server[i] /\ updated[HostSize + 3 + i] = server[i]
  BY UpdatedIs DEF Payloads
<1>3. /\ \A i \in 1..Len(host) : server[i] = host[i]
      /\ server[Len(host) + 1] = 0
      /\ server[HostSize + 1] = Built(port)[1]
      /\ server[HostSize + 2] = Built(port)[2]
  BY ServerIs
<1> HIDE DEF server, updated
<1>4. \A i \in 1..HostSize + 2 : updated[at + i - 1] = server[i]
  <2> TAKE i \in 1..HostSize + 2
  <2>1. 2 + i - 1 = 1 + i /\ (HostSize + 4) + i - 1 = HostSize + 3 + i
    BY <1>1
  <2> QED BY <1>1, <1>2, <2>1
<1> DEFINE raw == SubSeq(updated, at, PayloadSize)
<1>5. /\ raw \in Seq(Bytes) /\ Len(raw) = PayloadSize - at + 1
      /\ \A i \in 1..PayloadSize - at + 1 : raw[i] = updated[at + i - 1]
  BY <1>1, <1>2, Sizes, Slice
<1> HIDE DEF raw
<1>6. \A i \in 1..HostSize + 2 : raw[i] = server[i]
  <2> TAKE i \in 1..HostSize + 2
  <2>1. i \in 1..PayloadSize - at + 1
    BY <1>1, Sizes
  <2> QED BY <1>4, <1>5, <2>1
<1>7. Text(raw) = host
  <2>1. Len(host) < Len(raw)
    BY <1>1, <1>5, Sizes
  <2>2. raw[Len(host) + 1] = 0
    <3>1. Len(host) + 1 \in 1..HostSize + 2
      BY <1>1
    <3> QED BY <1>3, <1>6, <3>1
  <2>3. \A i \in 1..Len(host) : raw[i] = host[i] /\ raw[i] # 0
    <3> TAKE i \in 1..Len(host)
    <3>1. i \in 1..HostSize + 2
      BY <1>1
    <3> QED BY <1>1, <1>3, <1>6, <3>1
  <2> QED BY <1>5, <2>1, <2>2, <2>3, TextIs
<1>8. Parsed(Field(updated, at + HostSize, 2)) = port
  <2> DEFINE from == at + HostSize
             bytes == SubSeq(updated, from, from + 1)
  <2>1. from \in Nat \ {0} /\ from + 1 \in Nat /\ from =< (from + 1) + 1 /\ from + 1 =< Len(updated)
    BY <1>1, <1>2, Sizes
  <2>2. Field(updated, at + HostSize, 2) = bytes
    <3>1. from + 2 - 1 = from + 1
      BY <2>1
    <3> QED BY <3>1 DEF Field
  <2>3. updated[from] = server[HostSize + 1] /\ updated[from + 1] = server[HostSize + 2]
    <3>1. /\ HostSize + 1 \in 1..HostSize + 2 /\ HostSize + 2 \in 1..HostSize + 2
          /\ at + (HostSize + 1) - 1 = from /\ at + (HostSize + 2) - 1 = from + 1
      BY <1>1
    <3> QED BY <1>4, <3>1
  <2> HIDE DEF from
  <2>4. \A i \in 1..(from + 1) - from + 1 :
          SubSeq(updated, from, from + 1)[i] = updated[from + i - 1]
    BY <1>2, <2>1, Slice
  <2>5. /\ 1 \in 1..(from + 1) - from + 1 /\ 2 \in 1..(from + 1) - from + 1
        /\ from + 1 - 1 = from /\ from + 2 - 1 = from + 1
    BY <2>1
  <2>6. bytes[1] = updated[from] /\ bytes[2] = updated[from + 1]
    BY <2>4, <2>5
  <2> HIDE DEF bytes
  <2>7. Parsed(bytes) = port
    BY <1>3, <2>3, <2>6, PortIs
  <2> QED BY <2>2, <2>7
<1> QED BY <1>7, <1>8 DEF DeviceReads, updated, raw

\* So it does with a payload in which the plan has nothing to change: the text
\* of an endpoint that is accepted leaves room for the NUL that ended it.
LEMMA UnchangedReads ==
  ASSUME NEW payload \in Payloads, NEW host \in Seq(Nat), ValidHost(host), NEW port,
         Decoded(payload) = Both(host, port), NEW at \in {Server1, Server2}
  PROVE  DeviceReads(payload, at) = [host |-> host, port |-> port]
<1>1. /\ payload \in Seq(Bytes) /\ Len(payload) = PayloadSize /\ PayloadSize \in Nat
      /\ HostSize \in Nat /\ at \in Nat /\ at >= 2 /\ at + HostSize + 2 =< PayloadSize
      /\ Len(host) \in Nat /\ Len(host) < HostSize
  BY Sizes, ValidHostIs DEF Payloads
<1> DEFINE field == Field(payload, at, HostSize)
           raw == SubSeq(payload, at, PayloadSize)
<1>2. Text(field) = host /\ Parsed(Field(payload, at + HostSize, 2)) = port
  <2>1. Decoded(payload)[at] = Both(host, port)[at]
    OBVIOUS
  <2>2. Decoded(payload)[at] =
          [host |-> Text(field), port |-> Parsed(Field(payload, at + HostSize, 2))]
    BY DEF Decoded
  <2>3. Both(host, port)[at] = [host |-> host, port |-> port]
    BY DEF Both
  <2> HIDE DEF field
  <2> QED BY <2>1, <2>2, <2>3
<1>3. /\ field \in Seq(Bytes) /\ Len(field) = HostSize
      /\ \A i \in 1..HostSize : field[i] = payload[at + i - 1]
  <2> DEFINE to == at + HostSize - 1
  <2>1. /\ to \in Nat /\ at \in Nat \ {0} /\ at =< to + 1 /\ to =< Len(payload)
        /\ to - at + 1 = HostSize /\ payload \in Seq(Bytes)
    BY <1>1
  <2>2. field = SubSeq(payload, at, to)
    BY DEF Field
  <2> HIDE DEF to
  <2>3. /\ SubSeq(payload, at, to) \in Seq(Bytes)
        /\ Len(SubSeq(payload, at, to)) = to - at + 1
        /\ \A i \in 1..to - at + 1 : SubSeq(payload, at, to)[i] = payload[at + i - 1]
    BY <2>1, Slice
  <2> HIDE DEF field
  <2> QED BY <2>1, <2>2, <2>3
<1>4. /\ raw \in Seq(Bytes) /\ Len(raw) = PayloadSize - at + 1
      /\ \A i \in 1..PayloadSize - at + 1 : raw[i] = payload[at + i - 1]
  BY <1>1, Slice
<1> HIDE DEF field, raw
<1>5. \A i \in 1..HostSize : raw[i] = field[i]
  <2> TAKE i \in 1..HostSize
  <2>1. i \in 1..PayloadSize - at + 1
    BY <1>1
  <2> QED BY <1>3, <1>4, <2>1
<1>6. field[Len(host) + 1] = 0 /\ \A i \in 1..Len(host) : field[i] = host[i] /\ field[i] # 0
  <2>1. Len(Text(field)) < Len(field)
    BY <1>1, <1>2, <1>3
  <2>2. /\ field[Len(Text(field)) + 1] = 0
        /\ \A i \in 1..Len(Text(field)) : field[i] = Text(field)[i] /\ field[i] # 0
    BY <1>3, <2>1, TextWas
  <2> QED BY <1>2, <2>2
<1>7. Text(raw) = host
  <2>1. /\ Len(host) < Len(raw) /\ Len(host) + 1 \in 1..HostSize
        /\ \A i \in 1..Len(host) : i \in 1..HostSize
    BY <1>1, <1>4
  <2>2. /\ raw[Len(host) + 1] = 0
        /\ \A i \in 1..Len(host) : raw[i] = host[i] /\ raw[i] # 0
    BY <1>5, <1>6, <2>1
  <2> QED BY <1>4, <2>1, <2>2, TextIs
<1> QED BY <1>2, <1>7 DEF DeviceReads, raw

-----------------------------------------------------------------------------
(* The steps                                                               *)

\* What depends on the call and its plan only.
LEMMA Frozen ==
  ASSUME UNCHANGED <<asked, plan>>
  PROVE  Host' = Host /\ IsPlan' = IsPlan /\ Changed' = Changed
  BY DEF Host, IsPlan, Changed

\* A call starts with nothing on the link.
LEMMA StartInv == Init => UpdateInv
<1> SUFFICES ASSUME Init PROVE UpdateInv
  OBVIOUS
<1>1. stored \in Payloads
  <2>1. stored \in [1..PayloadSize -> Bytes]
    BY DEF Init, Bytes
  <2> QED BY <2>1, Sizes DEF Payloads
<1>2. TypeOK
  <2>1. None \notin Results \union Plans /\ Len(<<>>) < FrameSize
    BY Sizes
  <2> QED BY <1>1, <2>1 DEF Init, TypeOK, Payloads, Bytes, Reading
<1>3. LinkInv
  BY DEF LinkInv, Init
<1>4. None \notin Results
  OBVIOUS
<1> QED BY <1>1, <1>2, <1>3, <1>4 DEF Init, UpdateInv, ReplyInv, PlanInv, StoredInv, Results

\* The call ends: nothing is on the link any more.
LEMMA EndsInv ==
  ASSUME UpdateInv, NEW outcome \in Results \ {"unbuildable"}, Ends(outcome), UNCHANGED plan,
         outcome \in {"unchanged", "written", "unverified"} => plan # None,
         outcome = "unchanged" => stored = plan.original /\ ~Changed,
         outcome \in {"written", "unverified"} => stored \in {plan.original, plan.updated}
  PROVE  UpdateInv'
<1>1. /\ stage' = "over" /\ result' = outcome /\ air' = <<>> /\ buffer' = <<>>
      /\ UNCHANGED <<asked, stored, plan>>
  BY DEF Ends
<1>2. TypeOK'
  <2>1. outcome # None /\ Len(<<>>) < FrameSize
    BY Sizes
  <2> QED BY <1>1, <2>1 DEF UpdateInv, TypeOK
<1>3. LinkInv' /\ ReplyInv'
  BY <1>1 DEF LinkInv, ReplyInv
<1>4. PlanInv'
  BY <1>1, Frozen DEF UpdateInv, PlanInv
<1>5. StoredInv'
  BY <1>1, Frozen DEF StoredInv
<1> QED BY <1>1, <1>2, <1>3, <1>4, <1>5 DEF UpdateInv

\* Fragments are made of what frames are made of.
LEMMA FragmentsType ==
  ASSUME NEW op \in Bytes, NEW p \in Payloads
  PROVE  Fragments(Frame(op, p)) \in Seq(Seq(Symbols))
  BY FrameIs, FragmentsAre

\* A request: the reply shows what is stored when it is sent.
LEMMA RequestsInv ==
  ASSUME UpdateInv, NEW next \in Reading, NEW rest \in Seq(Seq(Symbols)),
         Requests(next, rest), stage # "over", plan' \in Plans \union {None},
         next = "verifying" \/ rest = <<>>
  PROVE  /\ TypeOK' /\ stored' \in Payloads /\ result' # "unbuildable"
         /\ LinkInv' /\ ReplyInv'
<1> DEFINE reply == Frame(GET, stored)
<1>1. /\ stage' = next /\ buffer' = <<>> /\ air' = rest \o Fragments(reply)
      /\ UNCHANGED <<asked, stored, result>>
  BY DEF Requests
<1>2. stored \in Payloads /\ GET \in Bytes
  BY DEF UpdateInv, GET, Bytes
<1>3. /\ reply \in Seq(Symbols) /\ Len(reply) = FrameSize
      /\ Fragments(reply) \in Seq(Seq(Symbols))
  BY <1>2, FrameIs, FragmentsType
<1> HIDE DEF reply
<1>4. TypeOK'
  <2>1. Len(<<>>) < FrameSize
    BY Sizes
  <2> QED BY <1>1, <2>1 DEF UpdateInv, TypeOK, Reading
<1>5. LinkInv'
  <2>1. rest \o Fragments(reply) \in Seq(Seq(Symbols))
    BY <1>3, ConcatProperties
  <2> QED BY <1>1, <2>1 DEF LinkInv, Reading
<1>6. ReplyInv'
  <2>1. CASE next = "verifying"
    BY <1>1, <2>1 DEF ReplyInv
  <2>2. CASE rest = <<>>
    <3>1. air' = Fragments(reply)
      BY <1>1, <1>3, <2>2, ConcatSimplifications
    <3>2. UnderWay(reply, air', buffer')
      BY <1>1, <1>3, <3>1, SentIsUnderWay
    <3>3. reply = Frame(GET, stored')
      BY <1>1 DEF reply
    <3>4. UnderWay(Frame(GET, stored'), air', buffer') /\ stored' \in Payloads
      BY <1>1, <1>2, <3>2, <3>3
    <3>5. (\E p \in Payloads : UnderWay(Frame(GET, p), air, buffer))'
      BY <3>4
    <3> QED BY <3>4, <3>5 DEF ReplyInv
  <2> QED BY <2>1, <2>2
<1> QED BY <1>1, <1>2, <1>4, <1>5, <1>6 DEF UpdateInv

\* The reply that a request waits for: not there yet, or there, whole and last.
LEMMA ReplyIs ==
  ASSUME air \in Seq(Seq(Symbols)), buffer \in Seq(Symbols),
         NEW p \in Payloads, UnderWay(Frame(GET, p), air, buffer),
         NEW n \in {1, 2} \cap DOMAIN air, ~Feed(buffer \o Arriving(n)).damaged
  PROVE  LET fed == Feed(buffer \o Arriving(n))
             rest == SubSeq(air, n + 1, Len(air))
             replies == {i \in DOMAIN fed.frames : Opcode(fed.frames[i]) = GET}
         IN \/ replies = {} /\ UnderWay(Frame(GET, p), rest, fed.left)
            \/ /\ replies # {} /\ rest = <<>>
               /\ Payload(fed.frames[Min(replies)]) = p
<1> DEFINE frame == Frame(GET, p)
           fed == Feed(buffer \o Arriving(n))
           rest == SubSeq(air, n + 1, Len(air))
           replies == {i \in DOMAIN fed.frames : Opcode(fed.frames[i]) = GET}
<1>1. /\ frame \in Seq(Symbols) /\ Len(frame) = FrameSize
      /\ Opcode(frame) = GET /\ Payload(frame) = p
  BY FrameIs DEF GET, Bytes
<1>2. \/ fed.frames = <<>> /\ UnderWay(frame, rest, fed.left)
      \/ fed.frames = <<frame>> /\ rest = <<>>
  <2> HIDE DEF frame
  <2>1. Arriving(n) = IF n = 1 THEN air[1] ELSE air[1] \o air[2]
    BY DEF Arriving
  <2> QED BY <1>1, <2>1, NotifiedIs DEF frame
<1> HIDE DEF frame, rest, fed
<1>3. CASE fed.frames = <<>> /\ UnderWay(frame, rest, fed.left)
  <2>1. replies = {}
    BY <1>3
  <2> QED BY <1>3, <2>1 DEF frame, rest, fed
<1>4. CASE fed.frames = <<frame>> /\ rest = <<>>
  <2>1. DOMAIN fed.frames = {1} /\ fed.frames[1] = frame
    BY <1>4
  <2>2. replies = {1}
    BY <1>1, <2>1
  <2> HIDE DEF replies
  <2>3. Min(replies) = 1
    <3>1. replies \in SUBSET Nat /\ 1 \in replies /\ \A y \in replies : 1 =< y
      BY <2>2
    <3> QED BY <3>1, MinIsIt
  <2>4. Payload(fed.frames[Min(replies)]) = p
    BY <1>1, <2>1, <2>3
  <2> QED BY <1>4, <2>2, <2>4 DEF replies, rest, fed
<1> QED BY <1>2, <1>3, <1>4

\* Whatever fails from the write on, the device holds one of the plan's payloads.
LEMMA FailsInv ==
  ASSUME UpdateInv, Fails
  PROVE  UpdateInv'
<1> DEFINE outcome == IF stage \in {"settling", "verifying"} THEN "unverified" ELSE "failed"
<1>1. Ends(outcome) /\ UNCHANGED plan /\ outcome \in Results \ {"unbuildable"}
  BY DEF Fails, Results
<1>2. /\ outcome \in {"unchanged", "written", "unverified"} => plan # None
      /\ outcome # "unchanged"
      /\ outcome \in {"written", "unverified"} => stored \in {plan.original, plan.updated}
  BY DEF UpdateInv, PlanInv, StoredInv
<1> HIDE DEF outcome
<1> QED BY <1>1, <1>2, EndsInv

\* The payload that was read first is planned from, or refused.
LEMMA PlanStep ==
  ASSUME UpdateInv, stage = "planning", NEW payload \in Payloads, Plan(payload, <<>>)
  PROVE  UpdateInv'
<1> DEFINE host == Strip(asked.host)
           outcome == IF ~(ValidHost(host) /\ ValidPort(asked.port)) THEN "rejected"
                      ELSE IF ~Understood(payload) THEN "protocol"
                      ELSE IF ~Fits(asked.port) THEN "unbuildable" ELSE None
<1>1. None \notin Results /\ "unbuildable" \in Results
  BY DEF Results
<1>2. host \in Seq(Nat) /\ asked.port \in Int
  <2>1. asked \in [host : Hosts, port : Ports]
    BY DEF UpdateInv, TypeOK
  <2> QED BY <2>1, StripType
<1>3. outcome # "unbuildable"
  <2>1. ValidPort(asked.port) => Fits(asked.port)
    BY <1>2, PortIs
  <2> QED BY <1>1, <2>1
<1>4. IF outcome # None THEN Ends(outcome) /\ UNCHANGED plan
      ELSE /\ plan' = [original |-> payload,
                       updated |-> Updated(payload, host, asked.port)]
           /\ Requests("checking", <<>>)
  BY DEF Plan
<1>5. outcome \in {"rejected", "protocol", "unbuildable", None}
  OBVIOUS
<1>6. outcome = None => ValidHost(host) /\ ValidPort(asked.port)
  BY <1>1 DEF Results
<1> HIDE DEF outcome
<1>7. CASE outcome # None
  <2>1. outcome \in Results \ {"unbuildable"}
    BY <1>3, <1>5, <1>7 DEF Results
  <2>2. outcome \notin {"unchanged", "written", "unverified"}
    BY <1>5, <1>7
  <2> QED BY <1>4, <1>7, <2>1, <2>2, EndsInv
<1>8. CASE outcome = None
  <2> DEFINE made == [original |-> payload, updated |-> Updated(payload, host, asked.port)]
  <2>1. plan' = made /\ Requests("checking", <<>>)
    BY <1>4, <1>8
  <2>2. Updated(payload, host, asked.port) \in Payloads
    BY <1>2, <1>6, <1>8, UpdatedIs
  <2>3. made \in [original : Payloads, updated : Payloads] /\ made \in Plans
    BY <2>2 DEF Plans, Payloads, Bytes
  <2>4. made # None
    BY <2>3
  <2>5. <<>> \in Seq(Seq(Symbols)) /\ "checking" \in Reading
    BY DEF Reading
  <2>6. /\ TypeOK' /\ stored' \in Payloads /\ result' # "unbuildable"
        /\ LinkInv' /\ ReplyInv'
    BY <2>1, <2>3, <2>5, RequestsInv
  <2>7. stage' = "checking" /\ UNCHANGED <<asked, stored, result>>
    BY <2>1 DEF Requests
  <2>8. IsPlan'
    BY <1>6, <1>8, <2>1, <2>3, <2>7 DEF IsPlan, Host
  <2>9. PlanInv'
    BY <2>1, <2>4, <2>8 DEF PlanInv
  <2>10. StoredInv'
    <3>1. result' = None
      BY <2>7 DEF UpdateInv, TypeOK
    <3> QED BY <1>1, <2>7, <3>1 DEF StoredInv, Results
  <2> QED BY <2>6, <2>9, <2>10 DEF UpdateInv
<1> QED BY <1>7, <1>8

\* The freshness read: what is about to be written to is what was planned from.
LEMMA CheckStep ==
  ASSUME UpdateInv, stage = "checking", NEW left \in Seq(Symbols), Len(left) < FrameSize,
         Check(stored, left, <<>>)
  PROVE  UpdateInv'
<1>1. plan # None /\ UNCHANGED plan
  BY DEF UpdateInv, PlanInv, Check
<1>2. CASE ~Fresh(stored)
  <2>1. Ends("conflict")
    BY <1>2 DEF Check
  <2> QED BY <1>1, <2>1, EndsInv DEF Results
<1>3. CASE Fresh(stored) /\ ~Changed
  <2>1. Ends("unchanged") /\ stored = plan.original
    BY <1>3 DEF Check, Fresh
  <2> QED BY <1>1, <1>3, <2>1, EndsInv DEF Results
<1>4. CASE Fresh(stored) /\ Changed
  <2>1. /\ stage' = "writing" /\ buffer' = left /\ air' = <<>> /\ stored = plan.original
        /\ UNCHANGED <<asked, stored, plan, result>>
    BY <1>4 DEF Check, Fresh
  <2>2. TypeOK'
    BY <2>1 DEF UpdateInv, TypeOK, Reading
  <2>3. LinkInv' /\ ReplyInv'
    BY <2>1 DEF LinkInv, ReplyInv
  <2>4. PlanInv'
    BY <1>1, <2>1, Frozen DEF UpdateInv, PlanInv
  <2>5. StoredInv'
    BY <2>1, Frozen DEF UpdateInv, StoredInv
  <2> QED BY <2>1, <2>2, <2>3, <2>4, <2>5 DEF UpdateInv
<1> QED BY <1>2, <1>3, <1>4

\* Any notification.
LEMMA NotificationStep ==
  ASSUME UpdateInv, Notification
  PROVE  UpdateInv'
<1>1. PICK n \in {1, 2} \cap DOMAIN air :
        LET fed == Feed(buffer \o Arriving(n))
            rest == SubSeq(air, n + 1, Len(air))
            replies == {i \in DOMAIN fed.frames : Opcode(fed.frames[i]) = GET}
        IN IF stage \in Reading /\ fed.damaged THEN Fails
           ELSE IF stage \notin Reading \/ replies = {}
             THEN /\ buffer' = fed.left /\ air' = rest
                  /\ UNCHANGED <<asked, stored, stage, plan, result>>
           ELSE LET payload == Payload(fed.frames[Min(replies)])
                IN \/ stage = "planning" /\ Plan(payload, rest)
                   \/ stage = "checking" /\ Check(payload, fed.left, rest)
                   \/ stage = "verifying" /\ Verify(payload)
  BY DEF Notification
<1> DEFINE fed == Feed(buffer \o Arriving(n))
           rest == SubSeq(air, n + 1, Len(air))
           replies == {i \in DOMAIN fed.frames : Opcode(fed.frames[i]) = GET}
           payload == Payload(fed.frames[Min(replies)])
<1>2. air \in Seq(Seq(Symbols)) /\ buffer \in Seq(Symbols)
  BY DEF UpdateInv, LinkInv
<1>3. rest \in Seq(Seq(Symbols)) /\ fed.left \in Seq(Symbols) /\ Len(fed.left) < FrameSize
  <2>1. buffer \o Arriving(n) \in Seq(Symbols) /\ rest \in Seq(Seq(Symbols))
    BY <1>2, NotifiedTypes DEF Arriving
  <2> QED BY <2>1, FeedIs
<1>4. ASSUME ~fed.damaged, NEW p \in Payloads, UnderWay(Frame(GET, p), air, buffer)
      PROVE  \/ replies = {} /\ UnderWay(Frame(GET, p), rest, fed.left)
             \/ replies # {} /\ rest = <<>> /\ payload = p
  BY <1>2, <1>4, ReplyIs
<1>5. stage # "called"
  BY DEF UpdateInv, LinkInv
<1>6. /\ stage \in Reading /\ fed.damaged => Fails
      /\ ~(stage \in Reading /\ fed.damaged) /\ (stage \notin Reading \/ replies = {}) =>
           /\ buffer' = fed.left /\ air' = rest
           /\ UNCHANGED <<asked, stored, stage, plan, result>>
      /\ stage \in Reading /\ ~fed.damaged /\ replies # {} =>
           \/ stage = "planning" /\ Plan(payload, rest)
           \/ stage = "checking" /\ Check(payload, fed.left, rest)
           \/ stage = "verifying" /\ Verify(payload)
  BY <1>1
<1> HIDE DEF fed, rest, replies, payload
<1>7. CASE stage \in Reading /\ fed.damaged
  BY <1>6, <1>7, FailsInv
<1>8. CASE ~(stage \in Reading /\ fed.damaged) /\ (stage \notin Reading \/ replies = {})
  <2>1. /\ buffer' = fed.left /\ air' = rest
        /\ UNCHANGED <<asked, stored, stage, plan, result>>
    BY <1>6, <1>8
  <2>2. TypeOK'
    BY <1>3, <2>1 DEF UpdateInv, TypeOK
  <2>3. LinkInv'
    BY <1>3, <1>5, <2>1 DEF LinkInv
  <2>4. ReplyInv'
    <3>1. ASSUME stage = "planning"
          PROVE  (\E p \in Payloads : UnderWay(Frame(GET, p), air, buffer))'
      <4>1. PICK p \in Payloads : UnderWay(Frame(GET, p), air, buffer)
        BY <3>1 DEF UpdateInv, ReplyInv
      <4>2. ~fed.damaged /\ replies = {}
        BY <1>8, <3>1 DEF Reading
      <4>3. UnderWay(Frame(GET, p), rest, fed.left)
        BY <1>4, <4>1, <4>2
      <4>4. UnderWay(Frame(GET, p), air', buffer')
        BY <2>1, <4>3
      <4> QED BY <4>4
    <3>2. ASSUME stage = "checking"
          PROVE  UnderWay(Frame(GET, stored), air, buffer)'
      <4>1. UnderWay(Frame(GET, stored), air, buffer) /\ stored \in Payloads
        BY <3>2 DEF UpdateInv, ReplyInv
      <4>2. ~fed.damaged /\ replies = {}
        BY <1>8, <3>2 DEF Reading
      <4>3. UnderWay(Frame(GET, stored), rest, fed.left)
        BY <1>4, <4>1, <4>2
      <4> QED BY <2>1, <4>3
    <3> QED BY <2>1, <3>1, <3>2 DEF ReplyInv
  <2>5. PlanInv' /\ StoredInv'
    BY <2>1, Frozen DEF UpdateInv, PlanInv, StoredInv
  <2> QED BY <2>1, <2>2, <2>3, <2>4, <2>5 DEF UpdateInv
<1>9. CASE stage \in Reading /\ ~fed.damaged /\ replies # {}
  <2>1. CASE stage = "planning" /\ Plan(payload, rest)
    <3>1. PICK p \in Payloads : UnderWay(Frame(GET, p), air, buffer)
      BY <2>1 DEF UpdateInv, ReplyInv
    <3>2. rest = <<>> /\ payload = p
      BY <1>4, <1>9, <3>1
    <3> QED BY <2>1, <3>2, PlanStep
  <2>2. CASE stage = "checking" /\ Check(payload, fed.left, rest)
    <3>1. UnderWay(Frame(GET, stored), air, buffer) /\ stored \in Payloads
      BY <2>2 DEF UpdateInv, ReplyInv
    <3>2. rest = <<>> /\ payload = stored
      BY <1>4, <1>9, <3>1
    <3> QED BY <1>3, <2>2, <3>2, CheckStep
  <2>3. CASE stage = "verifying" /\ Verify(payload)
    <3> DEFINE outcome == IF payload = plan.updated THEN "written" ELSE "unverified"
    <3>1. Ends(outcome) /\ UNCHANGED plan
      BY <2>3 DEF Verify
    <3>2. outcome \in Results \ {"unbuildable"} /\ outcome # "unchanged"
      BY DEF Results
    <3>3. plan # None /\ stored \in {plan.original, plan.updated}
      BY <2>3 DEF UpdateInv, PlanInv, StoredInv
    <3> HIDE DEF outcome
    <3> QED BY <3>1, <3>2, <3>3, EndsInv
  <2> QED BY <1>6, <1>9, <2>1, <2>2, <2>3
<1> QED BY <1>7, <1>8, <1>9

\* A loss leaves a gap that nothing fills.
LEMMA LoseStep ==
  ASSUME UpdateInv, Lose
  PROVE  UpdateInv'
<1>1. /\ air # <<>> /\ air' = Tail(air)
      /\ UNCHANGED <<asked, stored, stage, plan, result, buffer>>
  BY DEF Lose
<1>2. /\ air \in Seq(Seq(Symbols)) /\ buffer \in Seq(Symbols)
      /\ Tail(air) \in Seq(Seq(Symbols))
  BY <1>1, HeadTailProperties DEF UpdateInv, LinkInv
<1>3. ASSUME NEW p \in Payloads, UnderWay(Frame(GET, p), air, buffer)
      PROVE  UnderWay(Frame(GET, p), air', buffer')
  <2>1. Frame(GET, p) \in Seq(Symbols) /\ Len(Frame(GET, p)) = FrameSize
    BY FrameIs DEF GET, Bytes
  <2> QED BY <1>1, <1>2, <1>3, <2>1, LostIsUnderWay
<1>4. ReplyInv'
  <2>1. ASSUME stage = "planning"
        PROVE  (\E p \in Payloads : UnderWay(Frame(GET, p), air, buffer))'
    <3>1. PICK p \in Payloads : UnderWay(Frame(GET, p), air, buffer)
      BY <2>1 DEF UpdateInv, ReplyInv
    <3> QED BY <1>3, <3>1
  <2>2. ASSUME stage = "checking"
        PROVE  UnderWay(Frame(GET, stored), air, buffer)'
    BY <1>1, <1>3, <2>2 DEF UpdateInv, ReplyInv
  <2> QED BY <1>1, <2>1, <2>2 DEF ReplyInv
<1>5. TypeOK' /\ LinkInv'
  BY <1>1, <1>2 DEF UpdateInv, TypeOK, LinkInv
<1>6. PlanInv' /\ StoredInv'
  BY <1>1, Frozen DEF UpdateInv, PlanInv, StoredInv
<1> QED BY <1>1, <1>4, <1>5, <1>6 DEF UpdateInv

\* The write leaves, whole or not at all.
LEMMA WriteStep ==
  ASSUME UpdateInv, Write \/ WriteFails
  PROVE  UpdateInv'
<1>1. /\ stage = "writing" /\ stored' \in {stored, plan.updated} /\ UNCHANGED <<asked, plan>>
      /\ plan # None /\ IsPlan /\ stored = plan.original
  BY DEF UpdateInv, PlanInv, StoredInv, Write, WriteFails
<1>2. stored' \in Payloads /\ stored' \in {plan.original, plan.updated}
  BY <1>1 DEF IsPlan
<1>3. result = None
  BY <1>1 DEF UpdateInv, TypeOK
<1>4. "unverified" # None
  BY DEF Results
<1>5. /\ air' \in Seq(Seq(Symbols)) /\ buffer' \in Seq(Symbols) /\ Len(buffer') < FrameSize
      /\ \/ stage' = "settling" /\ result' = None
         \/ stage' = "over" /\ result' = "unverified"
  <2>1. CASE Write
    <3>1. Fragments(Frame(SET, stored')) \in Seq(Seq(Symbols))
      BY <1>2, FragmentsType DEF SET, Bytes
    <3>2. air \in Seq(Seq(Symbols)) /\ buffer \in Seq(Symbols) /\ Len(buffer) < FrameSize
      BY DEF UpdateInv, LinkInv, TypeOK
    <3>3. air \o Fragments(Frame(SET, stored')) \in Seq(Seq(Symbols))
      BY <3>1, <3>2, ConcatProperties
    <3>4. /\ stage' = "settling" /\ result' = result /\ buffer' = buffer
          /\ air' = air \/ air' = air \o Fragments(Frame(SET, stored'))
      BY <2>1 DEF Write
    <3>5. air' \in Seq(Seq(Symbols))
      BY <3>2, <3>3, <3>4, Zenon
    <3> QED BY <1>3, <3>2, <3>4, <3>5
  <2>2. CASE WriteFails
    <3>1. Len(<<>>) < FrameSize
      BY Sizes
    <3> QED BY <2>2, <3>1 DEF WriteFails
  <2> QED BY <2>1, <2>2
<1>6. TypeOK' /\ result' # "unbuildable"
  <2>1. None # "unbuildable"
    BY DEF Results
  <2> QED BY <1>1, <1>2, <1>4, <1>5, <2>1 DEF UpdateInv, TypeOK, Results, Payloads, Bytes
<1>7. LinkInv' /\ ReplyInv'
  BY <1>5 DEF LinkInv, ReplyInv
<1>8. PlanInv'
  BY <1>1, Frozen DEF PlanInv
<1>9. StoredInv'
  <2>1. None # "unchanged"
    BY DEF Results
  <2> QED BY <1>1, <1>2, <1>5, <2>1 DEF StoredInv
<1> QED BY <1>2, <1>6, <1>7, <1>8, <1>9 DEF UpdateInv

\* Another setting changes before the freshness read is asked for.
LEMMA ReconfigureStep ==
  ASSUME UpdateInv, Reconfigure
  PROVE  UpdateInv'
<1>1. /\ stage = "planning" /\ stored' = [stored EXCEPT ![Password] = 0]
      /\ UNCHANGED <<asked, stage, plan, result, air, buffer>>
  BY DEF Reconfigure
<1>2. stored' \in Payloads
  <2>1. stored \in Seq(Bytes) /\ Len(stored) = PayloadSize /\ 0 \in Bytes
    BY DEF UpdateInv, Payloads, Bytes
  <2>2. Password \in 1..Len(stored)
    BY <2>1, Sizes
  <2>3. /\ [stored EXCEPT ![Password] = 0] \in Seq(Bytes)
        /\ Len([stored EXCEPT ![Password] = 0]) = Len(stored)
    BY <2>1, <2>2, ExceptSeq
  <2> QED BY <1>1, <2>1, <2>3 DEF Payloads
<1>3. TypeOK'
  BY <1>1, <1>2 DEF UpdateInv, TypeOK, Payloads, Bytes
<1>4. LinkInv' /\ ReplyInv'
  BY <1>1 DEF UpdateInv, LinkInv, ReplyInv
<1>5. PlanInv' /\ StoredInv'
  <2>1. result = None /\ None \notin Results
    BY <1>1 DEF UpdateInv, TypeOK
  <2> QED BY <1>1, <2>1, Frozen DEF UpdateInv, PlanInv, StoredInv, Results
<1> QED BY <1>1, <1>2, <1>3, <1>4, <1>5 DEF UpdateInv

\* The three requests: the readback alone may find something on the link.
LEMMA CallStep ==
  ASSUME UpdateInv, Call \/ Settled
  PROVE  UpdateInv'
<1>1. /\ plan' = plan /\ stage \in {"called", "settling"}
      /\ Requests(IF stage = "called" THEN "planning" ELSE "verifying", air)
  BY DEF Call, Settled
<1> DEFINE next == IF stage = "called" THEN "planning" ELSE "verifying"
<1>2. next \in Reading /\ (next = "verifying" \/ air = <<>>)
  BY DEF Reading, UpdateInv, LinkInv
<1>3. air \in Seq(Seq(Symbols)) /\ plan' \in Plans \union {None} /\ stage # "over"
  BY <1>1 DEF UpdateInv, LinkInv, TypeOK
<1>4. next = "planning" \/ (next = "verifying" /\ stage = "settling")
  BY <1>1
<1> HIDE DEF next
<1>5. Requests(next, air)
  BY <1>1 DEF next
<1>6. /\ TypeOK' /\ stored' \in Payloads /\ result' # "unbuildable"
      /\ LinkInv' /\ ReplyInv'
  BY <1>2, <1>3, <1>5, RequestsInv
<1>7. stage' = next /\ UNCHANGED <<asked, stored, result, plan>>
  BY <1>1, <1>5 DEF Requests
<1>8. result = None /\ None \notin Results
  BY <1>3 DEF UpdateInv, TypeOK
<1>9. PlanInv' /\ StoredInv'
  BY <1>4, <1>7, <1>8, Frozen DEF UpdateInv, PlanInv, StoredInv, Results
<1> QED BY <1>6, <1>9 DEF UpdateInv

\* Every step keeps the invariant.
LEMMA StepInv == UpdateInv /\ [Next]_vars => UpdateInv'
<1> SUFFICES ASSUME UpdateInv, [Next]_vars PROVE UpdateInv'
  OBVIOUS
<1>1. CASE Reconfigure
  BY <1>1, ReconfigureStep
<1>2. CASE Call \/ Settled
  BY <1>2, CallStep
<1>3. CASE Notification
  BY <1>3, NotificationStep
<1>4. CASE Lose
  BY <1>4, LoseStep
<1>5. CASE TimedOut
  BY <1>5, FailsInv DEF TimedOut
<1>6. CASE Write \/ WriteFails
  BY <1>6, WriteStep
<1>7. CASE UNCHANGED vars
  BY <1>7, Frozen
     DEF vars, UpdateInv, TypeOK, LinkInv, ReplyInv, PlanInv, StoredInv
<1> QED BY <1>1, <1>2, <1>3, <1>4, <1>5, <1>6, <1>7 DEF Next

-----------------------------------------------------------------------------
(* The theorems                                                            *)

\* The invariant that the others follow from.  Most of all: until the write there
\* is only one reply on the link, so that a frame put together by _request
\* (ble.py) is what the device had stored when it was asked, whatever is lost.
THEOREM UpdateCorrect == Spec => []UpdateInv
  BY StartInv, StepInv, PTL DEF Spec

\* FrameBuffer keeps less than a frame, a call has a result when it is over and
\* only then, and what the device stores stays a whole payload.
THEOREM UpdateTypes == Spec => []TypeOK
<1>1. UpdateInv => TypeOK
  BY DEF UpdateInv
<1> QED BY <1>1, UpdateCorrect, PTL

\* ble.py:254-256: from the write on, and after a success without one, the device
\* holds the very bytes that the plan was made from or those that it leads to.
THEOREM PlanIsFromStored == Spec => []PlannedFromStored
<1>1. UpdateInv => PlannedFromStored
  BY DEF UpdateInv, StoredInv, PlannedFromStored
<1> QED BY <1>1, UpdateCorrect, PTL

-----------------------------------------------------------------------------
(* What an update that reports success has left behind                     *)

WrittenInv == result = "written" => stored = plan.updated

\* A readback that shows the updated payload is one of a frame that the checksum
\* was right about, so of one that the device has sent.
LEMMA WrittenStep ==
  ASSUME UpdateInv, WrittenInv, FramesAreGenuine, [Next]_vars
  PROVE  WrittenInv'
<1>1. ASSUME stored' = stored, plan' = plan, result' = result
      PROVE  WrittenInv'
  BY <1>1 DEF WrittenInv
<1>2. ASSUME result' # "written"
      PROVE  WrittenInv'
  BY <1>2 DEF WrittenInv
<1>3. ASSUME Fails PROVE WrittenInv'
  BY <1>2, <1>3 DEF Fails, Ends
<1>4. None # "written" /\ (stage # "over" => result = None)
  BY DEF UpdateInv, TypeOK, Results
<1>5. CASE Reconfigure
  BY <1>2, <1>4, <1>5 DEF Reconfigure
<1>6. CASE Call \/ Settled
  BY <1>1, <1>6 DEF Call, Settled, Requests
<1>7. CASE Lose
  BY <1>1, <1>7 DEF Lose
<1>8. CASE TimedOut
  BY <1>3, <1>8 DEF TimedOut
<1>9. CASE Write \/ WriteFails
  BY <1>2, <1>4, <1>9 DEF Write, WriteFails
<1>10. CASE Notification
  <2>1. PICK n \in {1, 2} \cap DOMAIN air :
          LET fed == Feed(buffer \o Arriving(n))
              rest == SubSeq(air, n + 1, Len(air))
              replies == {i \in DOMAIN fed.frames : Opcode(fed.frames[i]) = GET}
          IN IF stage \in Reading /\ fed.damaged THEN Fails
             ELSE IF stage \notin Reading \/ replies = {}
               THEN /\ buffer' = fed.left /\ air' = rest
                    /\ UNCHANGED <<asked, stored, stage, plan, result>>
             ELSE LET payload == Payload(fed.frames[Min(replies)])
                  IN \/ stage = "planning" /\ Plan(payload, rest)
                     \/ stage = "checking" /\ Check(payload, fed.left, rest)
                     \/ stage = "verifying" /\ Verify(payload)
    BY <1>10 DEF Notification
  <2> DEFINE fed == Feed(buffer \o Arriving(n))
             rest == SubSeq(air, n + 1, Len(air))
             replies == {i \in DOMAIN fed.frames : Opcode(fed.frames[i]) = GET}
             payload == Payload(fed.frames[Min(replies)])
  <2>2. \/ Fails
        \/ UNCHANGED <<asked, stored, stage, plan, result>>
        \/ stage = "planning" /\ Plan(payload, rest)
        \/ stage = "checking" /\ Check(payload, fed.left, rest)
        \/ stage = "verifying" /\ replies # {} /\ Verify(payload)
    BY <2>1
  <2>3. ASSUME stage = "verifying", replies # {} PROVE payload = stored
    <3>1. fed.frames \in Seq(Seq(Symbols))
      <4>1. buffer \o Arriving(n) \in Seq(Symbols)
        BY NotifiedTypes DEF Arriving, UpdateInv, LinkInv
      <4> QED BY <4>1, FeedIs
    <3>2. \A f \in Range(fed.frames) : f \in {Frame(GET, stored), Frame(SET, stored)}
      BY <2>3 DEF FramesAreGenuine
    <3> DEFINE reply == fed.frames[Min(replies)]
    <3> HIDE DEF fed
    <3>3. Min(replies) \in replies
      <4>1. replies \in SUBSET (0..Len(fed.frames)) /\ Len(fed.frames) \in Nat
        BY <3>1
      <4> HIDE DEF replies
      <4> QED BY <2>3, <4>1, MinIs
    <3>4. reply \in Range(fed.frames) /\ Opcode(reply) = GET
      <4>1. Min(replies) \in DOMAIN fed.frames /\ Opcode(fed.frames[Min(replies)]) = GET
        BY <3>3
      <4> QED BY <4>1 DEF Range
    <3>5. /\ Payload(Frame(GET, stored)) = stored
          /\ Opcode(Frame(SET, stored)) = SET /\ SET # GET
      BY FrameIs DEF GET, SET, Bytes, UpdateInv
    <3>6. reply \in {Frame(GET, stored), Frame(SET, stored)}
      BY <3>2, <3>4
    <3> QED BY <3>4, <3>5, <3>6
  <2> HIDE DEF payload, rest, fed, replies
  <2>4. CASE stage = "planning" /\ Plan(payload, rest)
    <3>1. result' = result \/ result' \in {"rejected", "protocol", "unbuildable"}
      BY <2>4 DEF Plan, Ends, Requests
    <3> QED BY <1>2, <1>4, <2>4, <3>1
  <2>5. CASE stage = "checking" /\ Check(payload, fed.left, rest)
    <3>1. result' = result \/ result' \in {"conflict", "unchanged"}
      BY <2>5 DEF Check, Ends
    <3> QED BY <1>2, <1>4, <2>5, <3>1
  <2>6. CASE stage = "verifying" /\ replies # {} /\ Verify(payload)
    <3>1. payload = stored
      BY <2>3, <2>6
    <3>2. /\ stored' = stored /\ plan' = plan
          /\ result' = IF payload = plan.updated THEN "written" ELSE "unverified"
      BY <2>6 DEF Verify, Ends
    <3> QED BY <3>1, <3>2 DEF WrittenInv
  <2> QED BY <1>1, <1>3, <2>2, <2>4, <2>5, <2>6
<1>11. CASE UNCHANGED vars
  BY <1>1, <1>11 DEF vars
<1> QED BY <1>5, <1>6, <1>7, <1>8, <1>9, <1>10, <1>11 DEF Next

\* Every byte behind the servers is as it was.
LEMMA OthersStay ==
  ASSUME NEW payload \in Payloads, NEW host \in Seq(Nat), ValidHost(host),
         NEW port \in Int, ValidPort(port)
  PROVE  SubSeq(Updated(payload, host, port), Password, PayloadSize) =
           SubSeq(payload, Password, PayloadSize)
<1> DEFINE updated == Updated(payload, host, port)
           from == 2 * HostSize + 6
           to == 2 * HostSize + 8
<1>1. /\ payload \in Seq(Bytes) /\ Len(payload) = PayloadSize
      /\ updated \in Seq(Bytes) /\ Len(updated) = PayloadSize
      /\ \A i \in 1..3 : updated[2 * HostSize + 5 + i] = payload[2 * HostSize + 5 + i]
  BY UpdatedIs DEF Payloads
<1>2. /\ Password = from /\ PayloadSize = to
      /\ from \in Nat \ {0} /\ to \in Nat /\ to = from + 2 /\ to - from + 1 = 3
      /\ \A i \in 1..3 : from + i - 1 = 2 * HostSize + 5 + i
  BY Sizes
<1> HIDE DEF updated, from, to
<1>3. from =< to + 1 /\ to =< Len(payload) /\ to =< Len(updated)
  BY <1>1, <1>2
<1>4. /\ SubSeq(payload, from, to) \in Seq(Bytes) /\ Len(SubSeq(payload, from, to)) = 3
      /\ \A i \in 1..3 : SubSeq(payload, from, to)[i] = payload[from + i - 1]
  BY <1>1, <1>2, <1>3, Slice
<1>5. /\ SubSeq(updated, from, to) \in Seq(Bytes) /\ Len(SubSeq(updated, from, to)) = 3
      /\ \A i \in 1..3 : SubSeq(updated, from, to)[i] = updated[from + i - 1]
  BY <1>1, <1>2, <1>3, Slice
<1>6. \A i \in 1..3 : SubSeq(updated, from, to)[i] = SubSeq(payload, from, to)[i]
  <2> TAKE i \in 1..3
  <2> DEFINE j == 2 * HostSize + 5 + i
  <2>1. from + i - 1 = j /\ updated[j] = payload[j]
    BY <1>1, <1>2
  <2> HIDE DEF j
  <2> QED BY <1>4, <1>5, <2>1
<1>7. SubSeq(updated, from, to) = SubSeq(payload, from, to)
  BY <1>4, <1>5, <1>6, SeqEqual
<1> QED BY <1>2, <1>7 DEF updated

\* An update that reports success has left the device reading the endpoint asked
\* for in both servers and every other byte as it was, and no endpoint that the
\* validation accepts fails to be encoded; if the frames that FrameBuffer puts
\* together are those that the device has sent (FramesAreGenuine, which depends
\* on the checksum and on what is lost).
THEOREM EndpointIsStored == Spec /\ []FramesAreGenuine => []EndpointStored
<1>1. Init => WrittenInv
  BY DEF Init, WrittenInv, Results
<1>2. UpdateInv /\ WrittenInv /\ FramesAreGenuine /\ [Next]_vars => WrittenInv'
  BY WrittenStep
<1>3. UpdateInv /\ WrittenInv => EndpointStored
  <2> SUFFICES ASSUME UpdateInv, WrittenInv, result \in {"written", "unchanged"}
               PROVE  /\ \A at \in {Server1, Server2} :
                           DeviceReads(stored, at) = Both(Host, asked.port)[at]
                      /\ stored[1] = plan.original[1]
                      /\ SubSeq(stored, Password, PayloadSize) =
                           SubSeq(plan.original, Password, PayloadSize)
    BY DEF UpdateInv, EndpointStored, Host
  <2>1. /\ plan.original \in Payloads /\ ValidHost(Host) /\ ValidPort(asked.port)
        /\ plan.updated = Updated(plan.original, Host, asked.port)
    BY DEF UpdateInv, PlanInv, IsPlan
  <2>2. Host \in Seq(Nat) /\ asked.port \in Int
    <3>1. asked \in [host : Hosts, port : Ports]
      BY DEF UpdateInv, TypeOK
    <3> QED BY <3>1, StripType DEF Host
  <2>3. \A at \in {Server1, Server2} :
          Both(Host, asked.port)[at] = [host |-> Host, port |-> asked.port]
    BY DEF Both
  <2>4. CASE result = "written"
    <3>1. stored = Updated(plan.original, Host, asked.port)
      BY <2>1, <2>4 DEF WrittenInv
    <3>2. \A at \in {Server1, Server2} :
            DeviceReads(stored, at) = [host |-> Host, port |-> asked.port]
      BY <2>1, <2>2, <3>1, UpdatedReads
    <3>3. stored[1] = plan.original[1]
      BY <2>1, <2>2, <3>1, UpdatedIs
    <3>4. SubSeq(stored, Password, PayloadSize) =
            SubSeq(plan.original, Password, PayloadSize)
      BY <2>1, <2>2, <3>1, OthersStay
    <3> QED BY <2>3, <3>2, <3>3, <3>4
  <2>5. CASE result = "unchanged"
    <3>1. stored = plan.original /\ Decoded(stored) = Both(Host, asked.port)
      BY <2>5 DEF UpdateInv, StoredInv, Changed, Host
    <3>2. \A at \in {Server1, Server2} :
            DeviceReads(stored, at) = [host |-> Host, port |-> asked.port]
      BY <2>1, <2>2, <3>1, UnchangedReads
    <3> QED BY <2>3, <3>1, <3>2
  <2> QED BY <2>4, <2>5
<1>4. QED BY <1>1, <1>2, <1>3, UpdateCorrect, PTL DEF Spec
===============================================================================

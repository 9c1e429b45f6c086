--------------------------- MODULE WifiServerProofs ---------------------------
(***************************************************************************)
(* Proofs about WifiServer, for any number of connections, requests and    *)
(* cancellations.                                                          *)
(***************************************************************************)
EXTENDS WifiServer, TLAPS

USE ServerAssumption

\* The session whose reply the client waits for.
Receiving(c) == client = "receiving" /\ session = c

NoReply(q) == q \in {<<>>, <<Closed>>}

\* Nothing is under way on a connection ...
Quiet(c) == sent[c] = answered[c] /\ wire[c] = <<>> /\ NoReply(queue[c])

\* ... or one reply is: with the device, on the wire, or in the queue.
OneReply(c) ==
  \/ Quiet(c)
  \/ sent[c] = answered[c] + 1 /\ wire[c] = <<>> /\ NoReply(queue[c])
  \/ sent[c] = answered[c] /\ wire[c] = <<sent[c]>> /\ NoReply(queue[c])
  \/ sent[c] = answered[c] /\ wire[c] = <<>> /\ queue[c] = <<sent[c]>>

\* A usable session that waits for nothing has nothing under way, and what a
\* handler leaves behind wakes whoever waits.
Channel(c) ==
  /\ OneReply(c)
  /\ ~poisoned[c] => Quiet(c) \/ Receiving(c)
  /\ Receiving(c) => ~poisoned[c]
  /\ queue[c] = <<Closed>> => handler[c] = "done"
  /\ handler[c] = "done" =>
       socket[c] = "closed" /\ (Receiving(c) => queue[c] # <<>>)

\* The current connection has a handler, and stopping has ended them all.
Live ==
  /\ current # None => handler[current] \in {"replacing", "reading"}
  /\ server = "stopped" => \A c \in Conns : handler[c] \in {"absent", "done"}

ServerInv ==
  /\ TypeOK /\ NeverSpins /\ Live
  /\ \A c \in Conns : Channel(c)

Items == 0..MaxRequests \union {Closed}

LEMMA ShortQueues ==
  /\ <<>> \in Seq(Items) /\ <<>> \in Seq(0..MaxRequests)
  /\ <<Closed>> \in Seq(Items)
  /\ \A n \in 0..MaxRequests : <<n>> \in Seq(Items) /\ <<n>> \in Seq(0..MaxRequests)
  /\ \A n \in 0..MaxRequests : <<n>> # <<Closed>> /\ <<n>> # <<>> /\ Tail(<<n>>) = <<>>
  /\ <<Closed>> # <<>>
<1> SUFFICES ASSUME NEW n \in 0..MaxRequests
             PROVE  /\ <<n>> \in Seq(Items) /\ <<n>> \in Seq(0..MaxRequests)
                    /\ <<n>> # <<Closed>> /\ <<n>> # <<>> /\ Tail(<<n>>) = <<>>
  BY DEF Items
<1>1. n # Closed
  OBVIOUS
<1>2. <<n>>[1] # <<Closed>>[1]
  BY <1>1
<1> QED BY <1>2 DEF Items

LEMMA InitInv == Init => ServerInv
<1> SUFFICES ASSUME Init PROVE ServerInv
  OBVIOUS
<1>1. TypeOK
  <2>1. queue \in [Conns -> Seq(Items)] /\ wire \in [Conns -> Seq(0..MaxRequests)]
    BY ShortQueues DEF Init
  <2>2. connected \in BOOLEAN /\ poisoned \in [Conns -> BOOLEAN]
    BY DEF Init
  <2> QED BY <2>1, <2>2 DEF Init, TypeOK, Items
<1>2. NeverSpins /\ Live
  BY DEF Init, NeverSpins, Live
<1>3. \A c \in Conns : Channel(c)
  BY DEF Init, Channel, OneReply, Quiet, NoReply, Receiving
<1> QED BY <1>1, <1>2, <1>3 DEF ServerInv

\* A connection that a step does not touch stays as it was.
LEMMA Untouched ==
  ASSUME NEW c \in Conns, Channel(c), Receiving(c)' <=> Receiving(c),
         UNCHANGED <<handler[c], socket[c], queue[c], wire[c], sent[c],
                     answered[c], poisoned[c]>>
  PROVE  Channel(c)'
BY DEF Channel, OneReply, Quiet, NoReply, Receiving

\* What the queue of a reader holds when a reply reaches it.
LEMMA QueueOf ==
  ASSUME ServerInv, NEW c \in Conns
  PROVE  /\ queue[c] \in {<<>>, <<Closed>>, <<sent[c]>>}
         /\ wire[c] \in {<<>>, <<sent[c]>>}
         /\ wire[c] # <<>> => NoReply(queue[c])
         /\ handler[c] # "done" => queue[c] # <<Closed>>
BY DEF ServerInv, Channel, OneReply, Quiet, NoReply

-----------------------------------------------------------------------------
(* The handlers                                                            *)

LEMMA AcceptKeepsInv ==
  ASSUME ServerInv, NEW c \in Conns, Accept(c) PROVE ServerInv'
<1> USE DEF peer, using
<1>1. /\ handler[c] = "absent" /\ server # "stopped" /\ current' = c /\ connected' = TRUE
      /\ handler' = [handler EXCEPT ![c] = IF current = None THEN "reading" ELSE "replacing"]
      /\ socket' = [d \in Conns |-> IF d \in {current} THEN "closed" ELSE socket[d]]
      /\ UNCHANGED <<queue, wire, sent, answered, poisoned, client, session, cancels, server>>
  BY DEF Accept, TakeOver, Shut
<1>2. TypeOK'
  BY <1>1 DEF ServerInv, TypeOK
<1>3. NeverSpins' /\ Live'
  BY <1>1 DEF ServerInv, TypeOK, NeverSpins, Live
<1>4. ASSUME NEW d \in Conns PROVE Channel(d)'
  <2>1. Channel(d) /\ handler \in [Conns -> {"absent", "replacing", "reading", "done"}]
    BY DEF ServerInv, TypeOK
  <2>2. socket'[d] \in {socket[d], "closed"}
    BY <1>1
  <2>3. CASE d = c
    <3>1. handler[d] # "done" /\ handler'[d] # "done"
      BY <1>1, <2>1, <2>3
    <3> QED BY <1>1, <2>1, <3>1 DEF Channel, OneReply, Quiet, NoReply, Receiving
  <2>4. CASE d # c
    <3>1. handler'[d] = handler[d]
      BY <1>1, <2>1, <2>4
    <3> QED BY <1>1, <2>1, <2>2, <3>1 DEF Channel, OneReply, Quiet, NoReply, Receiving
  <2> QED BY <2>3, <2>4
<1> QED BY <1>2, <1>3, <1>4 DEF ServerInv

LEMMA ReplacedKeepsInv ==
  ASSUME ServerInv, NEW c \in Conns, Replaced(c) PROVE ServerInv'
<1> USE DEF peer, using, Replaced
<1>1. TypeOK'
  BY DEF ServerInv, TypeOK
<1>2. NeverSpins' /\ Live'
  BY DEF ServerInv, TypeOK, NeverSpins, Live
<1>3. ASSUME NEW d \in Conns PROVE Channel(d)'
  BY DEF ServerInv, TypeOK, Channel, OneReply, Quiet, NoReply, Receiving
<1> QED BY <1>1, <1>2, <1>3 DEF ServerInv

LEMMA ReadKeepsInv ==
  ASSUME ServerInv, NEW c \in Conns, Read(c) PROVE ServerInv'
<1> USE DEF peer, using
<1>1. /\ handler[c] = "reading" /\ wire[c] # <<>>
      /\ queue' = [queue EXCEPT ![c] = Append(@, Head(wire[c]))]
      /\ wire' = [wire EXCEPT ![c] = Tail(@)]
      /\ UNCHANGED <<current, connected, handler, socket, sent, answered, poisoned,
                     client, session, cancels, server>>
  BY DEF Read
<1>2. wire[c] = <<sent[c]>> /\ queue[c] = <<>>
  BY <1>1, QueueOf DEF NoReply
<1>3. sent[c] = answered[c] /\ sent[c] \in 0..MaxRequests
  <2>1. Channel(c) /\ sent[c] \in 0..MaxRequests
    BY DEF ServerInv, TypeOK
  <2>2. wire[c] # <<>>
    BY <1>1
  <2> QED BY <2>1, <2>2 DEF Channel, OneReply, Quiet
<1>4. queue' = [queue EXCEPT ![c] = <<sent[c]>>] /\ wire' = [wire EXCEPT ![c] = <<>>]
  BY <1>1, <1>2
<1>5. TypeOK'
  <2>1. queue' \in [Conns -> Seq(Items)] /\ wire' \in [Conns -> Seq(0..MaxRequests)]
    BY <1>3, <1>4, ShortQueues DEF ServerInv, TypeOK, Items
  <2> QED BY <1>1, <2>1 DEF ServerInv, TypeOK, Items
<1>6. NeverSpins' /\ Live'
  BY <1>1 DEF ServerInv, NeverSpins, Live
<1>7. ASSUME NEW d \in Conns PROVE Channel(d)'
  <2>1. CASE d = c
    <3>1. queue'[c] = <<sent[c]>> /\ wire'[c] = <<>>
      BY <1>4 DEF ServerInv, TypeOK
    <3>2. ~Quiet(c)
      BY <1>2 DEF Quiet
    <3>3. sent[c] # Closed
      BY <1>3
    <3>4. <<sent[c]>> # <<Closed>> /\ <<sent[c]>> # <<>>
      BY <3>3
    <3>5. OneReply(c)'
      BY <1>1, <1>3, <3>1 DEF OneReply
    <3> QED BY <1>1, <2>1, <3>1, <3>2, <3>4, <3>5 DEF ServerInv, Channel, Receiving
  <2>2. CASE d # c
    BY <1>1, <1>4, <2>2, Untouched DEF ServerInv, TypeOK, Receiving
  <2> QED BY <2>1, <2>2
<1> QED BY <1>5, <1>6, <1>7 DEF ServerInv

LEMMA EndKeepsInv ==
  ASSUME ServerInv, NEW c \in Conns, End(c) PROVE ServerInv'
<1> USE DEF peer, using
<1>1. /\ handler[c] = "reading"
      /\ queue' = [queue EXCEPT ![c] = LastItems(@)]
      /\ handler' = [handler EXCEPT ![c] = "done"]
      /\ socket' = [d \in Conns |-> IF d \in {c} THEN "closed" ELSE socket[d]]
      /\ UNCHANGED <<wire, sent, answered, poisoned, client, session, cancels, server>>
  BY DEF End, Shut
<1>2. \/ queue[c] = <<>> /\ queue'[c] = <<Closed>>
      \/ queue[c] = <<sent[c]>> /\ queue'[c] = <<sent[c]>>
  <2>1. queue[c] \in {<<>>, <<sent[c]>>} /\ sent[c] \in 0..MaxRequests
    BY <1>1, QueueOf DEF ServerInv, TypeOK
  <2>2. queue'[c] = LastItems(queue[c])
    BY <1>1 DEF ServerInv, TypeOK
  <2>3. <<sent[c]>> # <<>>
    BY <2>1, ShortQueues
  <2>4. CASE queue[c] = <<>>
    <3>1. LastItems(<<>>) = <<Closed>>
      BY DEF LastItems
    <3> QED BY <2>2, <2>4, <3>1
  <2>5. CASE queue[c] = <<sent[c]>>
    <3>1. queue[c] # <<>>
      BY <2>3, <2>5
    <3> QED BY <2>2, <2>5, <3>1 DEF LastItems
  <2> QED BY <2>1, <2>4, <2>5
<1>3. TypeOK'
  <2>1. queue'[c] \in Seq(Items)
    <3>1. sent[c] \in 0..MaxRequests
      BY DEF ServerInv, TypeOK
    <3>2. <<sent[c]>> \in Seq(Items) /\ <<Closed>> \in Seq(Items)
      BY <3>1, ShortQueues
    <3> QED BY <1>2, <3>2
  <2>2. queue' = [queue EXCEPT ![c] = queue'[c]]
    BY <1>1 DEF ServerInv, TypeOK
  <2>3. queue' \in [Conns -> Seq(Items)]
    BY <2>1, <2>2 DEF ServerInv, TypeOK, Items
  <2> QED BY <1>1, <2>3 DEF Items, End, Leaves, Clear, ServerInv, TypeOK
<1>4. NeverSpins' /\ Live'
  BY <1>1 DEF End, Leaves, Clear, ServerInv, TypeOK, NeverSpins, Live
<1>5. ASSUME NEW d \in Conns PROVE Channel(d)'
  <2>1. CASE d = c
    <3>1. handler'[c] = "done" /\ socket'[c] = "closed"
      BY <1>1 DEF ServerInv, TypeOK
    <3>2. OneReply(c)' /\ (Quiet(c) => Quiet(c)')
      BY <1>1, <1>2 DEF ServerInv, Channel, OneReply, Quiet, NoReply
    <3> QED BY <1>1, <1>2, <2>1, <3>1, <3>2 DEF ServerInv, Channel, Receiving
  <2>2. CASE d # c
    BY <1>1, <2>2, Untouched DEF ServerInv, TypeOK, Receiving
  <2> QED BY <2>1, <2>2
<1> QED BY <1>3, <1>4, <1>5 DEF ServerInv

-----------------------------------------------------------------------------
(* The device                                                              *)

LEMMA AnswerKeepsInv ==
  ASSUME ServerInv, NEW c \in Conns, Answer(c) PROVE ServerInv'
<1> USE DEF peer, using
<1>1. /\ answered[c] < sent[c]
      /\ answered' = [answered EXCEPT ![c] = @ + 1]
      /\ wire' = [wire EXCEPT ![c] = Append(@, answered[c] + 1)]
      /\ UNCHANGED <<current, connected, handler, socket, queue, sent, poisoned,
                     client, session, cancels, server>>
  BY DEF Answer
<1>2. sent[c] \in 0..MaxRequests /\ answered[c] \in 0..MaxRequests /\ Channel(c)
  BY DEF ServerInv, TypeOK
<1>3. sent[c] = answered[c] + 1 /\ wire[c] = <<>> /\ NoReply(queue[c]) /\ ~Quiet(c)
  BY <1>1, <1>2 DEF Channel, OneReply, Quiet
<1>4. wire' = [wire EXCEPT ![c] = <<sent[c]>>]
  BY <1>1, <1>3
<1>5. TypeOK'
  BY <1>1, <1>2, <1>3, <1>4 DEF ServerInv, TypeOK
<1>6. NeverSpins' /\ Live'
  BY <1>1 DEF ServerInv, NeverSpins, Live
<1>7. ASSUME NEW d \in Conns PROVE Channel(d)'
  <2>1. CASE d = c
    <3>1. answered'[c] = sent[c] /\ wire'[c] = <<sent[c]>>
      BY <1>1, <1>3, <1>4 DEF ServerInv, TypeOK
    <3>2. OneReply(c)'
      BY <1>1, <1>3, <3>1 DEF OneReply, NoReply
    <3> QED BY <1>1, <1>2, <1>3, <2>1, <3>2 DEF Channel, Receiving
  <2>2. CASE d # c
    BY <1>1, <1>4, <2>2, Untouched DEF ServerInv, TypeOK, Receiving
  <2> QED BY <2>1, <2>2
<1> QED BY <1>5, <1>6, <1>7 DEF ServerInv

LEMMA DropKeepsInv ==
  ASSUME ServerInv, NEW c \in Conns, Drop(c) PROVE ServerInv'
<1> USE DEF peer, using
<1>1. /\ socket' = [d \in Conns |-> IF d \in {c} THEN "closed" ELSE socket[d]]
      /\ wire' \in {wire, [wire EXCEPT ![c] = <<>>]}
      /\ UNCHANGED <<current, connected, handler, queue, sent, answered, poisoned,
                     client, session, cancels, server>>
  BY DEF Drop, Shut
<1>2. TypeOK'
  <2>1. wire' \in [Conns -> Seq(0..MaxRequests)]
    BY <1>1, ShortQueues DEF ServerInv, TypeOK
  <2> QED BY <1>1, <2>1 DEF ServerInv, TypeOK
<1>3. NeverSpins' /\ Live'
  BY <1>1 DEF ServerInv, NeverSpins, Live
<1>4. ASSUME NEW d \in Conns PROVE Channel(d)'
  <2>1. wire'[d] \in {wire[d], <<>>} /\ socket'[d] \in {socket[d], "closed"}
    BY <1>1 DEF ServerInv, TypeOK
  <2>2. OneReply(d)' /\ (Quiet(d) => Quiet(d)')
    BY <1>1, <2>1 DEF ServerInv, Channel, OneReply, Quiet, NoReply
  <2> QED BY <1>1, <2>1, <2>2 DEF ServerInv, Channel, Receiving
<1> QED BY <1>2, <1>3, <1>4 DEF ServerInv

-----------------------------------------------------------------------------
(* The transactions                                                        *)

\* Steps that move only the client, and not from or to a wait for a reply.
LEMMA ClientMoves ==
  ASSUME ServerInv, Start \/ Got \/ GetTimeout \/ DiscardEnds
  PROVE  ServerInv'
<1> USE DEF peer, using
<1>1. /\ client # "receiving" /\ client' # "receiving"
      /\ UNCHANGED <<current, connected, handler, socket, queue, wire, sent, answered,
                     poisoned, server, cancels>>
  BY DEF Start, Got, GetTimeout, DiscardEnds
<1>2. TypeOK'
  <2>1. CASE Start
    BY <1>1, <2>1 DEF Start, ServerInv, TypeOK
  <2>2. CASE Got
    BY <1>1, <2>2 DEF Got, Available, ServerInv, TypeOK
  <2>3. CASE GetTimeout
    BY <1>1, <2>3 DEF GetTimeout, ServerInv, TypeOK
  <2>4. CASE DiscardEnds
    BY <1>1, <2>4 DEF DiscardEnds, ServerInv, TypeOK
  <2> QED BY <2>1, <2>2, <2>3, <2>4
<1>3. NeverSpins' /\ Live'
  BY <1>1 DEF ServerInv, NeverSpins, Live
<1>4. ASSUME NEW c \in Conns PROVE Channel(c)'
  BY <1>1, Untouched DEF ServerInv, Receiving
<1> QED BY <1>2, <1>3, <1>4 DEF ServerInv

LEMMA SendKeepsInv ==
  ASSUME ServerInv, Send PROVE ServerInv'
<1> USE DEF peer, using
<1>1. /\ client = "sending" /\ client' = "receiving"
      /\ ~poisoned[session] /\ socket[session] = "open" /\ sent[session] < MaxRequests
      /\ sent' = [sent EXCEPT ![session] = @ + 1]
      /\ UNCHANGED <<current, connected, handler, socket, queue, wire, answered,
                     poisoned, session, server, cancels>>
  BY DEF Send, Usable
<1>2. session \in Conns /\ sent[session] \in 0..MaxRequests
  BY <1>1 DEF ServerInv, TypeOK
<1>3. TypeOK'
  <2>1. sent' \in [Conns -> 0..MaxRequests]
    BY <1>1, <1>2 DEF ServerInv, TypeOK
  <2> QED BY <1>1, <1>2, <2>1 DEF ServerInv, TypeOK
<1>4. NeverSpins' /\ Live'
  BY <1>1 DEF ServerInv, NeverSpins, Live
<1>5. ASSUME NEW c \in Conns PROVE Channel(c)'
  <2>1. CASE c = session
    <3>1. Channel(c) /\ Quiet(c) /\ handler[c] # "done"
      BY <1>1, <2>1 DEF ServerInv, Channel, Receiving
    <3>2. sent'[c] = answered[c] + 1
      BY <1>1, <1>2, <2>1, <3>1 DEF Quiet, ServerInv, TypeOK
    <3>3. OneReply(c)'
      BY <1>1, <3>1, <3>2 DEF OneReply, Quiet, NoReply
    <3> QED BY <1>1, <2>1, <3>1, <3>3 DEF Channel, Receiving
  <2>2. CASE c # session
    BY <1>1, <1>2, <2>2, Untouched DEF ServerInv, TypeOK, Receiving
  <2> QED BY <2>1, <2>2
<1> QED BY <1>3, <1>4, <1>5 DEF ServerInv

\* Taking the reply leaves nothing under way.
LEMMA Taken ==
  ASSUME ServerInv, client = "receiving", queue[session] # <<>>,
         Head(queue[session]) # Closed,
         queue' = [queue EXCEPT ![session] = Tail(@)],
         UNCHANGED <<handler, wire, sent, answered, poisoned>>,
         socket' \in [Conns -> {"open", "closed"}],
         \A c \in Conns : socket[c] = "closed" => socket'[c] = "closed",
         session' = session \/ client' = "idle", client' # "receiving"
  PROVE  /\ queue' \in [Conns -> Seq(Items)]
         /\ \A c \in Conns : Channel(c)'
<1>1. session \in Conns /\ sent[session] \in 0..MaxRequests
  BY DEF ServerInv, TypeOK
<1>2. Channel(session) /\ ~poisoned[session]
  BY <1>1 DEF ServerInv, Channel, Receiving
<1>3. queue[session] = <<sent[session]>>
  <2>1. Head(<<Closed>>) = Closed
    OBVIOUS
  <2> QED BY <1>1, <2>1, QueueOf
<1>4. <<sent[session]>> # <<Closed>> /\ <<sent[session]>> # <<>> /\ Tail(<<sent[session]>>) = <<>>
  BY <1>1, ShortQueues
<1>5. queue' = [queue EXCEPT ![session] = <<>>]
  BY <1>3, <1>4
<1>6. queue' \in [Conns -> Seq(Items)]
  BY <1>5, ShortQueues DEF ServerInv, TypeOK, Items
<1>7. ASSUME NEW c \in Conns PROVE Channel(c)'
  <2>1. CASE c = session
    <3>1. sent[c] = answered[c] /\ wire[c] = <<>>
      BY <1>2, <1>3, <1>4, <2>1 DEF Channel, OneReply, Quiet, NoReply
    <3>2. queue'[c] = <<>>
      BY <1>1, <1>5, <2>1 DEF ServerInv, TypeOK
    <3>3. Quiet(c)'
      BY <3>1, <3>2 DEF Quiet, NoReply
    <3>4. <<>> # <<Closed>>
      BY ShortQueues
    <3> QED BY <1>2, <2>1, <3>2, <3>3, <3>4 DEF Channel, OneReply, Receiving
  <2>2. CASE c # session
    <3>1. queue'[c] = queue[c]
      BY <1>5, <2>2 DEF ServerInv, TypeOK
    <3> QED BY <1>1, <2>2, <3>1
            DEF ServerInv, Channel, OneReply, Quiet, NoReply, Receiving
  <2> QED BY <2>1, <2>2
<1> QED BY <1>6, <1>7

LEMMA ReceiveKeepsInv ==
  ASSUME ServerInv, Receive PROVE ServerInv'
<1> USE DEF peer, using
<1>1. /\ queue' \in [Conns -> Seq(Items)]
      /\ \A c \in Conns : Channel(c)'
  BY Taken DEF Receive, ServerInv, TypeOK
<1>2. TypeOK'
  BY <1>1 DEF Receive, ServerInv, TypeOK, Items
<1>3. NeverSpins' /\ Live'
  BY DEF Receive, ServerInv, NeverSpins, Live
<1> QED BY <1>1, <1>2, <1>3 DEF ServerInv

\* Discarding closes the session's connection if it is the current one.
LEMMA DiscardedKeeps ==
  ASSUME ServerInv, Discarded, UNCHANGED <<handler, server>>
  PROVE  /\ current' \in Conns \union {None} /\ connected' \in BOOLEAN
         /\ socket' \in [Conns -> {"open", "closed"}]
         /\ \A c \in Conns : socket[c] = "closed" => socket'[c] = "closed"
         /\ NeverSpins' /\ Live'
<1>1. CASE current = session
  <2>1. Clear /\ Shut({session})
    BY <1>1 DEF Discarded
  <2> QED BY <2>1 DEF Clear, Shut, ServerInv, TypeOK, NeverSpins, Live
<1>2. CASE current # session
  <2>1. UNCHANGED <<current, connected, socket>>
    BY <1>2 DEF Discarded
  <2> QED BY <2>1 DEF ServerInv, TypeOK, NeverSpins, Live
<1> QED BY <1>1, <1>2

LEMMA RejectKeepsInv ==
  ASSUME ServerInv, RejectReply PROVE ServerInv'
<1> USE DEF peer, using
<1>1. /\ current' \in Conns \union {None} /\ connected' \in BOOLEAN
      /\ socket' \in [Conns -> {"open", "closed"}]
      /\ \A c \in Conns : socket[c] = "closed" => socket'[c] = "closed"
      /\ NeverSpins' /\ Live'
  BY DiscardedKeeps DEF RejectReply
<1>2. /\ queue' \in [Conns -> Seq(Items)]
      /\ \A c \in Conns : Channel(c)'
  BY <1>1, Taken DEF RejectReply
<1>3. TypeOK'
  BY <1>1, <1>2 DEF RejectReply, ServerInv, TypeOK, Items
<1> QED BY <1>1, <1>2, <1>3 DEF ServerInv

\* A session that is poisoned keeps what is under way on its connection.
LEMMA Poisoning ==
  ASSUME ServerInv, session \in Conns, client' # "receiving",
         poisoned' = [poisoned EXCEPT ![session] = TRUE],
         UNCHANGED <<handler, queue, wire, sent, answered>>,
         \A c \in Conns : socket[c] = "closed" => socket'[c] = "closed"
  PROVE  \A c \in Conns : Channel(c)'
<1> SUFFICES ASSUME NEW c \in Conns PROVE Channel(c)'
  OBVIOUS
<1>1. CASE c = session
  <2>1. poisoned'[c]
    BY <1>1 DEF ServerInv, TypeOK
  <2> QED BY <2>1 DEF ServerInv, Channel, OneReply, Quiet, NoReply, Receiving
<1>2. CASE c # session
  <2>1. poisoned'[c] = poisoned[c]
    BY <1>2 DEF ServerInv, TypeOK
  <2> QED BY <1>2, <2>1 DEF ServerInv, Channel, OneReply, Quiet, NoReply, Receiving
<1> QED BY <1>1, <1>2

LEMMA RequestFailsKeepsInv ==
  ASSUME ServerInv, RequestFails PROVE ServerInv'
<1> USE DEF peer, using
<1>1. /\ current' \in Conns \union {None} /\ connected' \in BOOLEAN
      /\ socket' \in [Conns -> {"open", "closed"}]
      /\ \A c \in Conns : socket[c] = "closed" => socket'[c] = "closed"
      /\ NeverSpins' /\ Live'
  BY DiscardedKeeps DEF RequestFails
<1>2. session \in Conns
  BY DEF RequestFails, ServerInv, TypeOK
<1>3. \A c \in Conns : Channel(c)'
  BY <1>1, <1>2, Poisoning DEF RequestFails
<1>4. TypeOK'
  BY <1>1, <1>2 DEF RequestFails, ServerInv, TypeOK
<1> QED BY <1>1, <1>3, <1>4 DEF ServerInv

LEMMA CancelKeepsInv ==
  ASSUME ServerInv, Cancel PROVE ServerInv'
<1> USE DEF peer, using
<1>1. /\ client \in {"getting", "sending", "receiving"}
      /\ cancels < MaxCancels /\ cancels' = cancels + 1
      /\ poisoned' = IF client = "getting" THEN poisoned
                     ELSE [poisoned EXCEPT ![session] = TRUE]
      /\ client' = "idle" /\ session' = None
      /\ UNCHANGED <<current, connected, handler, socket, queue, wire, sent,
                     answered, server>>
  BY DEF Cancel
<1>2. TypeOK'
  BY <1>1 DEF ServerInv, TypeOK
<1>3. NeverSpins' /\ Live'
  BY <1>1 DEF ServerInv, NeverSpins, Live
<1>4. \A c \in Conns : Channel(c)'
  <2>1. CASE client = "getting"
    BY <1>1, <2>1, Untouched DEF ServerInv, Receiving
  <2>2. CASE client # "getting"
    <3>1. session \in Conns
      BY <1>1, <2>2 DEF ServerInv, TypeOK
    <3> QED BY <1>1, <2>2, <3>1, Poisoning
  <2> QED BY <2>1, <2>2
<1> QED BY <1>2, <1>3, <1>4 DEF ServerInv

-----------------------------------------------------------------------------
(* Stopping                                                                *)

LEMMA StopKeepsInv ==
  ASSUME ServerInv, Stop \/ CleanedUp PROVE ServerInv'
<1> USE DEF peer, using
<1>1. /\ current' \in {current, None} /\ NeverSpins' /\ Live'
  BY DEF Stop, CleanedUp, Clear, ServerInv, TypeOK, NeverSpins, Live
<1>2. /\ socket' \in [Conns -> {"open", "closed"}]
      /\ \A c \in Conns : socket[c] = "closed" => socket'[c] = "closed"
  BY DEF Stop, CleanedUp, Shut, ServerInv, TypeOK
<1>3. UNCHANGED <<handler, queue, wire, sent, answered, poisoned, client, session, cancels>>
  BY DEF Stop, CleanedUp
<1>4. TypeOK'
  BY <1>1, <1>2, <1>3 DEF Stop, CleanedUp, Clear, ServerInv, TypeOK
<1>5. ASSUME NEW c \in Conns PROVE Channel(c)'
  BY <1>2, <1>3 DEF ServerInv, Channel, OneReply, Quiet, NoReply, Receiving
<1> QED BY <1>1, <1>4, <1>5 DEF ServerInv

LEMMA NextInv == ServerInv /\ [Next]_vars => ServerInv'
<1> SUFFICES ASSUME ServerInv, [Next]_vars PROVE ServerInv'
  OBVIOUS
<1>1. CASE UNCHANGED vars
  BY <1>1 DEF vars, ServerInv, TypeOK, NeverSpins, Live, Channel, OneReply, Quiet,
     NoReply, Receiving
<1> QED
  BY <1>1, AcceptKeepsInv, ReplacedKeepsInv, ReadKeepsInv, EndKeepsInv,
     AnswerKeepsInv, DropKeepsInv, ClientMoves, SendKeepsInv, ReceiveKeepsInv,
     RejectKeepsInv, RequestFailsKeepsInv, CancelKeepsInv, StopKeepsInv
  DEF Next

\* The inductive invariant of the listener of the integration.
THEOREM ServerCorrect == Spec => []ServerInv
  BY InitInv, NextInv, PTL DEF Spec

\* Type correctness: a transaction past async_session has a session, and nobody
\* else does.
THEOREM ServerTypes == Spec => []TypeOK
<1>1. ServerInv => TypeOK
  BY DEF ServerInv
<1> QED BY <1>1, ServerCorrect, PTL

\* The event and the session always agree, so async_session never spins.
THEOREM WaitingSuspends == Spec => []NeverSpins
<1>1. ServerInv => NeverSpins
  BY DEF ServerInv
<1> QED BY <1>1, ServerCorrect, PTL

\* Whatever was abandoned or replaced, a request is answered by its own reply.
THEOREM ReplyIsOwn == Spec => []OwnReply
<1>1. ASSUME ServerInv PROVE OwnReply
  <2> SUFFICES ASSUME client = "receiving", NEW i \in 1..Len(queue[session])
               PROVE  queue[session][i] \in {sent[session], Closed}
    BY DEF OwnReply
  <2>1. session \in Conns
    BY <1>1 DEF ServerInv, TypeOK
  <2>2. queue[session] \in {<<>>, <<Closed>>, <<sent[session]>>}
    BY <1>1, <2>1, QueueOf
  <2> QED BY <2>2
<1> QED BY <1>1, ServerCorrect, PTL

\* Two places are enough: neither the handler nor the client is ever stuck at
\* the queue between them.
THEOREM QueueIsNeverStuck == Spec => []QueueNeverStuck
<1>1. ASSUME ServerInv PROVE PutNeverWaits
  <2> SUFFICES ASSUME NEW c \in Conns, handler[c] = "reading", wire[c] # <<>>
               PROVE  Len(queue[c]) < 2
    BY DEF PutNeverWaits, HasRoom
  <2>1. queue[c] \in {<<>>, <<Closed>>, <<sent[c]>>}
    BY <1>1, QueueOf
  <2>2. Len(<<>>) < 2 /\ Len(<<Closed>>) < 2 /\ Len(<<sent[c]>>) < 2
    OBVIOUS
  <2> QED BY <2>1, <2>2
<1>2. ASSUME ServerInv PROVE ReceiverWoken
  BY <1>2 DEF ServerInv, TypeOK, Channel, Receiving, ReceiverWoken
<1>3. ServerInv => QueueNeverStuck
  BY <1>1, <1>2 DEF QueueNeverStuck
<1> QED BY <1>3, ServerCorrect, PTL

\* A stopped server has no session, whenever the device connected.
THEOREM StopIsClean == Spec => []StopLeavesNothing
<1>1. ServerInv => StopLeavesNothing
  BY DEF ServerInv, TypeOK, NeverSpins, Live, StopLeavesNothing
<1> QED BY <1>1, ServerCorrect, PTL

\* Nobody but its handler, its user or the end of the server takes the current
\* session away.
THEOREM NewestIsKept == Spec => NewestKept
<1>1. ASSUME ServerInv, [Next]_vars, current # None, current' = None
      PROVE  \/ handler'[current] # handler[current]
             \/ client' = "discarding" /\ session = current
             \/ server' # server
  <2>1. ASSUME NEW c \in Conns, Accept(c) PROVE FALSE
    BY <1>1, <2>1 DEF Accept, TakeOver
  <2>2. ASSUME NEW c \in Conns, End(c) PROVE handler'[current] # handler[current]
    BY <1>1, <2>2 DEF End, Leaves, Clear, ServerInv, TypeOK
  <2>3. ASSUME NEW c \in Conns, Replaced(c) \/ Read(c) \/ Answer(c) \/ Drop(c) PROVE FALSE
    BY <1>1, <2>3 DEF Replaced, Read, Answer, Drop
  <2>4. CASE RequestFails \/ RejectReply
    BY <1>1, <2>4 DEF RequestFails, RejectReply, Discarded
  <2>5. CASE Stop
    BY <2>5 DEF Stop
  <2>6. CASE Start \/ Got \/ GetTimeout \/ Send \/ Receive \/ DiscardEnds \/ Cancel \/ CleanedUp
    BY <1>1, <2>6 DEF Start, Got, GetTimeout, Send, Receive, DiscardEnds, Cancel, CleanedUp
  <2>7. CASE UNCHANGED vars
    BY <1>1, <2>7 DEF vars
  <2> QED BY <1>1, <2>1, <2>2, <2>3, <2>4, <2>5, <2>6, <2>7 DEF Next
<1>2. ServerInv /\ [Next]_vars =>
        [current # None /\ current' = None =>
           \/ handler'[current] # handler[current]
           \/ client' = "discarding" /\ session = current
           \/ server' # server]_vars
  BY <1>1
<1> QED BY <1>2, ServerCorrect, PTL DEF Spec, NewestKept
=============================================================================

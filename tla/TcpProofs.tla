----------------------------- MODULE TcpProofs -----------------------------
(* What every socket call of Tcp does to a connection is a connection. *)
EXTENDS Tcp, TLAPS, SequenceTheorems

\* An element of a sequence over a set is in the set.
LEMMA InSeq == ASSUME NEW S, NEW q \in Seq(S), NEW n \in DOMAIN q PROVE q[n] \in S
<1>1. n \in 1 .. Len(q)
  OBVIOUS
<1> QED
  BY <1>1, ElementOfSeq

\* A request is a message.
LEMMA RequestType == ASSUME NEW b \in Blocks
                     PROVE  Request(b) \in Message /\ Ok(b) \in Message
  BY WireAssumption DEF Request, Ok, Message, Blocks, MSG_REQUEST, MSG_RESPONSE_OK,
                        MSG_RESPONSE_NA

\* What is read across two requests is typed as a message.
LEMMA GarbageType == Garbage \in Message
  BY WireAssumption DEF Garbage, Message, MSG_REQUEST, MSG_RESPONSE_OK, MSG_RESPONSE_NA

\* A request is two halves.
LEMMA HalvesType == ASSUME NEW m \in Message
                    PROVE  /\ Halves(m) \in Seq(Half)
                           /\ Halves(m)[1] \in Half
                           /\ Halves(m)[2] \in Half
  BY DEF Halves, Half

\* A block's data is a sequence of units.
LEMMA DataType == ASSUME NEW b \in Blocks
                  PROVE  Data(b) \in Seq(Unit) /\ Len(Data(b)) = BlockUnits
<1>1. Data(b) \in [1 .. BlockUnits -> Piece]
  BY WireAssumption DEF Data, Piece, Blocks
<1>2. Data(b) \in Seq(Piece) /\ Len(Data(b)) = BlockUnits
  BY <1>1, WireAssumption
<1> QED
  BY <1>2 DEF Unit

\* The fields of a connection and their types.
LEMMA LinkFields == ASSUME NEW t \in Link
                    PROVE  /\ t.up \in Seq(Half) /\ t.late \in Seq(Half)
                           /\ t.down \in Seq(Unit)
                           /\ t.asked \in Seq(0 .. BlockCount)
                           /\ t.answered \in Seq(0 .. BlockCount)
  BY DEF Link

\* connect yields a connection.
LEMMA ConnectedType == ASSUME NEW t \in Link PROVE Connected(t) \in Link
  BY DEF Connected, Link

\* A request sent, in one piece or two, yields connections.
LEMMA SentType == ASSUME NEW t \in Link, NEW m \in Message
                  PROVE  Sent(t, m) \subseteq Link
<1> DEFINE q == [t EXCEPT !.asked = Append(@, m.block)]
<1>1. Append(t.asked, m.block) \in Seq(0 .. BlockCount)
  <2>1. m.block \in 0 .. BlockCount
    BY DEF Message
  <2> QED
    BY <2>1, LinkFields
<1>2. q \in Link
  BY <1>1 DEF Link
<1> HIDE DEF q
<1> DEFINE h == Halves(m)
<1>3. h \in Seq(Half) /\ h[1] \in Half /\ h[2] \in Half
  BY HalvesType
<1> HIDE DEF h
<1>4. /\ q.late \o h \in Seq(Half)
      /\ q.up \o h \in Seq(Half)
      /\ Append(q.up, h[1]) \in Seq(Half)
      /\ << h[2] >> \in Seq(Half)
  <2>1. q.late \in Seq(Half) /\ q.up \in Seq(Half)
    BY <1>2, LinkFields
  <2> QED
    BY <1>3, <2>1
<1>5. /\ [q EXCEPT !.late = @ \o h] \in Link
      /\ [q EXCEPT !.up = @ \o h] \in Link
      /\ [q EXCEPT !.up = Append(@, h[1]), !.late = << h[2] >>] \in Link
  BY <1>2, <1>4 DEF Link
<1> QED
  BY <1>5 DEF Sent, q, h

\* The arrival of a late half yields a connection.
LEMMA ArrivedType == ASSUME NEW t \in Link, t.late # << >> PROVE Arrived(t) \in Link
<1>1. Append(t.up, Head(t.late)) \in Seq(Half) /\ Tail(t.late) \in Seq(Half)
  BY LinkFields, HeadTailProperties
<1> QED
  BY <1>1 DEF Arrived, Link

\* A close by the client yields a connection.
LEMMA ClosedByClientType == ASSUME NEW t \in Link PROVE ClosedByClient(t) \in Link
<1>1. << >> \in Seq(Half) /\ << >> \in Seq(Unit)
  OBVIOUS
<1> QED
  BY <1>1 DEF ClosedByClient, Link

\* accept yields a connection.
LEMMA AcceptedType == ASSUME NEW t \in Link PROVE Accepted(t) \in Link
  BY DEF Accepted, Link

\* Units written by the server yield a connection.
LEMMA WrittenType == ASSUME NEW t \in Link, NEW units \in Seq(Unit)
                     PROVE  Written(t, units) \in Link
<1>1. t.down \o units \in Seq(Unit) /\ << >> \in Seq(Half)
  BY LinkFields
<1> QED
  BY <1>1 DEF Written, Link

\* A close by the server yields a connection.
LEMMA ClosedByServerType == ASSUME NEW t \in Link PROVE ClosedByServer(t) \in Link
<1>1. << >> \in Seq(Half)
  OBVIOUS
<1> QED
  BY <1>1 DEF ClosedByServer, Link

\* What a full read of 13 bytes returns is a message.
LEMMA RecvMessageType == ASSUME NEW t \in Link, RecvResult(t) = "full"
                         PROVE  RecvMessage(t) \in Message
<1>1. Len(t.up) >= 2
  BY DEF RecvResult
<1>2. t.up[1] \in Half
  BY <1>1, LinkFields
<1> QED
  BY <1>2, GarbageType DEF RecvMessage, Half

\* A read by the server yields a connection.
LEMMA ReceivedType == ASSUME NEW t \in Link PROVE Received(t) \in Link
<1> DEFINE rest == IF Len(t.up) >= 2 THEN Tail(Tail(t.up)) ELSE << >>
<1>1. rest \in Seq(Half)
  <2>1. ASSUME Len(t.up) >= 2 PROVE Tail(Tail(t.up)) \in Seq(Half)
    <3>1. t.up # << >>
      BY <2>1, LinkFields
    <3>2. Tail(t.up) \in Seq(Half) /\ Len(Tail(t.up)) = Len(t.up) - 1
      BY <3>1, LinkFields, HeadTailProperties
    <3>3. Len(t.up) - 1 >= 1
      BY <2>1, LinkFields, LenProperties
    <3>4. ASSUME NEW s \in Seq(Half), Len(s) >= 1 PROVE s # << >>
      BY <3>4
    <3>5. Len(Tail(t.up)) >= 1
      BY <3>2, <3>3
    <3> QED
      BY <3>2, <3>4, <3>5, HeadTailProperties
  <2> QED
    BY <2>1
<1>2. t.cli \in {"none", "open", "fin", "rst", "gone"}
  BY DEF Link
<1> HIDE DEF rest
<1>3. [t EXCEPT !.up = rest,
                !.cli = IF Len(t.up) < 2 /\ @ = "rst" THEN "gone" ELSE @] \in Link
  BY <1>1, <1>2 DEF Link
<1> QED
  BY <1>3 DEF Received, rest

\* utils.h's send loop, finished or cut off, yields a connection.
LEMMA SendAllType == ASSUME NEW t \in Link, NEW units \in Seq(Unit),
                            NEW n \in 1 .. Len(units), NEW b \in 0 .. BlockCount
                     PROVE  SendAll(t, units, n, b) \in Link
<1> DEFINE w == Written(t, SubSeq(units, 1, n))
<1>1. SubSeq(units, 1, n) \in Seq(Unit)
  OBVIOUS
<1>2. w \in Link
  BY <1>1, WrittenType
<1> HIDE DEF w
<1>3. w.answered \in Seq(0 .. BlockCount) /\ Append(w.answered, b) \in Seq(0 .. BlockCount)
  BY <1>2, LinkFields
<1>4. [w EXCEPT !.answered = IF t.cli = "open" THEN Append(@, b) ELSE @] \in Link
  BY <1>2, <1>3 DEF Link
<1> QED
  BY <1>4 DEF SendAll, w
=============================================================================

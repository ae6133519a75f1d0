------------------------- MODULE OpenClientProofs -------------------------
(***************************************************************************)
(* The client with peers that send anything: type correctness, the truth   *)
(* of block_map, the sockets, what stays on the disk and what is asked for.*)
(***************************************************************************)
EXTENDS OpenClient, ClientProofs

\* A connection a client in state s has not come to yet, and the blocks asked for on
\* the one it is on: they come before the block it is at.
Unused(s, k) == \/ k[2] > s.run
                \/ k[2] = s.run /\ (k[3] > s.peer \/ (k[3] = s.peer /\ s.at = "connect"))
Waiting(s) == s.at \in OnConnection \ {"leave"}
Ascends(s, asked) == Waiting(s) =>
    \A n \in DOMAIN asked : asked[n] <= s.block /\ (s.at = "request" => asked[n] < s.block)

AskedOK == \A k \in Conns :
    /\ Unused(client[k[1]], k) => net[k].asked = << >>
    /\ k = Conn(k[1]) => Ascends(client[k[1]], net[k].asked)

\* What peers do leaves the ends of the clients as they are.
LEMMA PeersNextInv == ASSUME ClientInv, PeersNext PROVE ClientInv'
<1>1. net \in [Conns -> Link]
  BY DEF ClientInv, ClientTypeOK
<1>2. PICK k \in Conns : Serve(k) \/ Babble(k) \/ HangUp(k)
  BY DEF PeersNext
<1>3. net[k] \in Link
  BY <1>1
<1>4. PICK link \in Link : PeerMoves(k, link) /\ link.cli = net[k].cli
  <2>1. CASE Serve(k)
    <3> DEFINE b == net[k].asked[Len(net[k].asked)]
               from == [net[k] EXCEPT !.up = << >>]
    <3>1. /\ net[k].cli = "open" /\ Len(net[k].asked) > Len(net[k].answered)
          /\ \E units \in IF b \in Holds[PeerOf(k)] THEN {<< Ok(b) >> \o Data(b)}
                          ELSE {<< [Garbage EXCEPT !.code = MSG_RESPONSE_NA] >>} :
                PeerMoves(k, SendAll(from, units, Len(units), b))
      BY <2>1 DEF Serve
    <3>2. b \in 0 .. BlockCount
      <4>1. /\ net[k].asked \in Seq(0 .. BlockCount)
            /\ net[k].answered \in Seq(0 .. BlockCount)
        BY <1>3, LinkFields
      <4>2. Len(net[k].asked) \in 1 .. Len(net[k].asked)
        BY <3>1, <4>1, LenProperties
      <4> QED
        BY <4>1, <4>2, ElementOfSeq
    <3> HIDE DEF b
    <3>3. from \in Link /\ from.cli = "open"
      <4>1. << >> \in Seq(Half)
        OBVIOUS
      <4> QED
        BY <1>3, <3>1, <4>1 DEF Link
    <3> HIDE DEF from
    <3>4. PICK units : /\ units \in Seq(Unit) /\ Len(units) \in 1 .. Len(units)
                       /\ PeerMoves(k, SendAll(from, units, Len(units), b))
      <4>1. CASE b \in Holds[PeerOf(k)]
        <5>1. PeerMoves(k, SendAll(from, << Ok(b) >> \o Data(b),
                                   Len(<< Ok(b) >> \o Data(b)), b))
          BY <3>1, <4>1
        <5>2. PeerOf(k) \in Seeders
          BY <2>1 DEF Serve, Seeded
        <5>3. b \in Blocks
          BY <4>1, <5>2, OpenClientAssumption
        <5>4. << Ok(b) >> \in Seq(Unit) /\ Data(b) \in Seq(Unit) /\ Len(Data(b)) = BlockUnits
          BY <5>3, RequestType, DataType DEF Unit
        <5>5. << Ok(b) >> \o Data(b) \in Seq(Unit) /\ Len(<< Ok(b) >> \o Data(b)) = 1 + BlockUnits
          BY <5>4
        <5> DEFINE units == << Ok(b) >> \o Data(b)
        <5> HIDE DEF units
        <5>6. units \in Seq(Unit) /\ Len(units) \in 1 .. Len(units)
          BY <5>5, WireAssumption DEF units
        <5>7. PeerMoves(k, SendAll(from, units, Len(units), b))
          BY <5>1 DEF units
        <5> QED
          BY <5>6, <5>7
      <4>2. CASE b \notin Holds[PeerOf(k)]
        <5> DEFINE m == [Garbage EXCEPT !.code = MSG_RESPONSE_NA]
        <5>1. m \in Message
          BY GarbageType DEF Message, MSG_RESPONSE_NA
        <5>2. PeerMoves(k, SendAll(from, << m >>, Len(<< m >>), b))
          BY <3>1, <4>2
        <5> HIDE DEF m
        <5>3. << m >> \in Seq(Unit) /\ Len(<< m >>) = 1
          BY <5>1 DEF Unit
        <5> DEFINE units == << m >>
        <5>4. PeerMoves(k, SendAll(from, units, Len(units), b))
          BY <5>2
        <5>5. units \in Seq(Unit) /\ Len(units) \in 1 .. Len(units)
          BY <5>3
        <5> HIDE DEF units
        <5> QED
          BY <5>4, <5>5
      <4> QED
        BY <4>1, <4>2
    <3>5. SendAll(from, units, Len(units), b) \in Link
      BY <3>2, <3>3, <3>4, SendAllType
    <3>6. SendAll(from, units, Len(units), b).cli = "open"
      BY <3>3 DEF SendAll, Written, Link
    <3> QED
      BY <3>1, <3>4, <3>5, <3>6
  <2>2. CASE Babble(k)
    <3>1. PICK u \in Noise : net[k].cli = "open" /\ PeerMoves(k, Written(net[k], << u >>))
      BY <2>2 DEF Babble
    <3>2. << u >> \in Seq(Unit)
      BY <3>1, OpenClientAssumption
    <3>3. Written(net[k], << u >>) \in Link
      BY <1>3, <3>2, WrittenType
    <3>4. Written(net[k], << u >>).cli = "open"
      BY <1>3, <3>1 DEF Written, Link
    <3> QED
      BY <3>1, <3>3, <3>4
  <2>3. CASE HangUp(k)
    <3>1. PeerMoves(k, ClosedByServer(net[k]))
      BY <2>3 DEF HangUp
    <3>2. ClosedByServer(net[k]) \in Link /\ ClosedByServer(net[k]).cli = net[k].cli
      BY <1>3, ClosedByServerType DEF ClosedByServer, Link
    <3> QED
      BY <3>1, <3>2
  <2> QED
    BY <1>2, <2>1, <2>2, <2>3
<1>5. /\ client' = client /\ file' = file /\ net' \in [Conns -> Link]
      /\ \A j \in Conns : net'[j].cli = net[j].cli
  BY <1>1, <1>4 DEF PeerMoves, clientVars
<1>6. ClientTypeOK' /\ MapOK'
  BY <1>5 DEF ClientInv, ClientTypeOK, MapOK, FileOK, Promised, PlaceOK
<1>7. OneSocket'
  BY <1>5 DEF ClientInv, OneSocket, Conn
<1> QED
  BY <1>6, <1>7 DEF ClientInv

----------------------------------------------------------------------------
(* The invariant, and what follows from it.                                 *)

\* What a client does here are steps of Client.
LEMMA RunsAct == ASSUME NEW a \in Clients, Run(a) \/ Killed(a) PROVE Acts(a)
  BY DEF Run, Killed, Connect, ConnectStep, Acts

\* Every step of the clients and their peers keeps the invariant.
LEMMA ClientNextInv == ClientInv /\ [Next]_transfer => ClientInv'
<1> SUFFICES ASSUME ClientInv, [Next]_transfer PROVE ClientInv'
  OBVIOUS
<1>1. CASE UNCHANGED transfer
  BY <1>1 DEF transfer, clientVars, ClientInv, ClientTypeOK, PlaceOK, MapOK, FileOK,
                Promised, OneSocket, Conn
<1>2. CASE PeersNext
  BY <1>2, PeersNextInv
<1>3. ASSUME NEW a \in Clients, Run(a) \/ Killed(a) PROVE ClientInv'
  BY <1>3, ActsInv, RunsAct
<1> QED
  BY <1>1, <1>2, <1>3 DEF Next, ClientsNext

\* The variables of the client keep their types, the indices of peer and block among
\* them, whatever peers send, whichever calls fail and whenever it is killed.
THEOREM ClientTypeCorrect == Spec => []ClientTypeOK
<1>1. ClientInv => ClientTypeOK
  BY DEF ClientInv
<1> QED
  BY <1>1, ClientInitInv, ClientNextInv, PTL DEF Spec, Init

\* No step makes block_map tell something wrong but a failing fseeko, which may lose the
\* block in the buffer: for any number of peers, blocks and runs, whichever calls fail,
\* and kills at any moment.
THEOREM MapStaysTrue == Spec => MapIsTrue
<1>1. ClientInv /\ [Next]_transfer => [\A a \in Clients : StaysTrue(a)]_transfer
  <2> SUFFICES ASSUME ClientInv, Next PROVE \A a \in Clients : StaysTrue(a)
    OBVIOUS
  <2>1. CASE PeersNext
    BY <2>1, MapRests DEF PeersNext, Serve, Babble, HangUp, PeerMoves, clientVars
  <2>2. CASE ClientsNext
    BY <2>2, RunsAct, MapStays DEF ClientsNext
  <2> QED
    BY <2>1, <2>2 DEF Next
<1> QED
  BY <1>1, ClientInitInv, ClientNextInv, PTL DEF Spec, Init, MapIsTrue

\* So when fseeko never fails, whichever other calls do, every block that block_map marks
\* is in the file or in its buffer as long as the client runs.
THEOREM MarkedIsThere ==
    ASSUME "fseeko" \notin IoFaults
    PROVE  Spec => [](\A a \in Clients : ~At(a, "idle") => Lost(a) = {})
<1>1. ClientInv => \A a \in Clients : ~At(a, "idle") => Lost(a) = {}
  BY DEF ClientInv, MapOK, Promised, Lost, At
<1> QED
  BY <1>1, ClientInitInv, ClientNextInv, PTL DEF Spec, Init

\* Every way out of a connection closes it, and nothing else does.
THEOREM SocketsClosed == Spec => []OneSocket
<1>1. ClientInv => OneSocket
  BY DEF ClientInv
<1> QED
  BY <1>1, ClientInitInv, ClientNextInv, PTL DEF Spec, Init

\* A right block on the disk stays right, for any peers, failing calls and crashes: a
\* server of the same file can go on promising it.
THEOREM RightBlocksKept == Spec => RightBlocksStay
<1>1. ClientInv /\ [Next]_transfer =>
          [\A a \in Clients : file[a].disk \subseteq file'[a].disk]_transfer
  <2> SUFFICES ASSUME ClientInv, Next
               PROVE  \A a \in Clients : file[a].disk \subseteq file'[a].disk
    OBVIOUS
  <2>1. CASE PeersNext
    BY <2>1 DEF PeersNext, Serve, Babble, HangUp, PeerMoves, clientVars
  <2>2. CASE ClientsNext
    BY <2>2, RunsAct, DiskGrows DEF ClientsNext
  <2> QED
    BY <2>1, <2>2 DEF Next
<1> QED
  BY <1>1, ClientInitInv, ClientNextInv, PTL DEF Spec, Init, RightBlocksStay

----------------------------------------------------------------------------
(* What is asked for.                                                       *)

\* A client that moves from state to state without coming to a connection before
\* others, and with nothing new asked but on the connection it is on.
LEMMA AskedMoves ==
    ASSUME ClientInv, AskedOK, NEW a \in Clients, NEW s \in ClientState,
           client' = [client EXCEPT ![a] = s],
           \A k \in Conns : k[1] = a /\ Unused(s, k) => Unused(client[a], k),
           \A k \in Conns : net'[k].asked = net[k].asked
                              \/ (k = Conn(a) /\ ~Unused(s, k)),
           Waiting(s) => s.run = client[a].run /\ s.peer = client[a].peer
                         /\ Ascends(s, net'[Conn(a)].asked)
    PROVE  AskedOK'
<1>1. /\ client'[a] = s
      /\ \A b \in Clients \ {a} : client'[b] = client[b]
  BY DEF ClientInv, ClientTypeOK
<1> SUFFICES ASSUME NEW k \in Conns
             PROVE  /\ Unused(client'[k[1]], k) => net'[k].asked = << >>
                    /\ k = Conn(k[1])' => Ascends(client'[k[1]], net'[k].asked)
  BY DEF AskedOK, Unused, Ascends, Waiting
<1>2. k[1] \in Clients
  BY ClientAssumption
<1>3. /\ Unused(client[k[1]], k) => net[k].asked = << >>
      /\ k = Conn(k[1]) => Ascends(client[k[1]], net[k].asked)
  BY DEF AskedOK
<1>4. CASE k[1] # a
  <2>1. client'[k[1]] = client[k[1]] /\ Conn(k[1])' = Conn(k[1])
    BY <1>1, <1>2, <1>4 DEF Conn
  <2>2. net'[k].asked = net[k].asked
    BY <1>4 DEF Conn
  <2> QED
    BY <1>3, <2>1, <2>2
<1>5. CASE k[1] = a
  <2>1. Unused(s, k) => net'[k].asked = << >>
    BY <1>3, <1>5
  <2>2. ASSUME k = Conn(k[1])' PROVE Ascends(s, net'[k].asked)
    <3>1. CASE Waiting(s)
      <4>1. k = Conn(a)
        BY <1>1, <1>5, <2>2, <3>1 DEF Conn
      <4> QED
        BY <3>1, <4>1
    <3>2. CASE ~Waiting(s)
      BY <3>2 DEF Ascends
    <3> QED
      BY <3>1, <3>2
  <2> QED
    BY <1>1, <1>5, <2>1, <2>2
<1> QED
  BY <1>4, <1>5

\* Only a request sent changes what was asked for, and only on its connection.
LEMMA AskedKept ==
    ASSUME ClientInv, NEW a \in Clients, (Run(a) /\ ~SendsRequest(a)) \/ Killed(a)
    PROVE  \A k \in Conns : net'[k].asked = net[k].asked
<1>1. net \in [Conns -> Link]
  BY DEF ClientInv, ClientTypeOK
<1>2. ASSUME NEW link, OnSocket(a, link), Conn(a) \in Conns => link.asked = Socket(a).asked
      PROVE  \A k \in Conns : net'[k].asked = net[k].asked
  BY <1>1, <1>2 DEF OnSocket, Socket
<1>3. ASSUME NEW link \in Link
      PROVE  Connected(link).asked = link.asked /\ ClosedByClient(link).asked = link.asked
  BY DEF Connected, ClosedByClient, Link
<1>4. Conn(a) \in Conns => Socket(a) \in Link
  BY OneClient
<1>5. ASSUME NEW n \in Nat, Has(a, n), Conn(a) \in Conns
      PROVE  /\ Taken(a, n).asked = Socket(a).asked
             /\ ClosedByClient(Taken(a, n)).asked = Socket(a).asked
  BY <1>3, <1>4, <1>5, TakenOK
<1>6. CASE UNCHANGED net
  BY <1>6
<1>7. CASE OnSocket(a, ClosedByClient(Socket(a))) \/ OnSocket(a, Connected(Socket(a)))
  BY <1>2, <1>3, <1>4, <1>7
<1>8. CASE HeaderArrives(a)
  BY <1>2, <1>5, <1>8 DEF HeaderArrives
<1>9. CASE RefusesHeader(a)
  BY <1>2, <1>5, <1>9 DEF RefusesHeader
<1>10. CASE BodyArrives(a)
  BY <1>2, <1>5, <1>10, WireAssumption DEF BodyArrives
<1>11. CASE Killed(a)
  BY <1>6, <1>7, <1>11 DEF Killed, Crash
<1>12. CASE Connect(a)
  BY <1>6, <1>7, <1>12 DEF Connect, ConnectStep, Connects, ConnectFails
<1>13. CASE Start(a) \/ Destroy(a) \/ NoMorePeers(a) \/ SocketFails(a)
  BY <1>6, <1>13 DEF Start, Destroy, NoMorePeers, SocketFails
<1>14. CASE Leaves(a) \/ SendFails(a) \/ NoHeader(a) \/ NoBody(a)
  BY <1>7, <1>14 DEF Leaves, SendFails, NoHeader, NoBody, GivesUp
<1> QED
  BY <1>8, <1>9, <1>10, <1>11, <1>12, <1>13, <1>14 DEF Run, ClientStep

\* A step after which the client waits for nothing comes to no connection too early.
LEMMA QuietStep ==
    ASSUME ClientInv, NEW a \in Clients, Run(a) \/ Killed(a),
           ~Connects(a), ~SendsRequest(a), ~HeaderArrives(a), ~BodyArrives(a)
    PROVE  \E s : /\ client' = [client EXCEPT ![a] = s] /\ s \in ClientState /\ ~Waiting(s)
                 /\ \A k \in Conns : k[1] = a /\ Unused(s, k) => Unused(client[a], k)
<1>1. client[a] \in ClientState /\ client \in [Clients -> ClientState]
  BY DEF ClientInv, ClientTypeOK
<1>2. /\ client[a].run \in Nat /\ client[a].peer \in Nat
      /\ \A k \in Conns : k[2] \in Nat /\ k[3] \in Nat /\ k[3] >= 1
  BY <1>1, ClientAssumption DEF ClientState
<1>3. ASSUME NEW s, s.run = client[a].run, s.peer = client[a].peer,
             s.at \in {"idle", "destroy"}
      PROVE  ~Waiting(s) /\ \A k \in Conns : Unused(s, k) => Unused(client[a], k)
  BY <1>2, <1>3 DEF Unused, Waiting, OnConnection
<1>4. ASSUME NEW s, s.run = client[a].run, s.peer = client[a].peer + 1, s.at = "connect"
      PROVE  ~Waiting(s) /\ \A k \in Conns : Unused(s, k) => Unused(client[a], k)
  <2>1. ASSUME NEW k \in Conns, Unused(s, k) PROVE Unused(client[a], k)
    <3>1. k[2] \in Nat /\ k[3] \in Nat
      BY <1>2
    <3>2. k[2] > client[a].run \/ (k[2] = client[a].run /\ k[3] >= client[a].peer + 1)
      BY <1>2, <1>4, <2>1, <3>1 DEF Unused
    <3>3. k[2] > client[a].run \/ (k[2] = client[a].run /\ k[3] > client[a].peer)
      BY <1>2, <3>1, <3>2
    <3> QED
      BY <3>3 DEF Unused
  <2> QED
    BY <1>4, <2>1 DEF Waiting, OnConnection
<1>5. ASSUME NEW s, s.run = client[a].run + 1, s.at \in {"idle", "destroy", "connect"}
      PROVE  ~Waiting(s) /\ \A k \in Conns : Unused(s, k) => Unused(client[a], k)
  BY <1>2, <1>5 DEF Unused, Waiting, OnConnection
<1>6. ASSUME NEW s \in ClientState', client' = [client EXCEPT ![a] = s]
      PROVE  s \in ClientState /\ client'[a] = s
  BY <1>1, <1>6 DEF ClientState
<1>7. ClientInv'
  BY ClientNextInv DEF Next, ClientsNext
<1>8. ASSUME NEW s, client' = [client EXCEPT ![a] = s] PROVE s \in ClientState
  BY <1>1, <1>7, <1>8 DEF ClientInv, ClientTypeOK, ClientState
<1>9. CASE \E how : Moves(a, Returns(a, how))
  <2>1. PICK how : Moves(a, Returns(a, how))
    BY <1>9
  <2>2. /\ Returns(a, how).run = client[a].run /\ Returns(a, how).peer = client[a].peer
        /\ Returns(a, how).at = "destroy"
    BY <1>1 DEF Returns, ClientState
  <2> QED
    BY <1>3, <1>8, <2>1, <2>2 DEF Moves
<1>10. CASE Moves(a, ToNextPeer(a))
  <2>1. /\ ToNextPeer(a).run = client[a].run /\ ToNextPeer(a).peer = client[a].peer + 1
        /\ ToNextPeer(a).at = "connect"
    BY <1>1 DEF ToNextPeer, ClientState
  <2> QED
    BY <1>4, <1>8, <1>10, <2>1 DEF Moves
<1>11. CASE Start(a)
  <2> DEFINE started == [client[a] EXCEPT !.run = @ + 1, !.peer = 1, !.returned = "none"]
  <2>1. started.run = client[a].run + 1 /\ started.at = "idle"
    BY <1>1, <1>11 DEF Start, At, ClientState
  <2>2. /\ [started EXCEPT !.at = "destroy", !.returned = "ok"].run = client[a].run + 1
        /\ [started EXCEPT !.at = "destroy", !.returned = "ok"].at = "destroy"
        /\ [started EXCEPT !.at = "connect"].run = client[a].run + 1
        /\ [started EXCEPT !.at = "connect"].at = "connect"
        /\ [started EXCEPT !.returned = "error"].run = client[a].run + 1
        /\ [started EXCEPT !.returned = "error"].at = "idle"
    BY <1>1, <2>1 DEF ClientState
  <2>3. \/ Moves(a, [started EXCEPT !.at = "destroy", !.returned = "ok"])
        \/ Moves(a, [started EXCEPT !.at = "connect"])
        \/ Moves(a, [started EXCEPT !.returned = "error"])
    BY <1>11 DEF Start
  <2> HIDE DEF started
  <2> QED
    BY <1>5, <1>8, <2>2, <2>3 DEF Moves
<1>12. CASE Destroy(a)
  <2> DEFINE s == [client[a] EXCEPT !.at = "idle"]
  <2>1. client' = [client EXCEPT ![a] = s]
    BY <1>12, SameFile DEF Destroy
  <2>2. s.run = client[a].run /\ s.peer = client[a].peer /\ s.at = "idle"
    BY <1>1 DEF ClientState
  <2> HIDE DEF s
  <2> QED
    BY <1>3, <1>8, <2>1, <2>2
<1>13. CASE Killed(a)
  <2> DEFINE s == [client[a] EXCEPT !.at = "idle", !.block = NoBlock, !.returned = "none"]
  <2>1. client' = [client EXCEPT ![a] = s]
    BY <1>13 DEF Killed, Crash, Moves
  <2>2. s.run = client[a].run /\ s.peer = client[a].peer /\ s.at = "idle"
    BY <1>1 DEF ClientState
  <2> HIDE DEF s
  <2> QED
    BY <1>3, <1>8, <2>1, <2>2
<1>14. CASE NoMorePeers(a) \/ SocketFails(a) \/ ConnectFails(a) \/ Leaves(a)
  BY <1>9, <1>10, <1>14 DEF NoMorePeers, SocketFails, ConnectFails, Leaves
<1>15. CASE SendFails(a) \/ RefusesHeader(a) \/ NoHeader(a) \/ NoBody(a)
  BY <1>10, <1>15 DEF SendFails, RefusesHeader, NoHeader, NoBody, GivesUp
<1> QED
  BY <1>11, <1>12, <1>13, <1>14, <1>15 DEF Run, ClientStep, Connect, ConnectStep

\* On the connection a client is on, and on no other, it asks for the block it is at.
LEMMA RequestSent ==
    ASSUME ClientInv, NEW a \in Clients, SendsRequest(a)
    PROVE  /\ Conn(a) \in Conns
           /\ \A k \in Conns : k # Conn(a) => net'[k].asked = net[k].asked
           /\ \/ net'[Conn(a)].asked = net[Conn(a)].asked
              \/ net'[Conn(a)].asked = Append(net[Conn(a)].asked, client[a].block)
<1>1. Conn(a) \in Conns /\ Socket(a) \in Link
  BY OneClient DEF SendsRequest, At, OnConnection
<1>2. PICK t \in Sent(Socket(a), Request(client[a].block)) : OnSocket(a, t)
  BY DEF SendsRequest
<1>3. \/ t.asked = Socket(a).asked
      \/ t.asked = Append(Socket(a).asked, client[a].block)
  <2> DEFINE q == [Socket(a) EXCEPT !.asked = Append(@, Request(client[a].block).block)]
  <2>1. q.asked = Append(Socket(a).asked, client[a].block)
    BY <1>1 DEF Request, Link
  <2>2. \/ t = Socket(a)
        \/ \E late : t = [q EXCEPT !.late = late]
        \/ \E up : t = [q EXCEPT !.up = up]
        \/ \E up, late : t = [q EXCEPT !.up = up, !.late = late]
    BY <1>2 DEF Sent
  <2>3. "asked" \in DOMAIN q
    BY <1>1 DEF Link
  <2> HIDE DEF q
  <2> QED
    BY <2>1, <2>2, <2>3
<1>4. net \in [Conns -> Link]
  BY DEF ClientInv, ClientTypeOK
<1> QED
  BY <1>1, <1>2, <1>3, <1>4 DEF OnSocket, Socket

\* Before the first run nothing is asked for.
LEMMA AskedInit == Init => AskedOK
<1> SUFFICES ASSUME Init, NEW k \in Conns
             PROVE  net[k].asked = << >> /\ ~Waiting(client[k[1]])
  BY DEF AskedOK, Ascends
<1>1. k[1] \in Clients
  BY ClientAssumption
<1>2. net[k].asked = << >> /\ client[k[1]].at = "idle"
  BY <1>1 DEF Init, NetInit, ClientInit
<1> QED
  BY <1>2 DEF Waiting, OnConnection

\* A client on a connection is not before it.
LEMMA OnIsUsed ==
    ASSUME ClientInv, NEW a \in Clients, NEW s, s.run = client[a].run,
           s.peer = client[a].peer, s.at \in OnConnection
    PROVE  /\ ~Unused(s, Conn(a))
           /\ \A k \in Conns : Unused(s, k) => Unused(client[a], k)
<1>1. client[a].run \in Nat /\ client[a].peer \in Nat
  BY OneClient, ClientAssumption DEF ClientState
<1>2. s.at # "connect"
  BY DEF OnConnection
<1>3. ~Unused(s, Conn(a))
  <2>1. Conn(a)[2] = client[a].run /\ Conn(a)[3] = client[a].peer
    BY DEF Conn
  <2> QED
    BY <1>1, <1>2, <2>1 DEF Unused
<1>4. ASSUME NEW k \in Conns, Unused(s, k) PROVE Unused(client[a], k)
  BY <1>2, <1>4 DEF Unused
<1> QED
  BY <1>3, <1>4

\* A client that stays on its connection, or has just come to it.
LEMMA AskedOn ==
    ASSUME ClientInv, AskedOK, NEW a \in Clients, NEW s \in ClientState,
           client' = [client EXCEPT ![a] = s], s.at \in OnConnection,
           s.run = client[a].run, s.peer = client[a].peer,
           \A k \in Conns : net'[k].asked = net[k].asked \/ k = Conn(a),
           Ascends(s, net'[Conn(a)].asked)
    PROVE  AskedOK'
<1>1. /\ ~Unused(s, Conn(a))
      /\ \A k \in Conns : Unused(s, k) => Unused(client[a], k)
  BY OnIsUsed
<1>2. \A k \in Conns : net'[k].asked = net[k].asked \/ (k = Conn(a) /\ ~Unused(s, k))
  BY <1>1
<1>3. \A k \in Conns : k[1] = a /\ Unused(s, k) => Unused(client[a], k)
  BY <1>1
<1>4. Waiting(s) => /\ s.run = client[a].run /\ s.peer = client[a].peer
                    /\ Ascends(s, net'[Conn(a)].asked)
  OBVIOUS
<1> QED
  BY <1>2, <1>3, <1>4, AskedMoves

\* A bound of the elements of a sequence, appended to it, still bounds them.
LEMMA AppendBound ==
    ASSUME NEW N \in Nat, NEW q \in Seq(0 .. N), NEW b \in 0 .. N,
           \A n \in DOMAIN q : q[n] <= b
    PROVE  \A n \in DOMAIN Append(q, b) : Append(q, b)[n] <= b
<1> SUFFICES ASSUME NEW n \in DOMAIN Append(q, b) PROVE Append(q, b)[n] <= b
  OBVIOUS
<1>1. /\ DOMAIN Append(q, b) = 1 .. Len(q) + 1
      /\ Append(q, b)[Len(q) + 1] = b
      /\ \A i \in 1 .. Len(q) : Append(q, b)[i] = q[i]
  BY AppendProperties
<1>2. CASE n = Len(q) + 1
  BY <1>1, <1>2
<1>3. CASE n # Len(q) + 1
  <2>1. n \in 1 .. Len(q)
    BY <1>1, <1>3
  <2>2. n \in DOMAIN q
    BY <2>1
  <2> QED
    BY <1>1, <2>1, <2>2
<1> QED
  BY <1>2, <1>3

\* Every step keeps the order of what is asked for.
LEMMA AskedNext ==
    ASSUME ClientInv, AskedOK, NEW a \in Clients, Run(a) \/ Killed(a)
    PROVE  AskedOK'
<1>1. /\ client[a] \in ClientState /\ client \in [Clients -> ClientState]
      /\ file[a] \in File
  BY DEF ClientInv, ClientTypeOK
<1>2. ASSUME Conn(a) \in Conns PROVE Ascends(client[a], net[Conn(a)].asked)
  <2>1. Conn(a)[1] = a
    BY DEF Conn
  <2> QED
    BY <1>2, <2>1 DEF AskedOK
<1>3. CASE /\ ~Connects(a) /\ ~SendsRequest(a) /\ ~HeaderArrives(a) /\ ~BodyArrives(a)
  <2>1. \A k \in Conns : net'[k].asked = net[k].asked
    BY <1>3, AskedKept
  <2>2. PICK s : /\ client' = [client EXCEPT ![a] = s] /\ s \in ClientState /\ ~Waiting(s)
                 /\ \A k \in Conns : k[1] = a /\ Unused(s, k) => Unused(client[a], k)
    BY <1>3, QuietStep
  <2>3. \A k \in Conns : net'[k].asked = net[k].asked \/ (k = Conn(a) /\ ~Unused(s, k))
    BY <2>1
  <2>4. Waiting(s) => /\ s.run = client[a].run /\ s.peer = client[a].peer
                      /\ Ascends(s, net'[Conn(a)].asked)
    BY <2>2
  <2> QED
    BY <2>2, <2>3, <2>4, AskedMoves
<1>4. CASE Connects(a)
  <2> DEFINE s == NextRequest(a, file[a], 0)
  <2>1. client' = [client EXCEPT ![a] = s] /\ client[a].at = "connect"
        /\ client[a].peer <= PeerCount
    BY <1>4 DEF Connects, Moves, At
  <2>2. Conn(a) \in Conns
    <3>1. client[a].run \in 1 .. MaxRuns /\ client[a].peer \in 1 .. PeerCount
      BY <1>1, <2>1, OneClient, ClientAssumption DEF ClientState, PlaceOK
    <3> QED
      BY <3>1, ClientAssumption DEF Conn
  <2>3. /\ s \in ClientState /\ s.at \in OnConnection
        /\ s.run = client[a].run /\ s.peer = client[a].peer
    BY <1>1, <2>2, NextRequestOK DEF OnConnection
  <2> HIDE DEF s
  <2>4. \A k \in Conns : net'[k].asked = net[k].asked
    <3>1. ~SendsRequest(a) /\ Run(a)
      BY <1>4, <2>1 DEF SendsRequest, At, Killed, Run, Connect, ConnectStep
    <3> QED
      BY <3>1, AskedKept
  <2>5. net[Conn(a)].asked = << >>
    <3>1. Unused(client[a], Conn(a)) /\ Conn(a)[1] = a
      BY <2>1 DEF Unused, Conn
    <3> QED
      BY <2>2, <3>1 DEF AskedOK
  <2>6. Ascends(s, net'[Conn(a)].asked)
    BY <2>2, <2>4, <2>5 DEF Ascends
  <2> QED
    BY <2>1, <2>3, <2>4, <2>6, AskedOn
<1>5. CASE SendsRequest(a)
  <2> DEFINE s == [client[a] EXCEPT !.at = "header"]
  <2>1. client' = [client EXCEPT ![a] = s] /\ client[a].at = "request"
    BY <1>5, SameFile DEF SendsRequest, At
  <2>2. /\ s \in ClientState /\ s.at = "header" /\ s.block = client[a].block
        /\ s.run = client[a].run /\ s.peer = client[a].peer
    BY <1>1 DEF ClientState
  <2> HIDE DEF s
  <2>3. Conn(a) \in Conns
    BY <1>5, RequestSent
  <2>4. \A n \in DOMAIN net[Conn(a)].asked : net[Conn(a)].asked[n] < client[a].block
    BY <1>2, <2>1, <2>3 DEF Ascends, Waiting, OnConnection
  <2>5. \A n \in DOMAIN net'[Conn(a)].asked : net'[Conn(a)].asked[n] <= client[a].block
    <3>1. net[Conn(a)].asked \in Seq(0 .. BlockCount) /\ client[a].block \in 0 .. BlockCount
      BY <1>1, <2>3, LinkFields DEF ClientInv, ClientTypeOK, ClientState
    <3> DEFINE asked == net[Conn(a)].asked
    <3>2. \A n \in DOMAIN asked : asked[n] <= client[a].block
      <4> SUFFICES ASSUME NEW n \in DOMAIN asked PROVE asked[n] <= client[a].block
        OBVIOUS
      <4>1. asked[n] < client[a].block
        BY <2>4
      <4>2. asked[n] \in 0 .. BlockCount
        BY <3>1, InSeq
      <4> HIDE DEF asked
      <4> QED
        BY <3>1, <4>1, <4>2, WireAssumption
    <3> HIDE DEF asked
    <3>3. \A n \in DOMAIN Append(asked, client[a].block) :
              Append(asked, client[a].block)[n] <= client[a].block
      BY <3>1, <3>2, AppendBound, WireAssumption DEF asked
    <3>4. net'[Conn(a)].asked = asked \/ net'[Conn(a)].asked = Append(asked, client[a].block)
      BY <1>5, RequestSent DEF asked
    <3>5. CASE net'[Conn(a)].asked = asked
      BY <3>2, <3>5
    <3>6. CASE net'[Conn(a)].asked = Append(asked, client[a].block)
      BY <3>3, <3>6, Zenon
    <3> QED
      BY <3>4, <3>5, <3>6
  <2>6. Ascends(s, net'[Conn(a)].asked)
    BY <2>2, <2>5 DEF Ascends
  <2>7. s.at \in OnConnection
    BY <2>2 DEF OnConnection
  <2>8. \A k \in Conns : net'[k].asked = net[k].asked \/ k = Conn(a)
    BY <1>5, RequestSent
  <2> QED
    BY <2>1, <2>2, <2>6, <2>7, <2>8, AskedOn
<1>6. CASE HeaderArrives(a)
  <2> DEFINE s == [client[a] EXCEPT !.at = "body"]
  <2>1. client' = [client EXCEPT ![a] = s] /\ client[a].at = "header"
    BY <1>6, SameFile DEF HeaderArrives, At
  <2>2. /\ s \in ClientState /\ s.at = "body" /\ s.block = client[a].block
        /\ s.run = client[a].run /\ s.peer = client[a].peer
    BY <1>1 DEF ClientState
  <2> HIDE DEF s
  <2>3. Conn(a) \in Conns
    BY <2>1, OneClient DEF OnConnection
  <2>4. \A k \in Conns : net'[k].asked = net[k].asked
    <3>1. ~SendsRequest(a)
      BY <2>1 DEF SendsRequest, At
    <3> QED
      BY <3>1, AskedKept
  <2>5. Ascends(s, net'[Conn(a)].asked)
    BY <1>2, <2>1, <2>2, <2>3, <2>4 DEF Ascends, Waiting, OnConnection
  <2>6. s.at \in OnConnection
    BY <2>2 DEF OnConnection
  <2> QED
    BY <2>1, <2>2, <2>4, <2>5, <2>6, AskedOn
<1>7. CASE BodyArrives(a)
  <2> DEFINE k == client[a].block
             right == SubSeq(Socket(a).down, 1, BlockUnits) = Data(k)
  <2>1. PICK f \in FioStoreBlock(file[a], k, right) :
            client' = [client EXCEPT ![a] = NextRequest(a, f, k + 1)]
    BY <1>7 DEF BodyArrives, Moves
  <2>2. client[a].at = "body"
    BY <1>7 DEF BodyArrives, At
  <2>3. /\ Promised(file[a]) /\ FileOK(file[a]) /\ k \in Blocks /\ k \notin file[a].map
        /\ Conn(a) \in Conns
    BY <2>2, OneClient DEF PlaceOK, OnConnection
  <2>4. right \in BOOLEAN
    OBVIOUS
  <2> HIDE DEF right
  <2>5. f \in File /\ k \in Nat /\ k + 1 \in Nat
    BY <1>1, <2>1, <2>3, <2>4, StoreOK, WireAssumption DEF Blocks
  <2> DEFINE s == NextRequest(a, f, k + 1)
  <2>6. /\ s \in ClientState /\ s.at \in {"request", "leave"}
        /\ s.run = client[a].run /\ s.peer = client[a].peer
        /\ s.at = "request" => s.block >= k + 1
    BY <2>3, <2>5, NextRequestOK
  <2>7. client' = [client EXCEPT ![a] = s]
    BY <2>1
  <2> HIDE DEF s
  <2>8. \A j \in Conns : net'[j].asked = net[j].asked
    <3>1. ~SendsRequest(a)
      BY <2>2 DEF SendsRequest, At
    <3> QED
      BY <3>1, AskedKept
  <2>9. Ascends(s, net[Conn(a)].asked)
    <3> SUFFICES ASSUME s.at = "request", NEW n \in DOMAIN net[Conn(a)].asked
                 PROVE  net[Conn(a)].asked[n] < s.block
      <4>1. \A n \in DOMAIN net[Conn(a)].asked : net[Conn(a)].asked[n] \in Nat
        BY <2>3, LinkFields, WireAssumption DEF ClientInv, ClientTypeOK
      <4>2. s.block \in Nat
        BY <2>6, WireAssumption DEF ClientState
      <4> QED
        BY <2>6, <4>1, <4>2 DEF Ascends, Waiting, OnConnection
    <3>1. net[Conn(a)].asked[n] <= k
      BY <1>2, <2>2, <2>3 DEF Ascends, Waiting, OnConnection
    <3>2. net[Conn(a)].asked[n] \in Nat
      BY <2>3, LinkFields, WireAssumption DEF ClientInv, ClientTypeOK
    <3>3. s.block \in Nat /\ s.block >= k + 1
      BY <2>6, WireAssumption DEF ClientState
    <3> QED
      BY <2>5, <3>1, <3>2, <3>3
  <2>10. s.at \in OnConnection
    BY <2>6 DEF OnConnection
  <2>11. Ascends(s, net'[Conn(a)].asked)
    BY <2>3, <2>8, <2>9
  <2> QED
    BY <2>6, <2>7, <2>8, <2>10, <2>11, AskedOn
<1> QED
  BY <1>3, <1>4, <1>5, <1>6, <1>7

\* The peers ask for nothing.
LEMMA PeersAsk ==
    ASSUME ClientInv, PeersNext
    PROVE  client' = client /\ \A k \in Conns : net'[k].asked = net[k].asked
<1>1. PICK k \in Conns : Serve(k) \/ Babble(k) \/ HangUp(k)
  BY DEF PeersNext
<1>2. net \in [Conns -> Link] /\ net[k] \in Link
  BY <1>1 DEF ClientInv, ClientTypeOK
<1>3. ASSUME NEW link, PeerMoves(k, link), link.asked = net[k].asked
      PROVE  client' = client /\ \A j \in Conns : net'[j].asked = net[j].asked
  BY <1>1, <1>2, <1>3 DEF PeerMoves, clientVars
<1>4. ASSUME NEW t \in Link
      PROVE  /\ \A units : Written(t, units).asked = t.asked
             /\ ClosedByServer(t).asked = t.asked
  BY DEF Written, ClosedByServer, Link
<1>5. ASSUME NEW t \in Link, NEW units, NEW n, NEW b
      PROVE  SendAll(t, units, n, b).asked = t.asked
  <2> DEFINE w == Written(t, SubSeq(units, 1, n))
  <2>1. w.asked = t.asked
    BY DEF Written, Link
  <2> HIDE DEF w
  <2> QED
    BY <2>1 DEF SendAll, w
<1>6. CASE Serve(k)
  <2> DEFINE t == [net[k] EXCEPT !.up = << >>]
  <2>1. t \in Link /\ t.asked = net[k].asked
    <3>1. << >> \in Seq(Half)
      OBVIOUS
    <3> QED
      BY <1>2, <3>1 DEF Link
  <2>2. PICK units, b : PeerMoves(k, SendAll(t, units, Len(units), b))
    BY <1>6 DEF Serve
  <2> HIDE DEF t
  <2>3. SendAll(t, units, Len(units), b).asked = net[k].asked
    BY <1>5, <2>1
  <2> QED
    BY <1>3, <2>2, <2>3
<1>7. CASE Babble(k)
  BY <1>2, <1>3, <1>4, <1>7 DEF Babble
<1>8. CASE HangUp(k)
  BY <1>2, <1>3, <1>4, <1>8 DEF HangUp
<1> QED
  BY <1>1, <1>6, <1>7, <1>8

\* A request is for a block that is missing, beyond those asked for on its connection.
LEMMA RequestWanted ==
    ASSUME ClientInv, AskedOK, NEW a \in Clients, SendsRequest(a),
           NEW k \in Conns, net'[k].asked # net[k].asked
    PROVE  LET b == net'[k].asked[Len(net'[k].asked)]
           IN  /\ b \notin file[k[1]].disk \cup file[k[1]].pend
               /\ \A n \in DOMAIN net[k].asked : net[k].asked[n] < b
<1> DEFINE wanted == client[a].block
<1>1. k = Conn(a) /\ k[1] = a
  <2>1. k = Conn(a)
    BY RequestSent
  <2> QED
    BY <2>1 DEF Conn
<1>2. net'[k].asked = Append(net[k].asked, wanted)
  BY <1>1, RequestSent
<1>3. client[a].at = "request"
  BY DEF SendsRequest, At
<1>4. wanted \in 0 .. BlockCount /\ wanted \notin file[a].disk \cup file[a].pend
  BY <1>3, OneClient DEF PlaceOK, OnConnection, FileOK, ClientState
<1>5. net[k].asked \in Seq(0 .. BlockCount)
  BY LinkFields DEF ClientInv, ClientTypeOK
<1>6. \A n \in DOMAIN net[k].asked : net[k].asked[n] < wanted
  BY <1>1, <1>3 DEF AskedOK, Ascends, Waiting, OnConnection
<1> HIDE DEF wanted
<1>7. net'[k].asked[Len(net'[k].asked)] = wanted
  BY <1>2, <1>4, <1>5
<1> QED
  BY <1>1, <1>4, <1>6, <1>7

\* A client, also one that was killed and started again, asks for missing blocks only,
\* and in ascending order on a connection: no block is fetched twice, and no answer can
\* be taken for that of an earlier request.
THEOREM AsksInOrder == Spec => AsksForMissing
<1> DEFINE wanted(k) ==
        LET b == net'[k].asked[Len(net'[k].asked)]
        IN  /\ b \notin file[k[1]].disk \cup file[k[1]].pend
            /\ \A n \in DOMAIN net[k].asked : net[k].asked[n] < b
<1>1. ClientInv /\ AskedOK /\ [Next]_transfer => AskedOK'
  <2> SUFFICES ASSUME ClientInv, AskedOK, [Next]_transfer PROVE AskedOK'
    OBVIOUS
  <2>1. CASE client' = client /\ \A k \in Conns : net'[k].asked = net[k].asked
    BY <2>1 DEF AskedOK, Unused, Ascends, Waiting, Conn
  <2>2. CASE UNCHANGED transfer
    BY <2>1, <2>2 DEF transfer, clientVars
  <2>3. CASE PeersNext
    BY <2>1, <2>3, PeersAsk
  <2>4. CASE ClientsNext
    BY <2>4, AskedNext DEF ClientsNext
  <2> QED
    BY <2>2, <2>3, <2>4 DEF Next
<1>2. ClientInv /\ AskedOK /\ [Next]_transfer =>
          [\A k \in Conns : net'[k].asked # net[k].asked => wanted(k)]_transfer
  <2> SUFFICES ASSUME ClientInv, AskedOK, Next, NEW k \in Conns,
                      net'[k].asked # net[k].asked
               PROVE  wanted(k)
    OBVIOUS
  <2>1. CASE PeersNext
    BY <2>1, PeersAsk
  <2>2. CASE ClientsNext
    <3>1. PICK a \in Clients : Run(a) \/ Killed(a)
      BY <2>2 DEF ClientsNext
    <3>2. SendsRequest(a)
      BY <3>1, AskedKept
    <3> QED
      BY <3>2, RequestWanted
  <2> QED
    BY <2>1, <2>2 DEF Next
<1> QED
  BY <1>1, <1>2, AskedInit, ClientInitInv, ClientNextInv, PTL DEF Spec, Init, AsksForMissing

----------------------------------------------------------------------------
(* A seeder of every block.                                                 *)

\* Nothing has happened on a connection a client has not come to.
FreshLink == [cli |-> "none", srv |-> "none", up |-> << >>, late |-> << >>,
              down |-> << >>, asked |-> << >>, answered |-> << >>]
Fresh == \A k \in Conns : Unused(client[k[1]], k) => net[k] = FreshLink

\* On the connection with the seeder: every block before the one the client is at is
\* there, and what is on its way is exactly what the client is about to read.
Served(s, f, t) ==
    /\ t.srv # "closed"
    /\ s.at # "leave" => \A b \in Blocks : b < s.block => b \in f.map
    /\ s.at = "request" => t.down = << >> /\ Len(t.asked) = Len(t.answered)
    /\ s.at = "header" =>
          /\ t.asked # << >> /\ t.asked[Len(t.asked)] = s.block
          /\ \/ Len(t.asked) = Len(t.answered) + 1 /\ t.down = << >>
             \/ /\ Len(t.asked) = Len(t.answered)
                /\ t.down = << Ok(s.block) >> \o Data(s.block)
    /\ s.at = "body" => t.down = Data(s.block) /\ Len(t.asked) = Len(t.answered)
    /\ s.at = "leave" => f.map = Blocks

\* A client does not get past seeder p without every block.
NotPast(p, s, f, t) ==
    /\ s.at = "destroy" => IsCompleted(f)
    /\ s.at # "idle" => s.peer <= p
    /\ s.at \in OnConnection /\ s.peer = p => Served(s, f, t)

SeederInv(p) == Fresh /\ \A a \in Clients : NotPast(p, client[a], file[a], Socket(a))

\* The peer p serves every block, and no call fails but a load or an fclose.
IsSeeder(p) ==
    /\ p \in Seeders /\ Holds[p] = Blocks
    /\ CallFaults = {} /\ "fseeko" \notin IoFaults /\ "fwrite" \notin IoFaults

\* A client that moves to state s with file f.
LEMMA SeederMoves ==
    ASSUME ClientInv, NEW p, SeederInv(p), NEW a \in Clients, NEW s \in ClientState,
           NEW f \in File,
           client' = [client EXCEPT ![a] = s], file' = [file EXCEPT ![a] = f],
           \A k \in Conns : k[1] = a /\ Unused(s, k) => Unused(client[a], k),
           \A k \in Conns : net'[k] = net[k] \/ (k = Conn(a) /\ ~Unused(s, k)),
           NotPast(p, s, f, net'[<<a, s.run, s.peer>>]),
           \A b \in Clients : b # a => net'[Conn(b)] = net[Conn(b)]
    PROVE  SeederInv(p)'
<1>1. /\ client'[a] = s /\ file'[a] = f
      /\ \A b \in Clients : b # a => client'[b] = client[b] /\ file'[b] = file[b]
  BY DEF ClientInv, ClientTypeOK
<1>2. Fresh'
  <2> SUFFICES ASSUME NEW k \in Conns, Unused(client'[k[1]], k) PROVE net'[k] = FreshLink
    BY DEF Fresh, Unused
  <2>1. k[1] \in Clients
    BY ClientAssumption
  <2>2. Unused(client[k[1]], k)
    BY <1>1, <2>1
  <2>3. net[k] = FreshLink
    BY <2>2 DEF SeederInv, Fresh
  <2>4. k = Conn(a) => k[1] = a
    BY DEF Conn
  <2> QED
    BY <1>1, <2>3, <2>4
<1>3. ASSUME NEW b \in Clients PROVE NotPast(p, client'[b], file'[b], Socket(b)')
  <2>1. CASE b = a
    <3>1. Socket(b)' = net'[<<a, s.run, s.peer>>]
      BY <1>1, <2>1 DEF Socket, Conn
    <3>2. client'[b] = s /\ file'[b] = f
      BY <1>1, <2>1
    <3> QED
      BY <3>1, <3>2, Zenon
  <2>2. CASE b # a
    <3>1. Socket(b)' = Socket(b)
      BY <1>1, <2>2 DEF Socket, Conn
    <3>2. client'[b] = client[b] /\ file'[b] = file[b]
      BY <1>1, <2>2
    <3>3. NotPast(p, client[b], file[b], Socket(b))
      BY DEF SeederInv
    <3> QED
      BY <3>1, <3>2, <3>3, Zenon
  <2> QED
    BY <2>1, <2>2
<1> QED
  BY <1>2, <1>3 DEF SeederInv, NotPast, Served

\* A socket call changes its own connection only.
LEMMA OwnSocket ==
    ASSUME ClientInv, NEW a \in Clients, NEW link, OnSocket(a, link)
    PROVE  /\ \A k \in Conns : k # Conn(a) => net'[k] = net[k]
           /\ Conn(a) \in Conns => net'[Conn(a)] = link
           /\ \A b \in Clients : b # a => net'[Conn(b)] = net[Conn(b)]
<1>1. /\ net \in [Conns -> Link] /\ net' = [net EXCEPT ![Conn(a)] = link]
  BY DEF ClientInv, ClientTypeOK, OnSocket
<1>2. ASSUME NEW b \in Clients, b # a PROVE net'[Conn(b)] = net[Conn(b)]
  <2>1. Conn(b) # Conn(a)
    BY <1>2 DEF Conn
  <2> QED
    BY <1>1, <2>1
<1> QED
  BY <1>1, <1>2

\* A client with its parts, before a step.
LEMMA SeederParts ==
    ASSUME ClientInv, NEW p, SeederInv(p), NEW a \in Clients
    PROVE  /\ client[a].at = "destroy" => IsCompleted(file[a])
           /\ client[a].at # "idle" => client[a].peer <= p
           /\ client[a].at \in OnConnection /\ client[a].peer = p =>
                  Served(client[a], file[a], Socket(a))
  BY DEF SeederInv, NotPast

\* The client goes on, off its connection if it was on one: to the next peer before
\* the seeder, to main with every block, or nowhere.
LEMMA SeederQuiet ==
    ASSUME ClientInv, NEW p, IsSeeder(p), SeederInv(p), NEW a \in Clients,
           Run(a) \/ Killed(a),
           ~Connects(a), ~SendsRequest(a), ~HeaderArrives(a), ~BodyArrives(a),
           NEW s, NEW f \in File,
           client' = [client EXCEPT ![a] = s], file' = [file EXCEPT ![a] = f],
           s.at \in {"idle", "connect", "destroy"},
           s.at = "destroy" => IsCompleted(f), s.at # "idle" => s.peer <= p,
           \/ net' = net
           \/ client[a].at \in OnConnection /\ \E link : OnSocket(a, link)
    PROVE  SeederInv(p)'
<1>1. PICK r : /\ client' = [client EXCEPT ![a] = r] /\ r \in ClientState /\ ~Waiting(r)
               /\ \A k \in Conns : k[1] = a /\ Unused(r, k) => Unused(client[a], k)
  BY QuietStep
<1>2. r = s
  BY <1>1 DEF ClientInv, ClientTypeOK
<1>3. NotPast(p, s, f, net'[<<a, s.run, s.peer>>])
  BY DEF NotPast, OnConnection
<1>4. CASE net' = net
  BY <1>1, <1>2, <1>3, <1>4, SeederMoves
<1>5. CASE client[a].at \in OnConnection /\ \E link : OnSocket(a, link)
  <2>1. Conn(a) \in Conns /\ Conn(a)[1] = a
    BY <1>5, OneClient DEF Conn
  <2>2. ~Unused(client[a], Conn(a))
    BY <1>5, OnIsUsed
  <2>3. ~Unused(s, Conn(a))
    BY <1>1, <1>2, <2>1, <2>2
  <2>4. /\ \A k \in Conns : k # Conn(a) => net'[k] = net[k]
        /\ \A b \in Clients : b # a => net'[Conn(b)] = net[Conn(b)]
    BY <1>5, OwnSocket
  <2>5. \A k \in Conns : net'[k] = net[k] \/ (k = Conn(a) /\ ~Unused(s, k))
    BY <2>3, <2>4
  <2> QED
    BY <1>1, <1>2, <1>3, <2>4, <2>5, SeederMoves
<1> QED
  BY <1>4, <1>5

\* The client stays on its connection, or comes to it.
LEMMA SeederOn ==
    ASSUME ClientInv, NEW p, SeederInv(p), NEW a \in Clients, NEW s \in ClientState,
           NEW f \in File, NEW link,
           client' = [client EXCEPT ![a] = s], file' = [file EXCEPT ![a] = f],
           OnSocket(a, link), Conn(a) \in Conns, s.at \in OnConnection,
           s.run = client[a].run, s.peer = client[a].peer, client[a].peer <= p,
           client[a].peer = p => Served(s, f, link)
    PROVE  SeederInv(p)'
<1>1. /\ ~Unused(s, Conn(a))
      /\ \A k \in Conns : Unused(s, k) => Unused(client[a], k)
  BY OnIsUsed
<1>2. /\ \A k \in Conns : k # Conn(a) => net'[k] = net[k]
      /\ net'[Conn(a)] = link
      /\ \A b \in Clients : b # a => net'[Conn(b)] = net[Conn(b)]
  BY OwnSocket
<1>3. NotPast(p, s, f, net'[<<a, s.run, s.peer>>])
  <2>1. net'[<<a, s.run, s.peer>>] = link
    BY <1>2 DEF Conn
  <2> QED
    BY <2>1 DEF NotPast, OnConnection
<1>4. \A k \in Conns : net'[k] = net[k] \/ (k = Conn(a) /\ ~Unused(s, k))
  BY <1>1, <1>2
<1>5. \A k \in Conns : k[1] = a /\ Unused(s, k) => Unused(client[a], k)
  BY <1>1
<1> QED
  BY <1>2, <1>3, <1>4, <1>5, SeederMoves

\* After these four steps the client is on its connection.
LEMMA StaysOn ==
    ASSUME ClientInv, NEW a \in Clients,
           Connects(a) \/ SendsRequest(a) \/ HeaderArrives(a) \/ BodyArrives(a)
    PROVE  client'[a].at \in {"request", "header", "body", "leave"}
<1>1. client[a] \in ClientState /\ client \in [Clients -> ClientState]
  BY DEF ClientInv, ClientTypeOK
<1>2. ASSUME NEW f, NEW k PROVE NextRequest(a, f, k).at \in {"request", "leave"}
  BY <1>1 DEF NextRequest, ClientState
<1>3. CASE \E f, k : Moves(a, NextRequest(a, f, k))
  BY <1>1, <1>2, <1>3 DEF Moves
<1>4. CASE \E place \in {"header", "body"} : Goes(a, place)
  <2>1. PICK place \in {"header", "body"} : Goes(a, place)
    BY <1>4
  <2>2. client'[a] = [client[a] EXCEPT !.at = place]
    BY <1>1, <2>1 DEF Goes
  <2> QED
    BY <1>1, <2>2 DEF ClientState
<1> QED
  BY <1>3, <1>4 DEF Connects, SendsRequest, HeaderArrives, BodyArrives

\* The answer with block b: its header, then its data.
LEMMA WholeAnswer ==
    ASSUME NEW b \in Blocks
    PROVE  LET answer == << Ok(b) >> \o Data(b)
           IN  /\ answer \in Seq(Unit) /\ Len(answer) = 1 + BlockUnits
               /\ answer # << >> /\ Head(answer) = Ok(b)
               /\ SubSeq(answer, 2, Len(answer)) = Data(b)
               /\ << >> \o answer = answer /\ SubSeq(answer, 1, Len(answer)) = answer
<1> DEFINE one == << Ok(b) >>
           data == Data(b)
           answer == one \o data
<1>1. /\ one \in Seq(Unit) /\ data \in Seq(Unit) /\ Len(data) = BlockUnits
      /\ Len(one) = 1 /\ one[1] = Ok(b)
  BY RequestType, DataType DEF Unit
<1> HIDE DEF one, data
<1>2. /\ answer \in Seq(Unit) /\ Len(answer) = 1 + BlockUnits /\ BlockUnits \in Nat
      /\ answer[1] = one[1] /\ \A j \in 1 .. BlockUnits : answer[1 + j] = data[j]
  <2>1. /\ answer \in Seq(Unit) /\ Len(answer) = Len(one) + Len(data)
        /\ \A j \in 1 .. Len(one) + Len(data) :
              answer[j] = IF j <= Len(one) THEN one[j] ELSE data[j - Len(one)]
    BY <1>1, ConcatProperties
  <2> QED
    BY <1>1, <2>1, WireAssumption
<1> HIDE DEF answer
<1>3. answer # << >> /\ Head(answer) = Ok(b)
  BY <1>1, <1>2
<1>4. SubSeq(answer, 2, Len(answer)) = data
  <2> DEFINE rest == SubSeq(answer, 2, Len(answer))
  <2>1. rest \in Seq(Unit) /\ Len(rest) = BlockUnits
        /\ \A j \in 1 .. BlockUnits : rest[j] = answer[1 + j]
    BY <1>2
  <2> HIDE DEF rest
  <2>2. rest = data
    BY <1>1, <1>2, <2>1
  <2> QED
    BY <2>2 DEF rest
<1>5. << >> \o answer = answer /\ SubSeq(answer, 1, Len(answer)) = answer
  BY <1>2
<1> QED
  BY <1>1, <1>2, <1>3, <1>4, <1>5 DEF answer, one, data

\* Starting: the first peer is not past the seeder.
LEMMA SeederStart ==
    ASSUME ClientInv, NEW p, IsSeeder(p), SeederInv(p), NEW a \in Clients, Start(a)
    PROVE  SeederInv(p)'
<1> DEFINE started == [client[a] EXCEPT !.run = @ + 1, !.peer = 1, !.returned = "none"]
           there == Loaded(file[a].disk)
<1>1. client[a] \in ClientState /\ file[a] \in File /\ client[a].at = "idle" /\ net' = net
  BY DEF Start, At, ClientInv, ClientTypeOK
<1>2. /\ Run(a) /\ ~Connects(a) /\ ~SendsRequest(a) /\ ~HeaderArrives(a) /\ ~BodyArrives(a)
  BY <1>1 DEF Run, ClientStep, Connects, SendsRequest, HeaderArrives, BodyArrives, At
<1>3. p \in Nat /\ 1 <= p
  BY OpenClientAssumption, ClientAssumption DEF IsSeeder
<1>4. /\ started.at = "idle" /\ started.peer = 1
      /\ [started EXCEPT !.at = "destroy", !.returned = "ok"].at = "destroy"
      /\ [started EXCEPT !.at = "destroy", !.returned = "ok"].peer = 1
      /\ [started EXCEPT !.at = "connect"].at = "connect"
      /\ [started EXCEPT !.at = "connect"].peer = 1
      /\ [started EXCEPT !.returned = "error"].at = "idle"
  BY <1>1 DEF ClientState
<1>5. there \in File
  BY <1>1, LoadedOK DEF File
<1>6. \/ /\ file' = [file EXCEPT ![a] = there]
         /\ Moves(a, IF IsCompleted(there)
                     THEN [started EXCEPT !.at = "destroy", !.returned = "ok"]
                     ELSE [started EXCEPT !.at = "connect"])
      \/ Moves(a, [started EXCEPT !.returned = "error"]) /\ UNCHANGED file
  <2>1. file \in [Clients -> File]
    BY DEF ClientInv, ClientTypeOK
  <2> QED
    BY <2>1 DEF Start
<1> HIDE DEF started, there
<1>7. CASE Moves(a, [started EXCEPT !.returned = "error"]) /\ UNCHANGED file
  <2> DEFINE s == [started EXCEPT !.returned = "error"]
  <2>1. client' = [client EXCEPT ![a] = s] /\ file' = [file EXCEPT ![a] = file[a]]
    BY <1>7, SameFile DEF Moves
  <2>2. s.at = "idle"
    BY <1>4
  <2> HIDE DEF s
  <2> QED
    BY <1>1, <1>2, <2>1, <2>2, SeederQuiet
<1>8. CASE /\ file' = [file EXCEPT ![a] = there] /\ IsCompleted(there)
           /\ Moves(a, [started EXCEPT !.at = "destroy", !.returned = "ok"])
  <2> DEFINE s == [started EXCEPT !.at = "destroy", !.returned = "ok"]
  <2>1. client' = [client EXCEPT ![a] = s]
    BY <1>8 DEF Moves
  <2>2. s.at = "destroy" /\ s.peer <= p
    BY <1>3, <1>4
  <2> HIDE DEF s
  <2> QED
    BY <1>1, <1>2, <1>5, <1>8, <2>1, <2>2, SeederQuiet
<1>9. CASE file' = [file EXCEPT ![a] = there] /\ Moves(a, [started EXCEPT !.at = "connect"])
  <2> DEFINE s == [started EXCEPT !.at = "connect"]
  <2>1. client' = [client EXCEPT ![a] = s]
    BY <1>9 DEF Moves
  <2>2. s.at = "connect" /\ s.peer <= p
    BY <1>3, <1>4
  <2> HIDE DEF s
  <2> QED
    BY <1>1, <1>2, <1>5, <1>9, <2>1, <2>2, SeederQuiet
<1> QED
  BY <1>6, <1>7, <1>8, <1>9

\* Being killed, and the end of a run.
LEMMA SeederStops ==
    ASSUME ClientInv, NEW p, IsSeeder(p), SeederInv(p), NEW a \in Clients,
           Destroy(a) \/ Killed(a)
    PROVE  SeederInv(p)'
<1>1. /\ client[a] \in ClientState /\ client \in [Clients -> ClientState]
      /\ file[a] \in File /\ file \in [Clients -> File]
  BY DEF ClientInv, ClientTypeOK
<1>2. CASE Destroy(a)
  <2> DEFINE s == [client[a] EXCEPT !.at = "idle"]
  <2>1. client' = [client EXCEPT ![a] = s] /\ net' = net /\ client[a].at = "destroy"
    BY <1>2, SameFile DEF Destroy, At
  <2>2. PICK f \in FioDestroyTorrent(file[a]) : file' = [file EXCEPT ![a] = f]
    BY <1>2 DEF Destroy
  <2>3. f \in File
    BY <1>1, <2>2, FlushedOK, DroppedOK DEF FioDestroyTorrent
  <2>4. s.at = "idle"
    BY <1>1 DEF ClientState
  <2>5. Run(a) /\ ~Connects(a) /\ ~SendsRequest(a) /\ ~HeaderArrives(a) /\ ~BodyArrives(a)
    BY <1>2, <2>1
       DEF Run, ClientStep, Connects, SendsRequest, HeaderArrives, BodyArrives, At
  <2> HIDE DEF s
  <2> QED
    BY <2>1, <2>2, <2>3, <2>4, <2>5, SeederQuiet
<1>3. CASE Killed(a)
  <2> DEFINE s == [client[a] EXCEPT !.at = "idle", !.block = NoBlock, !.returned = "none"]
  <2>1. /\ client' = [client EXCEPT ![a] = s]
        /\ file' = [file EXCEPT ![a] = Dropped(file[a])]
        /\ net' = net \/ (client[a].at \in OnConnection /\ \E link : OnSocket(a, link))
    BY <1>1, <1>3 DEF Killed, Crash, Moves
  <2>2. s.at = "idle" /\ Dropped(file[a]) \in File
    BY <1>1, DroppedOK DEF ClientState
  <2>3. ~Connects(a) /\ ~SendsRequest(a) /\ ~HeaderArrives(a) /\ ~BodyArrives(a)
    <3>1. client'[a].at = "idle"
      BY <1>1, <2>1, <2>2
    <3> QED
      BY <3>1, StaysOn
  <2> HIDE DEF s
  <2> QED
    BY <1>3, <2>1, <2>2, <2>3, SeederQuiet
<1> QED
  BY <1>2, <1>3

\* A client turns to its next peer only before the seeder, and leaves the seeder only
\* with every block.
LEMMA SeederLeft ==
    ASSUME ClientInv, NEW p, IsSeeder(p), SeederInv(p), NEW a \in Clients, Run(a),
           \/ NoMorePeers(a) \/ SocketFails(a) \/ (~Listening(a) /\ ConnectFails(a))
           \/ Leaves(a) \/ SendFails(a) \/ RefusesHeader(a) \/ NoHeader(a) \/ NoBody(a)
    PROVE  SeederInv(p)'
<1>1. /\ client[a] \in ClientState /\ client \in [Clients -> ClientState]
      /\ file[a] \in File /\ file \in [Clients -> File]
  BY DEF ClientInv, ClientTypeOK
<1>2. p \in Nat /\ p <= PeerCount /\ client[a].peer \in Nat /\ PeerCount \in Nat
  BY <1>1, OpenClientAssumption, ClientAssumption DEF IsSeeder, ClientState
<1>3. client[a].at \notin {"idle", "destroy"} /\ client[a].peer <= p /\ UNCHANGED file
  <2>1. client[a].at \in {"connect", "leave", "request", "header", "body"} /\ UNCHANGED file
    BY DEF NoMorePeers, SocketFails, ConnectFails, Leaves, SendFails, RefusesHeader,
           NoHeader, NoBody, GivesUp, At
  <2> QED
    BY <2>1, SeederParts
<1>4. /\ ~SocketFails(a) /\ ~NoMorePeers(a)
  BY <1>2, <1>3 DEF SocketFails, NoMorePeers, IsSeeder
<1>5. \/ net' = net
      \/ client[a].at \in OnConnection /\ \E link : OnSocket(a, link)
  BY <1>4 DEF ConnectFails, Leaves, SendFails, RefusesHeader, NoHeader, NoBody,
              GivesUp, At, OnConnection
<1>6. file' = [file EXCEPT ![a] = file[a]]
  BY <1>3, SameFile
<1>7. /\ ToNextPeer(a).at = "connect" /\ ToNextPeer(a).peer = client[a].peer + 1
      /\ Returns(a, "ok").at = "destroy" /\ Returns(a, "ok").peer = client[a].peer
  BY <1>1 DEF ToNextPeer, Returns, ClientState
<1>8. \/ Moves(a, ToNextPeer(a)) /\ client[a].peer # p
      \/ Moves(a, Returns(a, "ok")) /\ IsCompleted(file[a])
  <2>1. client[a].at \in OnConnection /\ client[a].peer = p =>
            Served(client[a], file[a], Socket(a))
    BY SeederParts
  <2>2. CASE ~Listening(a) /\ ConnectFails(a)
    BY <2>2 DEF Listening, ConnectFails, IsSeeder
  <2>3. CASE Leaves(a)
    <3>1. client[a].peer = p => IsCompleted(file[a])
      BY <2>1, <2>3 DEF Leaves, At, OnConnection, Served, IsCompleted
    <3> QED
      BY <2>3, <3>1 DEF Leaves, IsSeeder
  <2>4. CASE SendFails(a)
    <3>1. client[a].at = "request" /\ Socket(a).srv = "closed" /\ Moves(a, ToNextPeer(a))
      BY <2>4 DEF SendFails, At, IsSeeder, GivesUp
    <3> QED
      BY <2>1, <3>1 DEF OnConnection, Served
  <2>5. CASE NoHeader(a) \/ NoBody(a)
    <3>1. /\ client[a].at \in {"header", "body"} /\ Socket(a).srv = "closed"
          /\ Moves(a, ToNextPeer(a))
      BY <2>5 DEF NoHeader, NoBody, ReceivesNothing, EndsBefore, At, GivesUp, IsSeeder
    <3> QED
      BY <2>1, <3>1 DEF OnConnection, Served
  <2>6. CASE RefusesHeader(a)
    <3>1. /\ client[a].at = "header" /\ Has(a, 1) /\ Moves(a, ToNextPeer(a))
          /\ Head(Socket(a).down) # Ok(client[a].block)
      BY <2>6 DEF RefusesHeader, At
    <3>2. ASSUME client[a].peer = p PROVE FALSE
      <4>1. \/ Socket(a).down = << >>
            \/ Socket(a).down = << Ok(client[a].block) >> \o Data(client[a].block)
        BY <2>1, <3>1, <3>2 DEF OnConnection, Served
      <4>2. Socket(a).down # << >>
        BY <3>1 DEF Has
      <4>3. client[a].block \in Blocks
        BY <3>1, OneClient DEF PlaceOK, OnConnection
      <4>4. Head(<< Ok(client[a].block) >> \o Data(client[a].block)) = Ok(client[a].block)
        BY <4>3, WholeAnswer
      <4> QED
        BY <3>1, <4>1, <4>2, <4>4
    <3> QED
      BY <3>1, <3>2
  <2> QED
    BY <1>4, <2>2, <2>3, <2>4, <2>5, <2>6
<1>9. CASE Moves(a, ToNextPeer(a)) /\ client[a].peer # p
  <2> DEFINE s == ToNextPeer(a)
  <2>1. client' = [client EXCEPT ![a] = s] /\ s.at = "connect" /\ s.peer <= p
    BY <1>2, <1>3, <1>7, <1>9 DEF Moves
  <2>2. ~Connects(a) /\ ~SendsRequest(a) /\ ~HeaderArrives(a) /\ ~BodyArrives(a)
    <3>1. client'[a].at = "connect"
      BY <1>1, <2>1
    <3> QED
      BY <3>1, StaysOn
  <2> HIDE DEF s
  <2> QED
    BY <1>1, <1>5, <1>6, <2>1, <2>2, SeederQuiet
<1>10. CASE Moves(a, Returns(a, "ok")) /\ IsCompleted(file[a])
  <2> DEFINE s == Returns(a, "ok")
  <2>1. client' = [client EXCEPT ![a] = s] /\ s.at = "destroy" /\ s.peer <= p
    BY <1>2, <1>3, <1>7, <1>10 DEF Moves
  <2>2. ~Connects(a) /\ ~SendsRequest(a) /\ ~HeaderArrives(a) /\ ~BodyArrives(a)
    <3>1. client'[a].at = "destroy"
      BY <1>1, <2>1
    <3> QED
      BY <3>1, StaysOn
  <2> HIDE DEF s
  <2> QED
    BY <1>1, <1>5, <1>6, <1>10, <2>1, <2>2, SeederQuiet
<1> QED
  BY <1>8, <1>9, <1>10

\* The loop over the blocks passes over no block that is missing.
LEMMA NextMissing ==
    ASSUME ClientInv, NEW a \in Clients, NEW f \in File, NEW k \in Nat,
           \A b \in Blocks : b < k => b \in f.map
    PROVE  LET s == NextRequest(a, f, k)
           IN  /\ s.at = "request" => \A b \in Blocks : b < s.block => b \in f.map
               /\ s.at = "leave" => f.map = Blocks
<1> DEFINE s == NextRequest(a, f, k)
           m == CHOOSE b \in MissingFrom(f, k) : \A other \in MissingFrom(f, k) : b <= other
<1>1. client[a] \in ClientState /\ f.map \subseteq Blocks /\ Blocks \subseteq Nat
  BY WireAssumption DEF ClientInv, ClientTypeOK, File, Blocks
<1>2. CASE MissingFrom(f, k) = {}
  <2>1. s.at = "leave"
    BY <1>1, <1>2 DEF NextRequest, ClientState
  <2>2. \A b \in Blocks : b \in f.map
    BY <1>1, <1>2 DEF MissingFrom
  <2> QED
    BY <1>1, <2>1, <2>2
<1>3. CASE MissingFrom(f, k) # {}
  <2>1. MissingFrom(f, k) \in SUBSET Blocks
    BY DEF MissingFrom
  <2>2. m \in MissingFrom(f, k) /\ \A other \in MissingFrom(f, k) : m <= other
    BY <1>3, <2>1, LeastBlock
  <2>3. s = [client[a] EXCEPT !.at = "request", !.block = m]
    BY <1>3 DEF NextRequest
  <2> HIDE DEF m
  <2>4. s.at = "request" /\ s.block = m
    BY <1>1, <2>3 DEF ClientState
  <2>5. ASSUME NEW b \in Blocks, b < m PROVE b \in f.map
    <3>1. b \in Nat /\ m \in Nat
      BY <1>1, <2>1, <2>2
    <3>2. b \notin MissingFrom(f, k)
      BY <2>2, <2>5, <3>1
    <3> QED
      BY <1>1, <3>1, <3>2 DEF MissingFrom
  <2> QED
    BY <2>4, <2>5
<1> QED
  BY <1>2, <1>3

\* The seeder accepts: nothing is on the way yet.
LEMMA SeederConnects ==
    ASSUME ClientInv, NEW p, IsSeeder(p), SeederInv(p), NEW a \in Clients, Connects(a)
    PROVE  SeederInv(p)'
<1> DEFINE s == NextRequest(a, file[a], 0)
           link == Connected(Socket(a))
<1>1. /\ client[a] \in ClientState /\ file[a] \in File /\ client[a].at = "connect"
      /\ client[a].peer <= PeerCount /\ client[a].peer <= p
  <2>1. client[a].at = "connect" /\ client[a].peer <= PeerCount
    BY DEF Connects, At
  <2> QED
    BY <2>1, SeederParts DEF ClientInv, ClientTypeOK
<1>2. Conn(a) \in Conns
  <2>1. client[a].run \in 1 .. MaxRuns /\ client[a].peer \in 1 .. PeerCount
    BY <1>1, OneClient, ClientAssumption DEF ClientState, PlaceOK
  <2> QED
    BY <2>1, ClientAssumption DEF Conn
<1>3. Socket(a) = FreshLink
  <2>1. Unused(client[a], Conn(a)) /\ Conn(a)[1] = a
    BY <1>1 DEF Unused, Conn
  <2> QED
    BY <1>2, <2>1 DEF SeederInv, Fresh, Socket
<1>4. /\ link.srv = "queued" /\ link.down = << >> /\ link.asked = << >>
      /\ link.answered = << >>
  BY <1>3 DEF Connected, FreshLink
<1>5. /\ s \in ClientState /\ s.at \in {"request", "leave"}
      /\ s.run = client[a].run /\ s.peer = client[a].peer
  BY <1>1, <1>2, NextRequestOK
<1>6. /\ s.at = "request" => \A b \in Blocks : b < s.block => b \in file[a].map
      /\ s.at = "leave" => file[a].map = Blocks
  <2>1. \A b \in Blocks : b < 0 => b \in file[a].map
    BY WireAssumption DEF Blocks
  <2> QED
    BY <1>1, <2>1, NextMissing
<1>7. client' = [client EXCEPT ![a] = s] /\ file' = [file EXCEPT ![a] = file[a]]
  BY SameFile DEF Connects, Moves
<1>8. OnSocket(a, link)
  BY DEF Connects
<1> HIDE DEF s, link
<1>9. Served(s, file[a], link)
  BY <1>4, <1>5, <1>6 DEF Served
<1>10. s.at \in OnConnection
  BY <1>5 DEF OnConnection
<1> QED
  BY <1>1, <1>2, <1>5, <1>7, <1>8, <1>9, <1>10, SeederOn

\* A request goes to the seeder: one more asked than answered.
LEMMA SeederSends ==
    ASSUME ClientInv, NEW p, IsSeeder(p), SeederInv(p), NEW a \in Clients, SendsRequest(a)
    PROVE  SeederInv(p)'
<1> DEFINE s == [client[a] EXCEPT !.at = "header"]
           k == client[a].block
<1>1. /\ client[a] \in ClientState /\ file[a] \in File /\ client[a].at = "request"
      /\ client[a].peer <= p
  <2>1. client[a].at = "request"
    BY DEF SendsRequest, At
  <2> QED
    BY <2>1, SeederParts DEF ClientInv, ClientTypeOK
<1>2. Conn(a) \in Conns /\ Socket(a) \in Link /\ k \in 0 .. BlockCount
  BY <1>1, OneClient DEF OnConnection, ClientState
<1>3. /\ s \in ClientState /\ s.at = "header" /\ s.block = k
      /\ s.run = client[a].run /\ s.peer = client[a].peer
  BY <1>1 DEF ClientState
<1>4. client' = [client EXCEPT ![a] = s] /\ file' = [file EXCEPT ![a] = file[a]]
  BY SameFile DEF SendsRequest
<1>5. PICK t \in Sent(Socket(a), Request(k)) : OnSocket(a, t)
  BY DEF SendsRequest
<1>6. ASSUME client[a].peer = p PROVE Served(s, file[a], t)
  <2>1. Served(client[a], file[a], Socket(a))
    BY <1>1, <1>6, SeederParts DEF OnConnection
  <2>2. /\ Socket(a).srv # "closed" /\ Socket(a).down = << >>
        /\ Len(Socket(a).asked) = Len(Socket(a).answered)
        /\ \A b \in Blocks : b < k => b \in file[a].map
    BY <1>1, <2>1 DEF Served
  <2>3. /\ t.srv = Socket(a).srv /\ t.down = Socket(a).down
        /\ t.answered = Socket(a).answered /\ t.asked = Append(Socket(a).asked, k)
    BY <1>2, <1>5, <2>2 DEF Sent, Link, Request
  <2> DEFINE asked == Socket(a).asked
  <2>4. asked \in Seq(0 .. BlockCount) /\ Len(asked) = Len(Socket(a).answered)
    BY <1>2, <2>2, LinkFields
  <2> HIDE DEF asked, k
  <2>5. /\ Append(asked, k) # << >> /\ Len(Append(asked, k)) = Len(asked) + 1
        /\ Append(asked, k)[Len(Append(asked, k))] = k
    BY <1>2, <2>4
  <2>6. t.asked = Append(asked, k)
    BY <2>3 DEF asked
  <2>7. t.asked # << >> /\ t.asked[Len(t.asked)] = k /\ Len(t.asked) = Len(t.answered) + 1
    BY <2>3, <2>4, <2>5, <2>6
  <2> HIDE DEF s
  <2> QED
    BY <1>3, <2>2, <2>3, <2>7 DEF Served
<1> HIDE DEF s
<1>7. s.at \in OnConnection
  BY <1>3 DEF OnConnection
<1> QED
  BY <1>1, <1>2, <1>3, <1>4, <1>5, <1>6, <1>7, SeederOn

\* The header read leaves the data of the block.
LEMMA SeederHeader ==
    ASSUME ClientInv, NEW p, IsSeeder(p), SeederInv(p), NEW a \in Clients, HeaderArrives(a)
    PROVE  SeederInv(p)'
<1> DEFINE s == [client[a] EXCEPT !.at = "body"]
           k == client[a].block
           link == Taken(a, 1)
<1>1. /\ client[a] \in ClientState /\ file[a] \in File /\ client[a].at = "header"
      /\ client[a].peer <= p
  <2>1. client[a].at = "header"
    BY DEF HeaderArrives, At
  <2> QED
    BY <2>1, SeederParts DEF ClientInv, ClientTypeOK
<1>2. Conn(a) \in Conns /\ Socket(a) \in Link /\ k \in Blocks
  BY <1>1, OneClient DEF OnConnection, PlaceOK
<1>3. /\ s \in ClientState /\ s.at = "body" /\ s.block = k
      /\ s.run = client[a].run /\ s.peer = client[a].peer
  BY <1>1 DEF ClientState
<1>4. /\ client' = [client EXCEPT ![a] = s] /\ file' = [file EXCEPT ![a] = file[a]]
      /\ OnSocket(a, link) /\ Has(a, 1)
  BY SameFile DEF HeaderArrives
<1>5. ASSUME client[a].peer = p PROVE Served(s, file[a], link)
  <2>1. Served(client[a], file[a], Socket(a))
    BY <1>1, <1>5, SeederParts DEF OnConnection
  <2>2. Socket(a).down # << >>
    BY <1>4 DEF Has
  <2>3. /\ Socket(a).srv # "closed" /\ Len(Socket(a).asked) = Len(Socket(a).answered)
        /\ Socket(a).down = << Ok(k) >> \o Data(k)
        /\ \A b \in Blocks : b < k => b \in file[a].map
    BY <1>1, <2>1, <2>2 DEF Served
  <2>4. /\ link.srv = Socket(a).srv /\ link.asked = Socket(a).asked
        /\ link.answered = Socket(a).answered
        /\ link.down = SubSeq(Socket(a).down, 2, Len(Socket(a).down))
    BY <1>2 DEF Taken, Link
  <2>5. link.down = Data(k)
    BY <1>2, <2>3, <2>4, WholeAnswer, Zenon
  <2> HIDE DEF s, link, k
  <2> QED
    BY <1>3, <2>3, <2>4, <2>5 DEF Served
<1> HIDE DEF s, link
<1>6. s.at \in OnConnection
  BY <1>3 DEF OnConnection
<1> QED
  BY <1>1, <1>2, <1>3, <1>4, <1>5, <1>6, SeederOn

\* The data read is right and is stored: the block is there, and nothing is left to read.
LEMMA SeederBody ==
    ASSUME ClientInv, NEW p, IsSeeder(p), SeederInv(p), NEW a \in Clients, BodyArrives(a)
    PROVE  SeederInv(p)'
<1> DEFINE k == client[a].block
           right == SubSeq(Socket(a).down, 1, BlockUnits) = Data(k)
           link == Taken(a, BlockUnits)
<1>1. /\ client[a] \in ClientState /\ file[a] \in File /\ client[a].at = "body"
      /\ client[a].peer <= p
  <2>1. client[a].at = "body"
    BY DEF BodyArrives, At
  <2> QED
    BY <2>1, SeederParts DEF ClientInv, ClientTypeOK
<1>2. /\ Conn(a) \in Conns /\ Socket(a) \in Link /\ k \in Blocks /\ k \notin file[a].map
      /\ FileOK(file[a]) /\ Promised(file[a])
  BY <1>1, OneClient DEF OnConnection, PlaceOK
<1>3. PICK f \in FioStoreBlock(file[a], k, right) :
          /\ file' = [file EXCEPT ![a] = f]
          /\ client' = [client EXCEPT ![a] = NextRequest(a, f, k + 1)]
  BY DEF BodyArrives, Moves
<1>4. OnSocket(a, link)
  BY DEF BodyArrives
<1>5. right \in BOOLEAN
  OBVIOUS
<1>6. f \in File /\ k \in Nat /\ k + 1 \in Nat
  <2> HIDE DEF right
  <2> QED
    BY <1>1, <1>2, <1>3, <1>5, StoreOK, WireAssumption DEF Blocks
<1> DEFINE s == NextRequest(a, f, k + 1)
<1>7. /\ s \in ClientState /\ s.at \in {"request", "leave"}
      /\ s.run = client[a].run /\ s.peer = client[a].peer
  BY <1>2, <1>6, NextRequestOK
<1>8. ASSUME client[a].peer = p PROVE Served(s, f, link)
  <2>1. Served(client[a], file[a], Socket(a))
    BY <1>1, <1>8, SeederParts DEF OnConnection
  <2>2. /\ Socket(a).srv # "closed" /\ Len(Socket(a).asked) = Len(Socket(a).answered)
        /\ Socket(a).down = Data(k) /\ \A b \in Blocks : b < k => b \in file[a].map
    BY <1>1, <2>1 DEF Served
  <2>3. Data(k) \in Seq(Unit) /\ Len(Data(k)) = BlockUnits /\ BlockUnits \in Nat
    BY <1>2, DataType, WireAssumption
  <2>4. SubSeq(Data(k), 1, BlockUnits) = Data(k)
        /\ SubSeq(Data(k), BlockUnits + 1, BlockUnits) = << >>
    <3> DEFINE data == Data(k)
    <3>1. data \in Seq(Unit) /\ Len(data) = BlockUnits /\ BlockUnits \in Nat
      BY <2>3
    <3> HIDE DEF data
    <3>2. SubSeq(data, 1, BlockUnits) = data
      BY <3>1
    <3>3. SubSeq(data, BlockUnits + 1, BlockUnits) = << >>
      BY <3>1
    <3> QED
      BY <3>2, <3>3 DEF data
  <2>5. right
    BY <2>2, <2>4
  <2>6. f.map = file[a].map \cup {k}
    <3>1. f \in Stored(file[a], k)
      BY <1>3, <2>5 DEF FioStoreBlock, StoreFailed, IsSeeder
    <3> DEFINE w == Flushed(file[a])
    <3>2. w \in File /\ w.map = file[a].map
      BY <1>1, FlushedOK
    <3>3. \/ f = [w EXCEPT !.map = @ \cup {k}, !.disk = @ \cup {k}]
          \/ f = [w EXCEPT !.map = @ \cup {k}, !.disk = @ \ {k}, !.pend = {k}]
      BY <3>1 DEF Stored
    <3> HIDE DEF w, k
    <3> QED
      BY <3>2, <3>3 DEF File
  <2>7. ASSUME NEW b \in Blocks, b < k + 1 PROVE b \in f.map
    <3>1. b \in Nat
      BY WireAssumption DEF Blocks
    <3>2. b < k \/ b = k
      BY <1>6, <2>7, <3>1
    <3> QED
      BY <2>2, <2>6, <3>2
  <2>8. /\ s.at = "request" => \A b \in Blocks : b < s.block => b \in f.map
        /\ s.at = "leave" => f.map = Blocks
    BY <1>6, <2>7, NextMissing
  <2>9. /\ link.srv = Socket(a).srv /\ link.asked = Socket(a).asked
        /\ link.answered = Socket(a).answered
        /\ link.down = SubSeq(Socket(a).down, BlockUnits + 1, Len(Socket(a).down))
    BY <1>2 DEF Taken, Link
  <2>10. link.down = << >>
    BY <2>2, <2>3, <2>4, <2>9
  <2> HIDE DEF s, link, k, right
  <2> QED
    BY <1>7, <2>2, <2>8, <2>9, <2>10 DEF Served
<1>9. client' = [client EXCEPT ![a] = s]
  BY <1>3
<1> HIDE DEF s, link, right
<1>10. s.at \in OnConnection
  BY <1>7 DEF OnConnection
<1> QED
  BY <1>1, <1>2, <1>3, <1>4, <1>6, <1>7, <1>8, <1>9, <1>10, SeederOn

\* The peers move: the seeder answers what it was asked last, and does nothing else
\* on a connection with a client.
LEMMA SeederPeers ==
    ASSUME ClientInv, NEW p, IsSeeder(p), SeederInv(p), PeersNext
    PROVE  SeederInv(p)'
<1>1. PICK k \in Conns : Serve(k) \/ Babble(k) \/ HangUp(k)
  BY DEF PeersNext
<1>2. /\ net \in [Conns -> Link] /\ net[k] \in Link
  BY DEF ClientInv, ClientTypeOK
<1>3. PICK link : PeerMoves(k, link)
  BY <1>1 DEF Serve, Babble, HangUp
<1>4. /\ client' = client /\ file' = file /\ net'[k] = link
      /\ \A j \in Conns : j # k => net'[j] = net[j]
  BY <1>2, <1>3 DEF PeerMoves, clientVars
<1>5. net[k].srv # "none"
  BY <1>1 DEF Serve, Babble, HangUp
<1>6. Fresh'
  <2> SUFFICES ASSUME NEW j \in Conns, Unused(client[j[1]], j) PROVE net'[j] = FreshLink
    BY <1>4 DEF Fresh, Unused
  <2>1. net[j] = FreshLink
    BY DEF SeederInv, Fresh
  <2>2. j # k
    BY <1>5, <2>1 DEF FreshLink
  <2> QED
    BY <1>4, <2>1, <2>2
<1>7. ASSUME NEW a \in Clients, Conn(a) # k PROVE NotPast(p, client[a], file[a], Socket(a))'
  <2>1. NotPast(p, client[a], file[a], Socket(a))
    BY DEF SeederInv
  <2>2. ASSUME client[a].at \in OnConnection PROVE Socket(a)' = Socket(a)
    <3>1. Conn(a) \in Conns
      BY <2>2, OneClient
    <3> QED
      BY <1>4, <1>7, <3>1 DEF Socket, Conn
  <2>3. client'[a] = client[a] /\ file'[a] = file[a]
    BY <1>4
  <2>4. CASE client[a].at \in OnConnection
    BY <2>1, <2>2, <2>3, <2>4, Zenon DEF NotPast, Served
  <2>5. CASE client[a].at \notin OnConnection
    BY <2>1, <2>3, <2>5 DEF NotPast
  <2> QED
    BY <2>4, <2>5
<1>8. ASSUME NEW a \in Clients, Conn(a) = k PROVE NotPast(p, client[a], file[a], Socket(a))'
  <2>1. NotPast(p, client[a], file[a], net[k])
    BY <1>8 DEF SeederInv, Socket
  <2>2. client'[a] = client[a] /\ file'[a] = file[a] /\ Socket(a)' = link
    BY <1>4, <1>8 DEF Socket, Conn
  <2> SUFFICES ASSUME client[a].at \in OnConnection, client[a].peer = p
               PROVE  Served(client[a], file[a], link)
    BY <2>1, <2>2, Zenon DEF NotPast
  <2>3. Served(client[a], file[a], net[k])
    BY <2>1 DEF NotPast
  <2>4. Seeded(k) /\ PeerOf(k) = p
    BY <1>8 DEF Seeded, PeerOf, Conn, IsSeeder
  <2>5. net[k].cli = "open"
    <3>1. k[1] = a
      BY <1>8 DEF Conn
    <3> QED
      BY <1>8, <3>1 DEF ClientInv, OneSocket
  <2>6. Serve(k)
    BY <1>1, <2>4, <2>5 DEF Babble, HangUp, Left
  <2>7. CASE client[a].at # "header"
    <3>2. CASE client[a].at \in {"request", "body"}
      <4>1. Len(net[k].asked) = Len(net[k].answered)
        BY <2>3, <3>2 DEF Served
      <4>2. /\ Len(net[k].asked) > Len(net[k].answered) /\ Len(net[k].asked) \in Nat
        BY <1>2, <2>6, LinkFields DEF Serve
      <4> QED
        BY <4>1, <4>2
    <3>3. CASE client[a].at = "leave"
      <4>1. PICK t, units, b : /\ link = SendAll(t, units, Len(units), b)
                                     /\ t \in Link /\ t.srv = net[k].srv
        <5> DEFINE t == [net[k] EXCEPT !.up = << >>]
        <5>1. t \in Link /\ t.srv = net[k].srv
          <6>1. << >> \in Seq(Half)
            OBVIOUS
          <6> QED
            BY <1>2, <6>1 DEF Link
        <5>2. PICK units, b : net' = [net EXCEPT ![k] = SendAll(t, units, Len(units), b)]
          BY <2>6 DEF Serve, PeerMoves
        <5> HIDE DEF t
        <5>3. link = SendAll(t, units, Len(units), b)
          BY <1>2, <1>4, <5>2
        <5> QED
          BY <5>1, <5>3
      <4>2. link.srv = t.srv
        <5> DEFINE w == Written(t, SubSeq(units, 1, Len(units)))
        <5>1. w.srv = t.srv
          BY DEF Written, Link
        <5> HIDE DEF w
        <5> QED
          BY <4>1, <5>1 DEF SendAll, w
      <4> QED
        BY <2>3, <3>3, <4>1, <4>2 DEF Served
    <3> QED
      BY <2>7, <3>2, <3>3 DEF OnConnection
  <2>8. CASE client[a].at = "header"
    <3> DEFINE b == client[a].block
               answer == << Ok(b) >> \o Data(b)
               t == [net[k] EXCEPT !.up = << >>]
               sent == SendAll(t, answer, Len(answer), b)
    <3>1. b \in Blocks /\ b \in Holds[p] /\ b \in 0 .. BlockCount
      BY <2>8, OneClient DEF PlaceOK, OnConnection, IsSeeder, ClientState
    <3>2. /\ net[k].srv # "closed" /\ \A c \in Blocks : c < b => c \in file[a].map
          /\ net[k].asked # << >> /\ net[k].asked[Len(net[k].asked)] = b
          /\ \/ Len(net[k].asked) = Len(net[k].answered) + 1 /\ net[k].down = << >>
             \/ Len(net[k].asked) = Len(net[k].answered)
      BY <2>3, <2>8 DEF Served
    <3>3. Len(net[k].asked) = Len(net[k].answered) + 1 /\ net[k].down = << >>
      <4>1. Len(net[k].asked) > Len(net[k].answered) /\ Len(net[k].asked) \in Nat
        BY <1>2, <2>6, LinkFields DEF Serve
      <4> QED
        BY <3>2, <4>1
    <3>4. PeerMoves(k, sent)
      <4>1. \E units \in IF b \in Holds[p] THEN {answer}
                         ELSE {<< [Garbage EXCEPT !.code = MSG_RESPONSE_NA] >>} :
                PeerMoves(k, SendAll(t, units, Len(units), b))
        BY <2>4, <2>6, <3>2 DEF Serve
      <4> HIDE DEF answer, t
      <4> QED
        BY <3>1, <4>1
    <3> HIDE DEF answer, sent
    <3>5. link = sent
      BY <1>2, <1>4, <3>4 DEF PeerMoves
    <3>6. << >> \o answer = answer /\ SubSeq(answer, 1, Len(answer)) = answer
      BY <3>1, WholeAnswer DEF answer
    <3>7. /\ t \in Link /\ t.srv = net[k].srv /\ t.down = << >> /\ t.cli = "open"
          /\ t.asked = net[k].asked /\ t.answered = net[k].answered
      <4>1. << >> \in Seq(Half)
        OBVIOUS
      <4> QED
        BY <1>2, <2>5, <3>3, <4>1 DEF Link
    <3> HIDE DEF t, b
    <3> DEFINE w == Written(t, SubSeq(answer, 1, Len(answer)))
    <3>8. w = [t EXCEPT !.down = answer]
      BY <3>6, <3>7 DEF Written
    <3>9. sent = [w EXCEPT !.answered = Append(t.answered, b)]
      <4>1. w.answered = t.answered
        BY <3>7, <3>8 DEF Link
      <4> HIDE DEF w
      <4>2. sent = [w EXCEPT !.answered = IF t.cli = "open" THEN Append(@, b) ELSE @]
        BY DEF sent, SendAll, w
      <4> QED
        BY <3>7, <4>1, <4>2
    <3> HIDE DEF w
    <3>10. /\ sent.srv = net[k].srv /\ sent.down = answer /\ sent.asked = net[k].asked
           /\ sent.answered = Append(net[k].answered, b)
      BY <3>7, <3>8, <3>9 DEF Link
    <3>11. Len(sent.answered) = Len(net[k].answered) + 1
      <4> DEFINE answered == net[k].answered
      <4>1. answered \in Seq(0 .. BlockCount)
        BY <1>2, LinkFields
      <4> HIDE DEF answered
      <4>2. Len(Append(answered, b)) = Len(answered) + 1
        BY <3>1, <4>1
      <4> QED
        BY <3>10, <4>2 DEF answered
    <3>12. /\ link.srv # "closed" /\ link.asked # << >> /\ link.asked[Len(link.asked)] = b
           /\ Len(link.asked) = Len(link.answered) /\ link.down = answer
      BY <3>2, <3>3, <3>5, <3>10, <3>11
    <3>13. link.down = << Ok(b) >> \o Data(b)
      BY <3>12 DEF answer
    <3> QED
      BY <2>8, <3>2, <3>12, <3>13 DEF Served, b
  <2> QED
    BY <2>7, <2>8
<1> QED
  BY <1>6, <1>7, <1>8 DEF SeederInv

\* Every step keeps the clients behind the seeder.
LEMMA SeederNext ==
    ASSUME ClientInv, NEW p, IsSeeder(p), SeederInv(p), [Next]_transfer
    PROVE  SeederInv(p)'
<1>1. CASE UNCHANGED transfer
  <2>1. client' = client /\ file' = file /\ net' = net
    BY <1>1 DEF transfer, clientVars
  <2>2. Fresh'
    BY <2>1 DEF SeederInv, Fresh, Unused
  <2>3. ASSUME NEW a \in Clients PROVE NotPast(p, client[a], file[a], Socket(a))'
    <3>1. NotPast(p, client[a], file[a], Socket(a))
      BY DEF SeederInv
    <3>2. /\ client'[a] = client[a] /\ file'[a] = file[a] /\ Socket(a)' = Socket(a)
      BY <2>1 DEF Socket, Conn
    <3> QED
      BY <3>1, <3>2, Zenon DEF NotPast, Served
  <2> QED
    BY <2>2, <2>3 DEF SeederInv
<1>2. ASSUME NEW a \in Clients, Run(a) \/ Killed(a) PROVE SeederInv(p)'
  <2>1. CASE Start(a)
    BY <2>1, SeederStart
  <2>2. CASE Destroy(a) \/ Killed(a)
    BY <2>2, SeederStops
  <2>3. CASE Connects(a)
    BY <2>3, SeederConnects
  <2>4. CASE SendsRequest(a)
    BY <2>4, SeederSends
  <2>5. CASE HeaderArrives(a)
    BY <2>5, SeederHeader
  <2>6. CASE BodyArrives(a)
    BY <2>6, SeederBody
  <2>7. CASE /\ Run(a)
             /\ \/ NoMorePeers(a) \/ SocketFails(a) \/ (~Listening(a) /\ ConnectFails(a))
                \/ Leaves(a) \/ SendFails(a) \/ RefusesHeader(a) \/ NoHeader(a) \/ NoBody(a)
    BY <2>7, SeederLeft
  <2>8. Connect(a) => Connects(a) \/ (~Listening(a) /\ ConnectFails(a))
    BY DEF Connect, ConnectStep, IsSeeder
  <2> QED
    BY <1>2, <2>1, <2>2, <2>3, <2>4, <2>5, <2>6, <2>7, <2>8 DEF Run, ClientStep
<1> QED
  BY <1>1, <1>2, SeederPeers DEF Next, ClientsNext

\* At first no client runs and nothing is connected.
LEMMA SeederInit == ASSUME Init, NEW p PROVE SeederInv(p)
<1>1. \A k \in Conns : net[k] = FreshLink
  BY DEF Init, NetInit, FreshLink
<1>2. \A a \in Clients : client[a].at = "idle"
  BY DEF Init, ClientInit
<1> QED
  BY <1>1, <1>2 DEF SeederInv, Fresh, NotPast, OnConnection

\* With a seeder of every block among any number of peers, and no socket call, fseeko
\* or fwrite failing, a client that has tried its peers holds every block, whatever
\* the strangers did on their turns, whichever loads failed and however often it was
\* killed.
THEOREM SeederEnough ==
    ASSUME CallFaults = {}, "fseeko" \notin IoFaults, "fwrite" \notin IoFaults
    PROVE  Spec => []SeederCompletes
<1>1. CASE ~(\E p \in Seeders : Holds[p] = Blocks)
  <2>1. SeederCompletes
    BY <1>1 DEF SeederCompletes
  <2> QED
    BY <2>1, PTL
<1>2. CASE \E p \in Seeders : Holds[p] = Blocks
  <2>1. PICK p \in Seeders : Holds[p] = Blocks
    BY <1>2
  <2>2. IsSeeder(p)
    BY <2>1 DEF IsSeeder
  <2>3. Init => SeederInv(p)
    BY SeederInit
  <2>4. ClientInv /\ SeederInv(p) /\ [Next]_transfer => SeederInv(p)'
    BY <2>2, SeederNext
  <2>5. SeederInv(p) => SeederCompletes
    BY DEF SeederInv, NotPast, SeederCompletes, At
  <2> QED
    BY <2>3, <2>4, <2>5, ClientInitInv, ClientNextInv, PTL DEF Spec, Init
<1> QED
  BY <1>1, <1>2
=============================================================================

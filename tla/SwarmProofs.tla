---------------------------- MODULE SwarmProofs ----------------------------
(***************************************************************************)
(* Clients and server together: the invariants of both programs hold when  *)
(* each is the other's environment, and the whole implements the safe half *)
(* of Download, for any number of clients, runs, descriptors and blocks,   *)
(* any failing calls and any kills.  On a single connection the answer a   *)
(* client waits for is the one it is given.                                *)
(***************************************************************************)
EXTENDS Swarm, ServerProofs, ClientProofs

\* The units the server can send: headers, and data of blocks it holds.
Genuine == Message \cup [of : Have, part : 1 .. BlockUnits]

\* What waits on the connections, or in a buffer of a client, comes from the server.
FromHave == /\ \A k \in Conns : net[k].down \in Seq(Genuine)
            /\ \A a \in Clients : file[a].pend \subseteq Have

SwarmInv == TypeOK /\ ArrayInv /\ ClientInv /\ FromHave

----------------------------------------------------------------------------
(* What the server sends.                                                   *)

\* A header and the data of a block the server holds, or a refusal, is genuine.
LEMMA ResponseGenuine ==
    /\ \A b \in Have : Response(b) \in Seq(Genuine)
    /\ \A m \in Message : << m >> \in Seq(Genuine)
<1>1. ASSUME NEW b \in Have PROVE Response(b) \in Seq(Genuine)
  <2>1. b \in Blocks
    BY ServerAssumption
  <2>2. Data(b) \in [1 .. BlockUnits -> Genuine]
    BY WireAssumption DEF Data, Genuine
  <2>3. Data(b) \in Seq(Genuine)
    BY <2>2, WireAssumption
  <2>4. Ok(b) \in Genuine
    BY <2>1, RequestType DEF Genuine
  <2> QED
    BY <2>3, <2>4 DEF Response
<1>2. \A m \in Message : << m >> \in Seq(Genuine)
  BY DEF Genuine
<1> QED
  BY <1>1, <1>2

\* Sending genuine units leaves genuine units on the connection, and the client's end
\* open or not as it was.
LEMMA SendAllGenuine ==
    ASSUME NEW t \in Link, t.down \in Seq(Genuine), NEW units \in Seq(Genuine),
           NEW n \in 1 .. Len(units), NEW b
    PROVE  LET w == SendAll(t, units, n, b)
           IN  w.down \in Seq(Genuine) /\ (w.cli = "open" <=> t.cli = "open")
<1> DEFINE s == SubSeq(units, 1, n)
           w == Written(t, s)
<1>1. s \in Seq(Genuine)
  OBVIOUS
<1> HIDE DEF s
<1>2. t.down \o s \in Seq(Genuine)
  BY <1>1
<1>3. w.down \in Seq(Genuine) /\ (w.cli = "open" <=> t.cli = "open")
  BY <1>2 DEF Written, Link
<1>4. SendAll(t, units, n, b) =
          [w EXCEPT !.answered = IF t.cli = "open" THEN Append(@, b) ELSE @]
  BY DEF SendAll, s
<1>5. \A field : LET x == [w EXCEPT !.answered = field]
                IN  x.down = w.down /\ x.cli = w.cli
  BY DEF Written, Link
<1> QED
  BY <1>3, <1>4, <1>5

\* One connection changed, its client's end open or not as it was.
LEMMA OneLink ==
    ASSUME net \in [Conns -> Link], \A k \in Conns : net[k].down \in Seq(Genuine),
           NEW k, NEW t, net' = [net EXCEPT ![k] = t],
           k \in Conns => t.down \in Seq(Genuine) /\ (t.cli = "open" <=> net[k].cli = "open")
    PROVE  \A j \in Conns : /\ net'[j].down \in Seq(Genuine)
                            /\ net'[j].cli = "open" <=> net[j].cli = "open"
  OBVIOUS

\* The ends the server closes and reads from.
LEMMA ServerEnds ==
    ASSUME NEW t \in Link
    PROVE  /\ Accepted(t).down = t.down /\ Accepted(t).cli = t.cli
           /\ ClosedByServer(t).down = t.down /\ ClosedByServer(t).cli = t.cli
           /\ Received(t).down = t.down
           /\ Received(t).cli = "open" <=> t.cli = "open"
  BY DEF Accepted, ClosedByServer, Received, Link

\* The server sends data of the blocks it holds and no other, and leaves the clients'
\* ends as they are.
LEMMA ServerSends ==
    ASSUME TypeOK, ArrayInv, ServerNext, \A k \in Conns : net[k].down \in Seq(Genuine)
    PROVE  \A j \in Conns : /\ net'[j].down \in Seq(Genuine)
                            /\ net'[j].cli = "open" <=> net[j].cli = "open"
<1>1. net \in [Conns -> Link] /\ \A k \in Conns : net[k] \in Link
  BY DEF TypeOK
<1> DEFINE Good == \A j \in Conns : /\ net'[j].down \in Seq(Genuine)
                                    /\ net'[j].cli = "open" <=> net[j].cli = "open"
<1>2. CASE net' = net
  BY <1>2
<1>3. ASSUME NEW how, Exit(how) PROVE Good
  BY <1>1, <1>3, ServerEnds DEF Exit
<1>4. ASSUME NEW f, NEW slots, RemoveClient(f, slots) PROVE Good
  <2>1. CASE net' = [net EXCEPT ![sock[f]] = ClosedByServer(@)]
    BY <1>1, <2>1, ServerEnds, OneLink
  <2> QED
    BY <1>3, <1>4, <2>1 DEF RemoveClient
<1>5. CASE AcceptStep
  <2>1. CASE \E k \in Conns : net' = [net EXCEPT ![k] = Accepted(@)]
    BY <1>1, <2>1, ServerEnds, OneLink
  <2> QED
    BY <1>2, <1>5, <2>1 DEF AcceptStep, Accepts, AcceptsUnwatched, AcceptFails
<1>6. CASE ReadStep
  <2>1. PICK f \in Fds : StoresMessage(f) \/ ReadFails(f) \/ ClientLeft(f)
    BY <1>6 DEF ReadStep
  <2>2. CASE net' = [net EXCEPT ![sock[f]] = Received(@)]
    BY <1>1, <2>2, ServerEnds, OneLink
  <2> QED
    BY <1>2, <1>4, <2>1, <2>2 DEF StoresMessage, ReadFails, ClientLeft
<1>7. ASSUME NEW f \in Fds, NEW units \in Seq(Genuine), units # << >>, Responds(f, units)
      PROVE  Good
  <2>1. PICK n \in Takes(units) :
            net' = [net EXCEPT ![sock[f]] = SendAll(@, units, n, rcv[f].block)]
    BY <1>7 DEF Responds
  <2>2. n \in 1 .. Len(units)
    BY <1>7, LenProperties DEF Takes
  <2> QED
    BY <1>1, <2>1, <2>2, SendAllGenuine, OneLink
<1>8. CASE WriteStep
  <2>1. PICK f \in Fds : \/ NothingToAnswer(f) \/ DropsClient(f)
                         \/ RefusesBlock(f) \/ SendsBlock(f) \/ SendsNothing(f)
    BY <1>8 DEF WriteStep
  <2>2. CASE SendsBlock(f)
    <3>1. rcv[f].block \in Have /\ Responds(f, Response(rcv[f].block))
      BY <2>2 DEF SendsBlock
    <3>2. Response(rcv[f].block) \in Seq(Genuine) /\ Response(rcv[f].block) # << >>
      <4>1. Response(rcv[f].block) \in Seq(Genuine)
        BY <3>1, ResponseGenuine
      <4>2. Data(rcv[f].block) \in Seq(Unit) /\ Ok(rcv[f].block) \in Unit
        BY <3>1, ServerAssumption, DataType, RequestType DEF Unit
      <4>3. << Ok(rcv[f].block) >> \o Data(rcv[f].block) # << >>
        BY <4>2
      <4> QED
        BY <4>1, <4>3 DEF Response
    <3> QED
      BY <1>7, <3>1, <3>2
  <2>3. CASE RefusesBlock(f)
    <3>1. rcv[f] \in Message
      BY <2>3, RcvType DEF RefusesBlock, TypeOK
    <3>2. PICK g \in BOOLEAN, b \in {rcv[f].block, BlockCount} :
              Responds(f, << [magic |-> g, code |-> MSG_RESPONSE_NA, block |-> b] >>)
      BY <2>3 DEF RefusesBlock
    <3> DEFINE refusal == [magic |-> g, code |-> MSG_RESPONSE_NA, block |-> b]
    <3>3. refusal \in Message
      BY <3>1, WireAssumption DEF Message
    <3>4. Responds(f, << refusal >>)
      BY <3>2
    <3> HIDE DEF refusal
    <3>5. << refusal >> \in Seq(Genuine) /\ << refusal >> # << >>
      BY <3>3, ResponseGenuine
    <3> QED
      BY <1>7, <3>4, <3>5
  <2> QED
    BY <1>2, <1>4, <2>1, <2>2, <2>3 DEF NothingToAnswer, DropsClient, SendsNothing
<1> QED
  BY <1>2, <1>3, <1>5, <1>6, <1>8 DEF ServerNext, PollReturns, PollFails, SkipEntry

----------------------------------------------------------------------------
(* What the clients read.                                                   *)

\* What clients read and close leaves, on each connection, some of what was there.
LEMMA ClientReads ==
    ASSUME ClientInv, NEW a \in Clients, Acts(a),
           \A k \in Conns : net[k].down \in Seq(Genuine)
    PROVE  \A k \in Conns : net'[k].down \in Seq(Genuine)
<1>1. net \in [Conns -> Link] /\ \A k \in Conns : net[k] \in Link
  BY DEF ClientInv, ClientTypeOK
<1>2. Conn(a) \in Conns => Socket(a) \in Link /\ Socket(a).down \in Seq(Genuine)
  BY <1>1 DEF Socket
<1> DEFINE Calm(t) == Conn(a) \in Conns => t.down \in Seq(Genuine)
<1>3. ASSUME NEW t, OnSocket(a, t), Calm(t)
      PROVE  \A k \in Conns : net'[k].down \in Seq(Genuine)
  BY <1>1, <1>3 DEF OnSocket
<1>4. ASSUME NEW t \in Link, t.down \in Seq(Genuine)
      PROVE  /\ Connected(t).down \in Seq(Genuine)
             /\ ClosedByClient(t).down \in Seq(Genuine)
             /\ \A m : \A q \in Sent(t, m) : q.down \in Seq(Genuine)
  <2>1. Connected(t).down \in Seq(Genuine) /\ << >> \in Seq(Genuine)
    BY <1>4 DEF Connected, Link
  <2>2. ClosedByClient(t).down \in Seq(Genuine)
    BY <1>4, <2>1 DEF ClosedByClient, Link
  <2>3. ASSUME NEW m, NEW q \in Sent(t, m) PROVE q.down = t.down
    BY <2>3 DEF Sent, Link
  <2> QED
    BY <1>4, <2>1, <2>2, <2>3
<1>5. ASSUME NEW n \in Nat, Conn(a) \in Conns, Has(a, n)
      PROVE  Taken(a, n) \in Link /\ Taken(a, n).down \in Seq(Genuine)
  <2>1. SubSeq(Socket(a).down, n + 1, Len(Socket(a).down)) \in Seq(Genuine)
    BY <1>2, <1>5
  <2> QED
    BY <1>2, <1>5, <2>1, TakenOK DEF Taken, Link
<1>6. CASE net' = net
  BY <1>6
<1>7. CASE OnSocket(a, Connected(Socket(a))) \/ OnSocket(a, ClosedByClient(Socket(a)))
  BY <1>2, <1>3, <1>4, <1>7
<1>8. CASE SendsRequest(a)
  BY <1>2, <1>3, <1>4, <1>8 DEF SendsRequest
<1>9. CASE HeaderArrives(a)
  BY <1>3, <1>5, <1>9 DEF HeaderArrives
<1>10. CASE RefusesHeader(a)
  BY <1>3, <1>4, <1>5, <1>10 DEF RefusesHeader
<1>11. CASE BodyArrives(a)
  BY <1>3, <1>5, <1>11, WireAssumption DEF BodyArrives
<1>12. CASE Connects(a) \/ ConnectFails(a) \/ Crash(a)
  BY <1>6, <1>7, <1>12 DEF Connects, ConnectFails, Crash
<1>13. CASE Start(a) \/ Destroy(a) \/ NoMorePeers(a) \/ SocketFails(a)
  BY <1>6, <1>13 DEF Start, Destroy, NoMorePeers, SocketFails
<1>14. CASE Leaves(a) \/ SendFails(a) \/ NoHeader(a) \/ NoBody(a)
  BY <1>7, <1>14 DEF Leaves, SendFails, NoHeader, NoBody, GivesUp
<1> QED
  BY <1>8, <1>9, <1>10, <1>11, <1>12, <1>13, <1>14 DEF Acts, ClientStep

\* The right data of a block, found on a connection, is of a block the server holds.
LEMMA DataGenuine ==
    ASSUME ClientInv, FromHave, NEW a \in Clients, Conn(a) \in Conns, NEW b \in Blocks,
           HasData(a, b)
    PROVE  b \in Have
<1> DEFINE down == Socket(a).down
<1>1. down \in Seq(Genuine) /\ Len(down) >= BlockUnits /\ BlockUnits >= 1
  BY WireAssumption DEF FromHave, Socket, HasData, Has
<1>2. SubSeq(down, 1, BlockUnits) = Data(b)
  BY DEF HasData
<1> HIDE DEF down
<1>3. SubSeq(down, 1, BlockUnits)[1] = down[1] /\ down[1] \in Genuine
  BY <1>1, WireAssumption
<1>4. Data(b)[1] = [of |-> b, part |-> 1]
  BY <1>1, WireAssumption DEF Data
<1> DEFINE u == [of |-> b, part |-> 1]
<1>5. u \in Genuine
  BY <1>2, <1>3, <1>4
<1>6. \A m \in Message : DOMAIN m = {"magic", "code", "block"}
  BY DEF Message
<1>7. DOMAIN u = {"of", "part"}
  OBVIOUS
<1>8. u \notin Message
  BY <1>6, <1>7
<1> QED
  BY <1>5, <1>8 DEF Genuine

----------------------------------------------------------------------------
(* The invariant of the whole, and the refinement.                          *)

\* The actions of Client here.
LEMMA SwarmActs == ASSUME NEW a \in Clients, Runs(a) \/ Killed(a)
                   PROVE  Acts(a) /\ UNCHANGED serverVars
  BY DEF Runs, Killed, ConnectStep, Acts

\* A client that reads the data of its block, reads a block of the server.
LEMMA ClientGains ==
    ASSUME SwarmInv, NEW a \in Clients, Acts(a)
    PROVE  /\ \A other \in Clients : other # a => file'[other] = file[other]
           /\ file[a].disk \subseteq file'[a].disk
           /\ file'[a].disk \subseteq file[a].disk \cup Have
           /\ file'[a].pend \subseteq Have
<1>1. ClientInv /\ file[a].pend \subseteq Have
  BY DEF SwarmInv, FromHave
<1>2. ASSUME At(a, "body"), HasData(a, client[a].block) PROVE client[a].block \in Have
  <2>1. Conn(a) \in Conns /\ client[a].block \in Blocks
    BY <1>1, <1>2, OneClient DEF At, OnConnection, PlaceOK
  <2> QED
    BY <1>1, <1>2, <2>1, DataGenuine DEF SwarmInv
<1> QED
  BY <1>1, <1>2, DiskGains

\* The first state.
LEMMA SwarmInit == Init => SwarmInv
<1> SUFFICES ASSUME Init PROVE SwarmInv
  OBVIOUS
<1>1. TypeOK /\ ArrayInv /\ ClientInv
  BY ServerInitInv, ClientInitInv DEF Init
<1>2. \A k \in Conns : net[k].down = << >>
  BY DEF Init, NetInit
<1>3. \A k \in Conns : net[k].down \in Seq(Genuine)
  <2>1. << >> \in Seq(Genuine)
    OBVIOUS
  <2> QED
    BY <1>2, <2>1
<1>4. \A a \in Clients : file[a].pend = {}
  BY DEF Init, ClientInit, Loaded
<1> QED
  BY <1>1, <1>3, <1>4 DEF SwarmInv, FromHave

\* Steps of the clients, of the server and of the network keep it.
LEMMA SwarmNext == SwarmInv /\ [Next]_vars => SwarmInv'
<1> SUFFICES ASSUME SwarmInv, [Next]_vars PROVE SwarmInv'
  OBVIOUS
<1>1. /\ TypeOK /\ ArrayInv /\ ClientInv /\ FromHave
      /\ \A k \in Conns : net[k].down \in Seq(Genuine)
  BY DEF SwarmInv, FromHave
<1>2. CASE Serves
  <2>1. TypeOK' /\ ArrayInv'
    BY <1>1, <1>2, ServerNextInv DEF Serves
  <2>2. \A j \in Conns : /\ net'[j].down \in Seq(Genuine)
                         /\ net'[j].cli = "open" <=> net[j].cli = "open"
    BY <1>1, <1>2, ServerSends DEF Serves
  <2>3. ClientInv'
    BY <1>1, <1>2, <2>1, <2>2, ClientsRest DEF Serves, TypeOK
  <2>4. FromHave'
    BY <1>1, <1>2, <2>2 DEF FromHave, Serves, clientVars
  <2> QED
    BY <2>1, <2>3, <2>4 DEF SwarmInv
<1>3. ASSUME NEW a \in Clients, Runs(a) \/ Killed(a) PROVE SwarmInv'
  <2>1. Acts(a) /\ UNCHANGED serverVars
    BY <1>3, SwarmActs
  <2>2. ClientInv' /\ \A k \in Conns : net'[k].down \in Seq(Genuine)
    BY <1>1, <2>1, ActsInv, ClientReads
  <2>3. TypeOK' /\ ArrayInv'
    BY <1>1, <2>1, <2>2, OthersInv DEF ClientInv, ClientTypeOK
  <2>4. \A b \in Clients : file'[b].pend \subseteq Have
    BY <1>1, <2>1, ClientGains DEF FromHave
  <2> QED
    BY <2>2, <2>3, <2>4 DEF SwarmInv, FromHave
<1>4. ASSUME NEW k \in Conns, Arrives(k) PROVE SwarmInv'
  <2>1. /\ net' = [net EXCEPT ![k] = Arrived(@)] /\ net[k].late # << >>
        /\ UNCHANGED serverVars /\ UNCHANGED clientVars
        /\ net \in [Conns -> Link] /\ net[k] \in Link
    BY <1>1, <1>4 DEF Arrives, TypeOK
  <2>2. Arrived(net[k]) \in Link
    BY <2>1, ArrivedType
  <2>3. Arrived(net[k]).down = net[k].down /\ Arrived(net[k]).cli = net[k].cli
    BY <2>1 DEF Arrived, Link
  <2>4. /\ net' \in [Conns -> Link]
        /\ \A j \in Conns : /\ net'[j].down \in Seq(Genuine)
                            /\ net'[j].cli = "open" <=> net[j].cli = "open"
    BY <1>1, <2>1, <2>2, <2>3
  <2>5. TypeOK' /\ ArrayInv' /\ ClientInv'
    BY <1>1, <2>1, <2>4, OthersInv, ClientsRest
  <2>6. FromHave'
    BY <1>1, <2>1, <2>4 DEF FromHave, clientVars
  <2> QED
    BY <2>5, <2>6 DEF SwarmInv
<1>5. CASE UNCHANGED vars
  <2>1. UNCHANGED serverVars /\ UNCHANGED clientVars /\ net' = net
    BY <1>5 DEF vars
  <2>2. TypeOK' /\ ArrayInv' /\ ClientInv'
    BY <1>1, <2>1, OthersInv, ClientsRest DEF TypeOK
  <2>3. FromHave'
    BY <1>1, <2>1 DEF FromHave, clientVars
  <2> QED
    BY <2>2, <2>3 DEF SwarmInv
<1> QED
  BY <1>2, <1>3, <1>4, <1>5 DEF Next

\* With clients of client.c for clients, any number of them and killed at any time,
\* the loop of server.c keeps its arrays in agreement and never dies of a removal.
THEOREM ServerAmongClients == Spec => [](ArrayInv /\ NeverDiesRemoving)
<1>1. SwarmInv => ArrayInv /\ NeverDiesRemoving
  BY DEF SwarmInv, ArrayInv, NeverDiesRemoving
<1> QED
  BY <1>1, SwarmInit, SwarmNext, PTL DEF Spec

\* With the server of server.c at some of the addresses, and stopping when it likes, no
\* step makes block_map of a client tell something wrong but a failing fseeko, and each
\* connection a client leaves is closed, whatever fails.
THEOREM ClientsOfServer == Spec => MapIsTrue /\ []OneSocket
<1>1. SwarmInv /\ [Next]_vars => [\A a \in Clients : StaysTrue(a)]_transfer
  <2> SUFFICES ASSUME SwarmInv, [Next]_vars
               PROVE  \/ \A a \in Clients : StaysTrue(a)
                      \/ UNCHANGED transfer
    OBVIOUS
  <2>1. ClientInv
    BY DEF SwarmInv
  <2>2. ASSUME NEW a \in Clients, Runs(a) \/ Killed(a)
        PROVE  \A b \in Clients : StaysTrue(b)
    BY <2>1, <2>2, SwarmActs, MapStays
  <2>3. CASE UNCHANGED clientVars
    BY <2>1, <2>3, MapRests
  <2> QED
    BY <2>2, <2>3 DEF Next, Serves, Arrives, vars
<1>2. SwarmInv => OneSocket
  BY DEF SwarmInv, ClientInv
<1> QED
  BY <1>1, <1>2, SwarmInit, SwarmNext, PTL DEF Spec, MapIsTrue

\* One step of the system is one client that gets some blocks of the server, or
\* nothing that Download sees.
LEMMA StepGets == ASSUME SwarmInv, [Next]_vars
                  PROVE  [Transfer!Next]_([a \in Clients |-> file[a].disk])
<1> DEFINE got == [a \in Clients |-> file[a].disk]
<1>1. ASSUME NEW a \in Clients, Runs(a) \/ Killed(a) PROVE [Transfer!Next]_got
  <2>1. /\ \A other \in Clients : other # a => file'[other] = file[other]
        /\ file[a].disk \subseteq file'[a].disk
        /\ file'[a].disk \subseteq file[a].disk \cup Have
    BY <1>1, SwarmActs, ClientGains
  <2> DEFINE more == file'[a].disk \ file[a].disk
  <2>2. more \in SUBSET (Have \ got[a])
    BY <2>1
  <2>3. got' = [got EXCEPT ![a] = @ \cup more]
    BY <2>1
  <2>4. CASE more = {}
    <3>1. got' = got
      BY <2>1, <2>4
    <3> QED
      BY <3>1
  <2>5. CASE more # {}
    <3>1. Transfer!Get(a)
      BY <2>2, <2>3, <2>5 DEF Transfer!Get
    <3> QED
      BY <3>1 DEF Transfer!Next
  <2> QED
    BY <2>4, <2>5
<1>2. CASE file' = file
  BY <1>2
<1> QED
  BY <1>1, <1>2 DEF Next, Serves, Arrives, vars, clientVars

\* Clients and server together implement the safe half of Download: only blocks the
\* server holds reach a disk, and whatever is killed, stops or fails, they stay.
THEOREM SwarmDownloads == Spec => DownloadsSafely
<1>1. Init => Transfer!Init
  <2> SUFFICES ASSUME Init PROVE Transfer!Init
    OBVIOUS
  <2>1. \A a \in Clients : file[a].disk \in SUBSET Blocks
    BY DEF Init, ClientInit, Loaded
  <2> QED
    BY <2>1 DEF Transfer!Init
<1>2. SwarmInv /\ [Next]_vars => [Transfer!Next]_([a \in Clients |-> file[a].disk])
  BY StepGets
<1> QED
  BY <1>1, <1>2, SwarmInit, SwarmNext, PTL DEF Spec, DownloadsSafely, Transfer!Safe

----------------------------------------------------------------------------
(* One connection.  With two, a client can be visited through a copy of its *)
(* entry that a removal left behind, and is then answered twice.            *)

\* Connection s is the only one that can come to the server.
Solo(s) == s \in Conns /\ \A k \in Conns : k[3] \in Up => k = s

\* Nothing but s is ever opened, and one descriptor at most is its other end.
OnlyOne(s) ==
    /\ \A k \in Conns : net[k].late = << >>
    /\ \A k \in Conns : k # s => net[k].cli = "none" /\ net[k].srv = "none"
    /\ \A f \in Fds : sock[f] # NoConn => sock[f] = s /\ net[s].srv = "open"
    /\ \A f, g \in Fds : sock[f] # NoConn /\ sock[g] # NoConn => f = g
    /\ psize <= 2
    /\ pc = "scan" => c = psize

\* The client has not come to the connection.
Ahead(s) ==
    LET state == client[s[1]]
    IN  \/ state.run < s[2]
        \/ state.run = s[2] /\ state.peer < s[3]
        \/ state.run = s[2] /\ state.peer = s[3] /\ state.at = "connect"

Unopened(s) ==
    Ahead(s) => /\ net[s].cli = "none" /\ net[s].srv = "none"
                /\ net[s].up = << >> /\ net[s].down = << >>

\* What the entry of the client waits for, and what poll() may have told of it.
Waiting(what, told) ==
    psize = 2 => pfd[1].events = what /\ (pc = "scan" => pfd[1].revents \in told)

\* A request for b has been sent; it has been read; nothing is to be read or answered.
Asked(s, b) == /\ net[s].up = Halves(Request(b)) /\ net[s].down = << >>
               /\ Waiting("in", {"none", "in"})

Kept(s, b) == /\ net[s].up = << >> /\ net[s].down = << >>
              /\ Waiting("out", {"none", "out"})
              /\ psize = 2 => rcv[pfd[1].fd] \in {NoMsg, Request(b)}

Quiet(s) == net[s].up = << >> /\ Waiting("in", {"none"})

\* An answer to the request for b, cut off or not, or nothing.
Answer(q, b) == q = << >> \/ (Head(q) = Ok(b) /\ Len(q) <= BlockUnits + 1)

\* Where the one request is while the client stands at place with block b.
Stage(s, place, b) ==
    /\ place = "request" => Quiet(s) /\ net[s].down = << >>
    /\ place = "header" => \/ Asked(s, b) \/ Kept(s, b)
                           \/ Quiet(s) /\ Answer(net[s].down, b)
    /\ place = "body" => Quiet(s) /\ Len(net[s].down) <= BlockUnits

Staged(s) == net[s].cli = "open" => Stage(s, client[s[1]].at, client[s[1]].block)

SoloInv(s) == OnlyOne(s) /\ Unopened(s) /\ Staged(s)

\* The entry of a descriptor the loop visits is the second, the last one, and is that
\* of the connection.
LEMMA OneEntry ==
    ASSUME TypeOK, ArrayInv, NEW s, OnlyOne(s), pc = "scan", pfd[i].fd \in Fds
    PROVE  /\ i = 1 /\ psize = 2 /\ c = 2
           /\ sock[pfd[1].fd] = s /\ net[s].srv = "open"
           /\ EndIteration => pc' = "poll"
<1>1. i \in Slots /\ i < c /\ i >= 1 /\ EntriesOK
  BY VisitedSlot
<1>2. psize \in Nat /\ c = psize /\ psize <= 2 /\ i \in Nat
  BY DEF TypeOK, OnlyOne
<1>3. i = 1 /\ psize = 2 /\ c = 2
  BY <1>1, <1>2
<1>4. pfd[1].fd \in Fds /\ sock[pfd[1].fd] # NoConn
  BY <1>1, <1>3 DEF EntriesOK
<1> QED
  BY <1>3, <1>4 DEF OnlyOne, EndIteration

\* There is no entry of a client before there is a connection.
LEMMA NoEntryYet ==
    ASSUME TypeOK, ArrayInv, NEW s, OnlyOne(s), pc \in {"poll", "scan"}, net[s].srv # "open"
    PROVE  psize = 1 /\ \A f \in Fds : sock[f] = NoConn
<1>1. \A f \in Fds : sock[f] = NoConn
  BY DEF OnlyOne
<1>2. EntriesOK /\ psize \in Nat /\ psize >= 1
  BY DEF ArrayInv, TypeOK
<1>3. psize >= 2 => pfd[1].fd \in Fds /\ sock[pfd[1].fd] # NoConn
  BY <1>2 DEF EntriesOK
<1> QED
  BY <1>1, <1>2, <1>3

\* What the server does with the link of a connection leaves nothing late.
LEMMA NothingLate ==
    ASSUME NEW t \in Link, t.late = << >>
    PROVE  /\ Accepted(t).late = << >> /\ Accepted(t).srv = "open"
           /\ ClosedByServer(t).late = << >>
           /\ Received(t).late = << >> /\ Received(t).srv = t.srv
           /\ \A units, n, b : /\ SendAll(t, units, n, b).late = << >>
                               /\ SendAll(t, units, n, b).srv = t.srv
<1>1. \A units : Written(t, units).late = << >> /\ Written(t, units).srv = t.srv
  BY DEF Written, Link
<1>2. \A units, x : LET w == Written(t, units)
                        z == [w EXCEPT !.answered = x]
                    IN  z.late = w.late /\ z.srv = w.srv
  BY DEF Written, Link
<1>3. ASSUME NEW units, NEW n, NEW b
      PROVE  /\ SendAll(t, units, n, b).late = << >>
             /\ SendAll(t, units, n, b).srv = t.srv
  BY <1>1, <1>2 DEF SendAll
<1>4. /\ Accepted(t).late = << >> /\ Accepted(t).srv = "open"
      /\ ClosedByServer(t).late = << >>
      /\ Received(t).late = << >> /\ Received(t).srv = t.srv
  BY DEF Accepted, ClosedByServer, Received, Link
<1> QED
  BY <1>3, <1>4

\* A step that takes no descriptor and closes none leaves one connection.
LEMMA StaysOnlyOne ==
    ASSUME TypeOK, NEW s \in Conns, OnlyOne(s), sock' = sock, psize' = psize,
           pc' = "scan" => c' = psize,
           NEW t, net' = net \/ net' = [net EXCEPT ![s] = t],
           t.late = << >>, t.srv = net[s].srv
    PROVE  OnlyOne(s)'
<1>1. \A k \in Conns : net'[k] = net[k] \/ (k = s /\ net'[k] = t)
  BY DEF TypeOK
<1> QED
  BY <1>1 DEF OnlyOne

\* The end of the server leaves one connection, closed.
LEMMA ExitOnlyOne ==
    ASSUME TypeOK, NEW s \in Conns, OnlyOne(s), NEW how \in {"died", "stopped"}, Exit(how)
    PROVE  OnlyOne(s)'
<1>1. \A k \in Conns : net[k] \in Link
  BY DEF TypeOK
<1>2. \A k \in Conns : net'[k].late = << >> /\ (k # s => net'[k] = net[k])
  BY <1>1, NothingLate DEF Exit, OnlyOne
<1> QED
  BY <1>2 DEF Exit, OnlyOne

\* What accept() finds in the backlog is the connection.
LEMMA AcceptOnlyOne ==
    ASSUME TypeOK, ArrayInv, NEW s \in Conns, OnlyOne(s), NEW k \in Conns,
           Accepts(k) \/ AcceptsUnwatched(k)
    PROVE  /\ OnlyOne(s)' /\ k = s /\ psize = 1 /\ pc' = "poll"
           /\ net' = [net EXCEPT ![s] = Accepted(net[s])]
<1>1. PICK f \in Fds : f = LowestFreeFd /\ sock[f] = NoConn
  BY FreeFdType DEF Accepts, AcceptsUnwatched
<1>2. /\ pc = "scan" /\ pfd[i].fd = ListenFd /\ EndIteration
      /\ k \in Backlog
      /\ sock' = [sock EXCEPT ![f] = k]
      /\ net' = [net EXCEPT ![k] = Accepted(net[k])]
      /\ psize' \in {psize, psize + 1}
  BY <1>1 DEF Accepts, AcceptsUnwatched, Visits
<1>3. k = s /\ net[s].srv = "queued"
  BY <1>2 DEF Backlog, OnlyOne
<1>4. psize = 1 /\ \A g \in Fds : sock[g] = NoConn
  BY <1>2, <1>3, NoEntryYet
<1>5. i = 0 /\ c = psize
  BY <1>2, VisitedSlot
<1>6. pc' = "poll"
  BY <1>2, <1>4, <1>5 DEF EndIteration
<1>7. net[s] \in Link /\ net[s].late = << >>
  BY DEF TypeOK, OnlyOne
<1>8. /\ \A j \in Conns : net'[j].late = << >> /\ (j # s => net'[j] = net[j])
      /\ net'[s].srv = "open"
  BY <1>2, <1>3, <1>7, NothingLate DEF TypeOK, OnlyOne
<1>9. \A g \in Fds : sock'[g] # NoConn => g = f /\ sock'[g] = s
  BY <1>2, <1>3, <1>4 DEF TypeOK
<1>10. psize' <= 2
  BY <1>2, <1>4
<1>11. OnlyOne(s)'
  BY <1>6, <1>8, <1>9, <1>10 DEF OnlyOne
<1> QED
  BY <1>2, <1>3, <1>4, <1>6, <1>11

\* A client removed leaves one connection, closed.
LEMMA RemoveOnlyOne ==
    ASSUME TypeOK, ArrayInv, NEW s \in Conns, OnlyOne(s), pc = "scan",
           NEW f \in Fds, pfd[i].fd = f, NEW slots, RemoveClient(f, slots)
    PROVE  OnlyOne(s)'
<1>1. CASE \E how \in {"died", "stopped"} : Exit(how)
  BY <1>1, ExitOnlyOne
<1>2. CASE /\ psize' = psize - 1
           /\ sock' = [sock EXCEPT ![f] = NoConn]
           /\ net' = [net EXCEPT ![sock[f]] = ClosedByServer(@)]
           /\ EndIteration
  <2>1. psize = 2 /\ sock[f] = s /\ pc' = "poll"
    BY <1>2, OneEntry
  <2>2. net[s] \in Link /\ net[s].late = << >>
    BY DEF TypeOK, OnlyOne
  <2>3. \A j \in Conns : net'[j].late = << >> /\ (j # s => net'[j] = net[j])
    BY <1>2, <2>1, <2>2, NothingLate DEF TypeOK, OnlyOne
  <2>4. \A g \in Fds : sock'[g] = NoConn
    BY <1>2, <2>1 DEF TypeOK, OnlyOne
  <2>5. psize' <= 2
    BY <1>2, <2>1
  <2> QED
    BY <2>1, <2>3, <2>4, <2>5 DEF OnlyOne
<1> QED
  BY <1>1, <1>2 DEF RemoveClient

\* Every step of the server leaves one connection.
LEMMA ServerOnlyOne ==
    ASSUME TypeOK, ArrayInv, NEW s \in Conns, OnlyOne(s), ServerNext
    PROVE  OnlyOne(s)'
<1>1. net[s] \in Link /\ net[s].late = << >>
  BY DEF TypeOK, OnlyOne
<1>2. ASSUME pc = "scan", EndIteration PROVE pc' = "scan" => c' = psize
  <2>1. c = psize
    BY <1>2 DEF OnlyOne
  <2> QED
    BY <1>2, <2>1, EndedIteration
<1>3. ASSUME net' = net, sock' = sock, psize' = psize, pc' = "scan" => c' = psize
      PROVE  OnlyOne(s)'
  BY <1>1, <1>3, StaysOnlyOne
<1>4. CASE PollReturns
  <2>1. net' = net /\ sock' = sock /\ psize' = psize /\ (pc' = "scan" => c' = psize)
    BY <1>4 DEF PollReturns
  <2> QED
    BY <1>3, <2>1
<1>5. CASE PollFails
  BY <1>5, ExitOnlyOne DEF PollFails
<1>6. CASE \E f \in Fds : NothingToAnswer(f) \/ SendsNothing(f)
  <2>1. /\ net' = net /\ sock' = sock /\ psize' = psize /\ pc = "scan" /\ EndIteration
    BY <1>6 DEF NothingToAnswer, SendsNothing, WritesTo, Visits
  <2> QED
    BY <1>2, <1>3, <2>1
<1>7. CASE SkipEntry \/ AcceptFails
  <2>1. /\ net' = net /\ sock' = sock /\ psize' = psize /\ pc = "scan" /\ EndIteration
    BY <1>7 DEF SkipEntry, AcceptFails, Visits
  <2> QED
    BY <1>2, <1>3, <2>1
<1>8. CASE \E k \in Conns : Accepts(k) \/ AcceptsUnwatched(k)
  BY <1>8, AcceptOnlyOne
<1>9. CASE \E f \in Fds : ClientLeft(f) \/ DropsClient(f)
  <2>1. PICK f \in Fds : ClientLeft(f) \/ DropsClient(f)
    BY <1>9
  <2>2. /\ pc = "scan" /\ pfd[i].fd = f
        /\ RemoveClient(f, Marked("out")) \/ RemoveClient(f, Marked("in"))
    BY <2>1 DEF ClientLeft, DropsClient, ReadsFrom, WritesTo, Visits
  <2> QED
    BY <2>2, RemoveOnlyOne
<1>10. CASE \E f \in Fds : StoresMessage(f) \/ ReadFails(f)
  <2>1. PICK f \in Fds : StoresMessage(f) \/ ReadFails(f)
    BY <1>10
  <2>2. /\ pc = "scan" /\ pfd[i].fd = f /\ EndIteration /\ sock' = sock /\ psize' = psize
        /\ net' = net \/ net' = [net EXCEPT ![sock[f]] = Received(@)]
    BY <2>1 DEF StoresMessage, ReadFails, ReadsFrom, Visits
  <2>3. net' = net \/ net' = [net EXCEPT ![s] = Received(net[s])]
    BY <2>2, OneEntry
  <2>4. pc' = "scan" => c' = psize
    BY <1>2, <2>2
  <2>5. Received(net[s]).late = << >> /\ Received(net[s]).srv = net[s].srv
    BY <1>1, NothingLate
  <2> QED
    BY <2>2, <2>3, <2>4, <2>5, StaysOnlyOne
<1>11. CASE \E f \in Fds : RefusesBlock(f) \/ SendsBlock(f)
  <2>1. PICK f \in Fds : RefusesBlock(f) \/ SendsBlock(f)
    BY <1>11
  <2>2. PICK units : pc = "scan" /\ pfd[i].fd = f /\ Responds(f, units)
    BY <2>1 DEF RefusesBlock, SendsBlock, WritesTo, Visits
  <2>3. PICK n : net' = [net EXCEPT ![sock[f]] = SendAll(@, units, n, rcv[f].block)]
    BY <2>2 DEF Responds
  <2> DEFINE t == SendAll(net[s], units, n, rcv[f].block)
  <2>4. net' = [net EXCEPT ![s] = t]
    BY <2>2, <2>3, OneEntry
  <2>5. t.late = << >> /\ t.srv = net[s].srv
    BY <1>1, NothingLate
  <2> HIDE DEF t
  <2>6. sock' = sock /\ psize' = psize /\ (pc' = "scan" => c' = psize)
    BY <1>2, <2>2 DEF Responds
  <2> QED
    BY <2>4, <2>5, <2>6, StaysOnlyOne
<1> QED
  BY <1>4, <1>5, <1>6, <1>7, <1>8, <1>9, <1>10, <1>11
  DEF ServerNext, AcceptStep, ReadStep, WriteStep

----------------------------------------------------------------------------
(* What the server does with the request.                                   *)

\* A step that leaves the entry, its message and the bytes each way leaves the request
\* where it is.
LEMMA StageStays ==
    ASSUME NEW s, NEW place, NEW b, Stage(s, place, b),
           net'[s].up = net[s].up, net'[s].down = net[s].down, pfd' = pfd,
           psize' = psize, rcv' = rcv, pc' = "scan" => pc = "scan"
    PROVE  Stage(s, place, b)'
<1>1. \A what, told : Waiting(what, told) => Waiting(what, told)'
  BY DEF Waiting
<1>2. /\ Quiet(s) => Quiet(s)'
      /\ Asked(s, b) => Asked(s, b)'
      /\ Kept(s, b) => Kept(s, b)'
  BY <1>1 DEF Quiet, Asked, Kept
<1> QED
  BY <1>2 DEF Stage, Answer

\* poll() tells of the entry what it waits for, and no end of the stream while the
\* client is there.
LEMMA PollStage ==
    ASSUME TypeOK, ArrayInv, NEW s \in Conns, OnlyOne(s), net[s].cli = "open",
           NEW place, NEW b, Stage(s, place, b), PollReturns
    PROVE  Stage(s, place, b)'
<1>1. PICK full \in SUBSET Clogged :
          pfd' = [j \in Slots |->
                     IF j < psize
                     THEN [pfd[j] EXCEPT !.revents = Revents(pfd[j], full)]
                     ELSE Unused]
  BY DEF PollReturns
<1>2. /\ net' = net /\ psize' = psize /\ d' = d /\ rcv' = rcv /\ pc = "poll"
      /\ EntriesOK /\ psize \in 1 .. MaxSlots
  BY DEF PollReturns, rcv, ArrayInv, TypeOK
<1>3. ASSUME psize = 2
      PROVE  /\ pfd'[1].fd = pfd[1].fd /\ pfd'[1].events = pfd[1].events
             /\ pfd'[1].revents = Revents(pfd[1], full)
             /\ pfd[1].fd # ListenFd /\ sock[pfd[1].fd] = s /\ s # NoConn
  <2>1. 1 \in Slots /\ 1 < psize
    BY <1>2, <1>3, Constants
  <2>2. pfd[1] \in Entry
    BY <2>1 DEF TypeOK
  <2>3. pfd'[1] = [pfd[1] EXCEPT !.revents = Revents(pfd[1], full)]
    BY <1>1, <2>1
  <2>4. pfd[1].fd \in Fds /\ sock[pfd[1].fd] # NoConn
    BY <1>2, <1>3 DEF EntriesOK
  <2>5. sock[pfd[1].fd] = s /\ pfd[1].fd # ListenFd
    BY <2>4, Constants DEF OnlyOne
  <2>6. /\ pfd'[1].fd = pfd[1].fd /\ pfd'[1].events = pfd[1].events
        /\ pfd'[1].revents = Revents(pfd[1], full)
    BY <2>2, <2>3 DEF Entry
  <2> QED
    BY <2>4, <2>5, <2>6
<1>4. ~HungUp(net[s])
  BY DEF HungUp, Left
<1>5. CASE Quiet(s)
  <2>1. psize = 2 => pfd'[1].revents = "none"
    BY <1>3, <1>4, <1>5 DEF Quiet, Waiting, Revents, Readable
  <2>2. Quiet(s)'
    BY <1>2, <1>3, <1>5, <2>1 DEF Quiet, Waiting
  <2>3. ~Asked(s, b) /\ (Kept(s, b) => Answer(net[s].down, b))
    BY <1>5 DEF Quiet, Asked, Kept, Halves, Answer
  <2>4. Answer(net[s].down, b) => Answer(net[s].down, b)'
    BY <1>2 DEF Answer
  <2> QED
    BY <1>2, <2>2, <2>3, <2>4 DEF Stage
<1>6. CASE Asked(s, b)
  <2>1. psize = 2 => pfd'[1].revents \in {"none", "in"}
    BY <1>3, <1>6 DEF Asked, Waiting, Revents
  <2>2. Asked(s, b)'
    BY <1>2, <1>3, <1>6, <2>1 DEF Asked, Waiting
  <2>3. ~Quiet(s)
    BY <1>6 DEF Asked, Quiet, Halves
  <2> QED
    BY <2>2, <2>3 DEF Stage
<1>7. CASE Kept(s, b) /\ ~Quiet(s)
  <2>1. psize = 2 => pfd'[1].revents \in {"none", "out"}
    BY <1>3, <1>7 DEF Kept, Waiting, Revents
  <2>2. Kept(s, b)'
    BY <1>2, <1>3, <1>7, <2>1 DEF Kept, Waiting
  <2> QED
    BY <1>7, <2>2 DEF Stage
<1> QED
  BY <1>5, <1>6, <1>7 DEF Stage

\* Nothing is left to read or to write once the server is gone.
LEMMA ExitStage ==
    ASSUME TypeOK, NEW s \in Conns, NEW place, NEW b, Stage(s, place, b),
           NEW how \in {"died", "stopped"}, Exit(how)
    PROVE  Stage(s, place, b)'
<1>1. net[s] \in Link
  BY DEF TypeOK
<1>2. /\ net'[s].up \in {<< >>, net[s].up} /\ net'[s].down = net[s].down
      /\ pfd' = pfd /\ psize' = psize /\ rcv' = rcv /\ pc' # "scan"
  BY <1>1 DEF Exit, ClosedByServer, Link, rcv
<1>3. \A what, told : Waiting(what, told) => Waiting(what, {"none"})'
  BY <1>2 DEF Waiting
<1>4. Quiet(s) => Quiet(s)'
  BY <1>2, <1>3 DEF Quiet
<1>5. Asked(s, b) => Asked(s, b)' \/ (Quiet(s)' /\ net'[s].down = << >>)
  <2>1. Waiting("in", {"none", "in"}) => Waiting("in", {"none", "in"})'
    BY <1>2 DEF Waiting
  <2> QED
    BY <1>2, <1>3, <2>1 DEF Asked, Quiet
<1>6. Kept(s, b) => Kept(s, b)'
  <2>1. Waiting("out", {"none", "out"}) => Waiting("out", {"none", "out"})'
    BY <1>2 DEF Waiting
  <2> QED
    BY <1>2, <2>1 DEF Kept
<1> QED
  BY <1>2, <1>4, <1>5, <1>6 DEF Stage, Answer

\* An entry made for the connection waits for a request.
LEMMA AcceptStage ==
    ASSUME TypeOK, ArrayInv, NEW s \in Conns, OnlyOne(s), NEW k \in Conns,
           Accepts(k) \/ AcceptsUnwatched(k), NEW place, NEW b, Stage(s, place, b)
    PROVE  Stage(s, place, b)'
<1>1. /\ psize = 1 /\ pc' = "poll"
      /\ net' = [net EXCEPT ![s] = Accepted(net[s])]
  BY AcceptOnlyOne
<1>2. net[s] \in Link /\ net \in [Conns -> Link]
  BY DEF TypeOK
<1>3. net'[s].up = net[s].up /\ net'[s].down = net[s].down
  BY <1>1 DEF Accepted, Link, TypeOK
<1>4. psize' = 2 => pfd'[1].events = "in"
  <2>1. CASE Accepts(k)
    <3>1. 1 \in Slots /\ pfd' = [pfd EXCEPT ![1] = NewEntry(LowestFreeFd)]
      BY <1>1, <2>1, Constants DEF Accepts
    <3>2. pfd'[1] = NewEntry(LowestFreeFd)
      BY <3>1 DEF TypeOK
    <3> QED
      BY <3>2 DEF NewEntry
  <2>2. CASE AcceptsUnwatched(k)
    BY <1>1, <2>2 DEF AcceptsUnwatched
  <2> QED
    BY <2>1, <2>2
<1>5. Waiting("in", {"none"})' /\ Waiting("in", {"none", "in"})'
  BY <1>1, <1>4 DEF Waiting
<1>6. /\ Quiet(s) => Quiet(s)'
      /\ Asked(s, b) => Asked(s, b)'
      /\ Kept(s, b) => Quiet(s)' /\ net'[s].down = << >>
  BY <1>3, <1>5 DEF Quiet, Asked, Kept
<1> QED
  BY <1>3, <1>6 DEF Stage, Answer

\* Only a request on its way is read, and only the message kept for it answered.
LEMMA VisitedStage ==
    ASSUME TypeOK, ArrayInv, NEW s \in Conns, OnlyOne(s), NEW f \in Fds,
           NEW place \in {"request", "header", "body"}, NEW b, Stage(s, place, b)
    PROVE  /\ ReadsFrom(f) => Asked(s, b) /\ place = "header"
           /\ WritesTo(f) => Kept(s, b) /\ place = "header"
           /\ ReadsFrom(f) \/ WritesTo(f) =>
                  /\ pc = "scan" /\ i = 1 /\ psize = 2 /\ pfd[1].fd = f /\ sock[f] = s
                  /\ EndIteration => pc' = "poll"
<1> SUFFICES ASSUME ReadsFrom(f) \/ WritesTo(f)
             PROVE  /\ ReadsFrom(f) => Asked(s, b) /\ place = "header"
                    /\ WritesTo(f) => Kept(s, b) /\ place = "header"
                    /\ pc = "scan" /\ i = 1 /\ psize = 2 /\ pfd[1].fd = f /\ sock[f] = s
                    /\ EndIteration => pc' = "poll"
  OBVIOUS
<1>1. pc = "scan" /\ pfd[i].fd = f
  BY DEF ReadsFrom, WritesTo, Visits
<1>2. i = 1 /\ psize = 2 /\ sock[f] = s /\ (EndIteration => pc' = "poll")
  BY <1>1, OneEntry
<1>3. /\ ReadsFrom(f) => pfd[1].revents \in {"in", "uninit"}
      /\ WritesTo(f) => pfd[1].revents \in {"out", "uninit"}
  BY <1>2 DEF ReadsFrom, WritesTo, Visits
<1>4. ~Quiet(s) /\ (ReadsFrom(f) => ~Kept(s, b)) /\ (WritesTo(f) => ~Asked(s, b))
  BY <1>1, <1>2, <1>3 DEF Quiet, Kept, Asked, Waiting
<1> QED
  BY <1>1, <1>2, <1>4 DEF Stage

\* What Marked writes to the entry the loop stands at.
LEMMA MarkedEntry ==
    ASSUME TypeOK, i = 1, psize = 2, NEW e, pfd' = Marked(e), psize' = psize
    PROVE  pfd'[1].events = e /\ pfd'[1].fd = pfd[1].fd
<1>1. 1 \in Slots /\ pfd[1] \in Entry
  BY Constants DEF TypeOK
<1>2. pfd'[1] = [pfd[1] EXCEPT !.events = e]
  BY <1>1 DEF Marked, TypeOK
<1> QED
  BY <1>1, <1>2 DEF Entry

\* The two halves of a request on a connection are read as the request.
LEMMA RequestRead ==
    ASSUME NEW t \in Link, NEW m, t.up = Halves(m)
    PROVE  /\ RecvResult(t) = "full" /\ RecvMessage(t) = m
           /\ Received(t).up = << >> /\ Received(t).down = t.down
<1>1. /\ Len(t.up) = 2 /\ t.up[1] = [half |-> "head", msg |-> m]
      /\ Tail(Tail(t.up)) = << >>
  BY DEF Halves
<1>2. Len(t.up) >= 2 /\ ~(Len(t.up) < 2)
  BY <1>1
<1>3. t.up[1].half = "head" /\ t.up[1].msg = m
  BY <1>1
<1>4. RecvResult(t) = "full" /\ RecvMessage(t) = m
  BY <1>2, <1>3 DEF RecvResult, RecvMessage
<1>5. Received(t).up = << >> /\ Received(t).down = t.down
  BY <1>1, <1>2 DEF Received, Link
<1> QED
  BY <1>4, <1>5

\* The request is read whole, and kept unless there is no memory for it.
LEMMA ReadStage ==
    ASSUME TypeOK, ArrayInv, NEW s \in Conns, OnlyOne(s), ReadStep,
           NEW place \in {"request", "header", "body"}, NEW b \in Blocks, Stage(s, place, b)
    PROVE  Stage(s, place, b)'
<1>1. PICK f \in Fds : StoresMessage(f) \/ ReadFails(f) \/ ClientLeft(f)
  BY DEF ReadStep
<1>2. ReadsFrom(f)
  BY <1>1 DEF StoresMessage, ReadFails, ClientLeft
<1>3. /\ Asked(s, b) /\ place = "header"
      /\ i = 1 /\ psize = 2 /\ pfd[1].fd = f /\ sock[f] = s
      /\ EndIteration => pc' = "poll"
  BY <1>2, VisitedStage
<1>4. /\ net[s] \in Link /\ s # NoConn /\ net \in [Conns -> Link]
      /\ net[s].up = Halves(Request(b)) /\ net[s].down = << >>
  BY <1>3, Constants DEF TypeOK, Asked
<1>5. /\ RecvResult(net[s]) = "full" /\ RecvMessage(net[s]) = Request(b)
      /\ Received(net[s]).up = << >> /\ Received(net[s]).down = << >>
  BY <1>4, RequestRead
<1>6. StoresMessage(f)
  BY <1>1, <1>3, <1>4, <1>5 DEF ReadFails, ClientLeft
<1>7. /\ pfd' = Marked("out") /\ psize' = psize /\ pc' = "poll"
      /\ net' = [net EXCEPT ![s] = Received(net[s])]
      /\ d' = RcvAdd(d, f, Request(b)) \/ (d' = d /\ MustGrow(d, f))
  BY <1>3, <1>5, <1>6 DEF StoresMessage
<1>8. pfd'[1].events = "out" /\ pfd'[1].fd = f
  BY <1>3, <1>7, MarkedEntry
<1>9. rcv'[f] \in {NoMsg, Request(b)}
  <2>1. CASE d' = RcvAdd(d, f, Request(b))
    <3>1. Request(b) \in Message /\ WellFormed(d)
      BY RequestType DEF ArrayInv, MemoryOK
    <3>2. rcv' = [rcv EXCEPT ![f] = Request(b)]
      BY <2>1, <3>1, RcvAdded
    <3>3. rcv \in [Fds -> Message \cup {NoMsg}]
      BY RcvType DEF TypeOK
    <3> QED
      BY <3>2, <3>3
  <2>2. CASE d' = d /\ MustGrow(d, f)
    BY <2>2 DEF rcv, MustGrow, RcvFind
  <2> QED
    BY <1>7, <2>1, <2>2
<1>10. net'[s].up = << >> /\ net'[s].down = << >>
  BY <1>4, <1>5, <1>7
<1>11. Kept(s, b)'
  BY <1>7, <1>8, <1>9, <1>10 DEF Kept, Waiting
<1> QED
  BY <1>3, <1>11 DEF Stage

\* The first units of a response to b.
LEMMA FirstUnits ==
    ASSUME NEW b \in Blocks, NEW n \in 1 .. Len(Response(b))
    PROVE  /\ SubSeq(Response(b), 1, n) \in Seq(Unit)
           /\ Answer(SubSeq(Response(b), 1, n), b)
<1> DEFINE q == Response(b)
           p == SubSeq(q, 1, n)
<1>1. /\ << Ok(b) >> \in Seq(Unit) /\ Len(<< Ok(b) >>) = 1 /\ << Ok(b) >>[1] = Ok(b)
      /\ Data(b) \in Seq(Unit) /\ Len(Data(b)) = BlockUnits
  BY RequestType, DataType DEF Unit
<1>2. q \in Seq(Unit) /\ Len(q) = 1 + BlockUnits /\ q[1] = Ok(b)
  BY <1>1, ConcatProperties, WireAssumption DEF Response
<1> HIDE DEF q
<1>3. n \in 1 .. Len(q)
  BY DEF q
<1>4. p \in Seq(Unit) /\ Len(p) = n /\ p[1] = q[1]
  BY <1>2, <1>3, WireAssumption
<1> HIDE DEF p
<1>5. Head(p) = Ok(b)
  BY <1>2, <1>3, <1>4
<1>6. Len(p) <= BlockUnits + 1
  BY <1>2, <1>3, <1>4, WireAssumption
<1> QED
  BY <1>4, <1>5, <1>6 DEF Answer, p, q

\* Units sent to a client that is there are what it finds, when it has read all before.
LEMMA FirstSent ==
    ASSUME NEW t \in Link, t.cli = "open", t.down = << >>, NEW units, NEW n, NEW b,
           SubSeq(units, 1, n) \in Seq(Unit)
    PROVE  /\ SendAll(t, units, n, b).down = SubSeq(units, 1, n)
           /\ SendAll(t, units, n, b).up = t.up
<1> DEFINE p == SubSeq(units, 1, n)
<1>1. t.down \o p = p
  BY ConcatEmptySeq
<1> HIDE DEF p
<1>2. Written(t, p).down = p /\ Written(t, p).up = t.up
  BY <1>1 DEF Written, Link
<1>3. \A x : LET w == Written(t, p)
                 z == [w EXCEPT !.answered = x]
             IN  z.down = w.down /\ z.up = w.up
  BY DEF Written, Link
<1> QED
  BY <1>2, <1>3 DEF SendAll, p

\* The message kept is answered once, with its block, or given up.
LEMMA WriteStage ==
    ASSUME TypeOK, ArrayInv, NEW s \in Conns, OnlyOne(s), net[s].cli = "open", WriteStep,
           Have = Blocks,
           NEW place \in {"request", "header", "body"}, NEW b \in Blocks, Stage(s, place, b)
    PROVE  Stage(s, place, b)'
<1>1. PICK f \in Fds : \/ NothingToAnswer(f) \/ DropsClient(f)
                       \/ RefusesBlock(f) \/ SendsBlock(f) \/ SendsNothing(f)
  BY DEF WriteStep
<1>2. WritesTo(f)
  BY <1>1 DEF NothingToAnswer, DropsClient, RefusesBlock, SendsBlock, SendsNothing
<1>3. /\ Kept(s, b) /\ place = "header"
      /\ i = 1 /\ psize = 2 /\ pfd[1].fd = f /\ sock[f] = s
      /\ EndIteration => pc' = "poll"
  BY <1>2, VisitedStage
<1>4. /\ net[s] \in Link /\ net \in [Conns -> Link]
      /\ net[s].up = << >> /\ net[s].down = << >>
      /\ rcv[f] # NoMsg => rcv[f] = Request(b)
  BY <1>3 DEF TypeOK, Kept
<1>5. rcv[f] # NoMsg => Acceptable(rcv[f]) /\ rcv[f].block = b /\ b \in Have
  BY <1>4, WireAssumption DEF Acceptable, Request, Blocks
<1>6. ASSUME pfd' = Marked("in"), psize' = psize, EndIteration, net'[s].up = << >>,
             Answer(net'[s].down, b)
      PROVE  Stage(s, place, b)'
  <2>1. pfd'[1].events = "in" /\ pc' = "poll"
    BY <1>3, <1>6, MarkedEntry
  <2>2. Quiet(s)'
    BY <1>6, <2>1 DEF Quiet, Waiting
  <2> QED
    BY <1>3, <1>6, <2>2 DEF Stage, Answer
<1>7. CASE NothingToAnswer(f) \/ SendsNothing(f)
  BY <1>4, <1>6, <1>7 DEF NothingToAnswer, SendsNothing, Answer
<1>8. CASE SendsBlock(f)
  <2>1. /\ pfd' = Marked("in") /\ EndIteration /\ psize' = psize
        /\ rcv[f].block = b
    BY <1>5, <1>8 DEF SendsBlock, Responds
  <2>2. PICK n \in Takes(Response(b)) :
            net' = [net EXCEPT ![sock[f]] = SendAll(@, Response(b), n, b)]
    BY <1>8, <2>1 DEF SendsBlock, Responds
  <2>3. n \in 1 .. Len(Response(b))
    <3>1. Response(b) \in Seq(Unit) /\ Response(b) # << >>
      BY RequestType, DataType DEF Response, Unit
    <3> QED
      BY <3>1, LenProperties DEF Takes
  <2>4. SubSeq(Response(b), 1, n) \in Seq(Unit) /\ Answer(SubSeq(Response(b), 1, n), b)
    BY <2>3, FirstUnits
  <2>5. net'[s] = SendAll(net[s], Response(b), n, b)
    BY <1>3, <1>4, <2>2
  <2>6. net'[s].down = SubSeq(Response(b), 1, n) /\ net'[s].up = << >>
    BY <1>4, <2>4, <2>5, FirstSent
  <2> QED
    BY <1>6, <2>1, <2>4, <2>6
<1>9. ~DropsClient(f) /\ ~RefusesBlock(f)
  BY <1>5 DEF DropsClient, RefusesBlock
<1> QED
  BY <1>1, <1>7, <1>8, <1>9

\* Every step of the server leaves the request in one place.
LEMMA ServerStage ==
    ASSUME TypeOK, ArrayInv, NEW s \in Conns, OnlyOne(s), net[s].cli = "open", ServerNext,
           Have = Blocks,
           NEW place \in {"request", "header", "body"}, NEW b \in Blocks, Stage(s, place, b)
    PROVE  Stage(s, place, b)'
<1>1. CASE SkipEntry \/ AcceptFails
  <2>1. /\ net' = net /\ pfd' = pfd /\ psize' = psize /\ d' = d /\ pc = "scan"
    BY <1>1 DEF SkipEntry, AcceptFails, Visits
  <2> QED
    BY <2>1, StageStays DEF rcv
<1>2. CASE PollFails
  BY <1>2, ExitStage DEF PollFails
<1> QED
  BY <1>1, <1>2, PollStage, AcceptStage, ReadStage, WriteStage DEF ServerNext, AcceptStep

----------------------------------------------------------------------------
(* What the client does with the answer.                                    *)

\* A client on a connection is on s, and past coming to it.
LEMMA OnlyHere ==
    ASSUME ClientInv, NEW s \in Conns, OnlyOne(s), NEW a \in Clients,
           client[a].at \in OnConnection
    PROVE  /\ a = s[1] /\ Conn(a) = s /\ Socket(a) = net[s] /\ ~Ahead(s)
           /\ net[s].cli = "open" /\ net[s] \in Link /\ net[s].late = << >>
<1>1. Conn(a) \in Conns /\ Conn(a)[1] = a
  BY OneClient DEF Conn
<1>2. net[Conn(a)].cli = "open"
  BY <1>1 DEF ClientInv, OneSocket
<1>3. Conn(a) = s
  BY <1>1, <1>2 DEF OnlyOne
<1>4. Conn(a)[1] = a /\ Conn(a)[2] = client[a].run /\ Conn(a)[3] = client[a].peer
  BY DEF Conn
<1>5. client[a].run \in Nat /\ client[a].peer \in Nat /\ client[a].at # "connect"
  BY OneClient, ClientAssumption DEF ClientState, OnConnection
<1>6. ~Ahead(s)
  BY <1>3, <1>4, <1>5 DEF Ahead
<1> QED
  BY <1>2, <1>3, <1>4, <1>6 DEF ClientInv, ClientTypeOK, OnlyOne, Socket

\* The client of an open connection is on it.
LEMMA OpenHere ==
    ASSUME ClientInv, NEW s \in Conns, net[s].cli = "open"
    PROVE  s[1] \in Clients /\ client[s[1]].at \in OnConnection
  BY ClientAssumption DEF ClientInv, OneSocket

\* A client never comes back to a peer of an earlier moment.
Later(was, is) ==
    \/ is.run > was.run
    \/ is.run = was.run /\ is.peer > was.peer
    \/ is.run = was.run /\ is.peer = was.peer /\ is.at # "connect"

\* A client past coming to the connection stays past it.
LEMMA NeverAgain ==
    ASSUME ClientInv, ClientInv', NEW s \in Conns, NEW a \in Clients, NEW st, Moves(a, st),
           Later(client[a], st)
    PROVE  /\ Ahead(s)' => Ahead(s)
           /\ client'[a] = st
           /\ \A other \in Clients : other # a => client'[other] = client[other]
<1>1. /\ client'[a] = st /\ \A other \in Clients : other # a => client'[other] = client[other]
      /\ st \in ClientState /\ client[a] \in ClientState
  BY DEF Moves, ClientInv, ClientTypeOK
<1>2. s[1] \in Clients /\ s[2] \in Nat /\ s[3] \in Nat
  BY ClientAssumption
<1>3. /\ st.run \in Nat /\ st.peer \in Nat /\ client[a].run \in Nat /\ client[a].peer \in Nat
  BY <1>1, ClientAssumption DEF ClientState
<1>4. CASE s[1] = a
  BY <1>1, <1>2, <1>3, <1>4 DEF Later, Ahead
<1>5. CASE s[1] # a
  BY <1>1, <1>2, <1>5 DEF Ahead
<1> QED
  BY <1>1, <1>4, <1>5

\* A step of a client that is on no connection and uses none.
LEMMA OffSocket ==
    ASSUME ClientInv, ClientInv', NEW s \in Conns, SoloInv(s), UNCHANGED serverVars,
           net' = net, NEW a \in Clients, NEW st, Moves(a, st), Later(client[a], st),
           client[a].at \notin OnConnection
    PROVE  SoloInv(s)'
<1>1. /\ Ahead(s)' => Ahead(s)
      /\ \A other \in Clients : other # a => client'[other] = client[other]
  BY NeverAgain
<1>2. OnlyOne(s)' /\ Unopened(s)'
  BY <1>1 DEF SoloInv, OnlyOne, Unopened, serverVars
<1>3. ASSUME net'[s].cli = "open" PROVE Stage(s, client[s[1]].at, client[s[1]].block)'
  <2>1. net[s].cli = "open"
    BY <1>3
  <2>2. s[1] \in Clients /\ s[1] # a
    BY <2>1, OpenHere
  <2>3. client'[s[1]] = client[s[1]]
    BY <1>1, <2>2
  <2>4. Stage(s, client[s[1]].at, client[s[1]].block)
    BY <2>1 DEF SoloInv, Staged
  <2>5. \A place, b : Stage(s, place, b) => Stage(s, place, b)'
    BY StageStays DEF serverVars, rcv
  <2> QED
    BY <2>3, <2>4, <2>5 DEF Stage, Asked, Kept
<1> QED
  BY <1>2, <1>3 DEF SoloInv, Staged

\* A step of the client on its connection, which stays open or not.
LEMMA AtSocket ==
    ASSUME ClientInv, ClientInv', NEW s \in Conns, SoloInv(s), TypeOK, UNCHANGED serverVars,
           NEW a \in Clients, client[a].at \in OnConnection,
           NEW t, OnSocket(a, t), t.late = << >>, t.srv = net[s].srv,
           NEW st, Moves(a, st), Later(client[a], st),
           t.cli = "open" => Stage(s, client[s[1]].at, client[s[1]].block)'
    PROVE  SoloInv(s)'
<1>1. OnlyOne(s) /\ Conn(a) = s /\ ~Ahead(s) /\ net \in [Conns -> Link]
  BY OnlyHere DEF SoloInv, TypeOK
<1>2. net' = [net EXCEPT ![s] = t] /\ net'[s] = t
  BY <1>1 DEF OnSocket
<1>3. sock' = sock /\ psize' = psize /\ (pc' = "scan" => c' = psize)
  BY <1>1 DEF serverVars, OnlyOne
<1>4. OnlyOne(s)'
  BY <1>1, <1>2, <1>3, StaysOnlyOne
<1>5. ~Ahead(s)'
  BY <1>1, NeverAgain
<1> QED
  BY <1>2, <1>4, <1>5 DEF SoloInv, Unopened, Staged

\* Every state a client goes to is later than the one it leaves.
LEMMA AllLater ==
    ASSUME ClientInv, NEW a \in Clients
    PROVE  /\ \A how : Later(client[a], Returns(a, how))
           /\ Later(client[a], ToNextPeer(a))
           /\ \A place : place # "connect" =>
                  LET st == [client[a] EXCEPT !.at = place]
                  IN  Later(client[a], st) /\ st.at = place /\ st.block = client[a].block
           /\ \A f, k : LET st == NextRequest(a, f, k)
                        IN  Later(client[a], st) /\ st.at \in {"request", "leave"}
           /\ Later(client[a], [client[a] EXCEPT !.at = "idle", !.block = NoBlock,
                                                 !.returned = "none"])
<1>1. client[a] \in ClientState /\ client[a].peer \in Nat
  BY OneClient, ClientAssumption DEF ClientState
<1>2. ASSUME NEW how PROVE Later(client[a], Returns(a, how))
  BY <1>1 DEF Later, Returns, ClientState
<1>3. Later(client[a], ToNextPeer(a))
  <2>1. ToNextPeer(a).run = client[a].run /\ ToNextPeer(a).peer = client[a].peer + 1
    BY <1>1 DEF ToNextPeer, ClientState
  <2> QED
    BY <1>1, <2>1 DEF Later
<1>4. ASSUME NEW place, place # "connect"
      PROVE  LET st == [client[a] EXCEPT !.at = place]
             IN  Later(client[a], st) /\ st.at = place /\ st.block = client[a].block
  BY <1>1, <1>4 DEF Later, ClientState
<1>5. ASSUME NEW f, NEW k
      PROVE  LET st == NextRequest(a, f, k)
             IN  Later(client[a], st) /\ st.at \in {"request", "leave"}
  <2>1. \A b : LET st == [client[a] EXCEPT !.at = "request", !.block = b]
               IN  Later(client[a], st) /\ st.at = "request"
    BY <1>1 DEF Later, ClientState
  <2>2. LET st == [client[a] EXCEPT !.at = "leave", !.block = NoBlock]
        IN  Later(client[a], st) /\ st.at = "leave"
    BY <1>1 DEF Later, ClientState
  <2> QED
    BY <2>1, <2>2 DEF NextRequest
<1>6. Later(client[a], [client[a] EXCEPT !.at = "idle", !.block = NoBlock, !.returned = "none"])
  BY <1>1 DEF Later, ClientState
<1> QED
  BY <1>2, <1>3, <1>4, <1>5, <1>6

\* The client closes the connection: nothing is asked on it any more.
LEMMA CloseSolo ==
    ASSUME ClientInv, ClientInv', NEW s \in Conns, SoloInv(s), TypeOK, UNCHANGED serverVars,
           NEW a \in Clients,
           \/ Leaves(a) \/ SendFails(a) \/ RefusesHeader(a) \/ NoHeader(a) \/ NoBody(a)
           \/ Crash(a) /\ client[a].at \in OnConnection
    PROVE  SoloInv(s)'
<1>1. client[a].at \in OnConnection
  BY DEF Leaves, SendFails, RefusesHeader, NoHeader, NoBody, At, OnConnection
<1>2. Socket(a) = net[s] /\ net[s] \in Link /\ net[s].late = << >>
  BY <1>1, OnlyHere DEF SoloInv
<1>3. PICK u : /\ u \in Link /\ u.late = << >> /\ u.srv = net[s].srv
               /\ OnSocket(a, ClosedByClient(u))
  <2>1. CASE RefusesHeader(a)
    <3>1. Has(a, 1) /\ OnSocket(a, ClosedByClient(Taken(a, 1)))
      BY <2>1 DEF RefusesHeader
    <3>2. Taken(a, 1) \in Link
      BY <1>2, <3>1, TakenOK
    <3>3. Taken(a, 1).late = << >> /\ Taken(a, 1).srv = net[s].srv
      BY <1>2 DEF Taken, Link
    <3> QED
      BY <3>1, <3>2, <3>3
  <2> QED
    BY <1>1, <1>2, <2>1 DEF Leaves, SendFails, NoHeader, NoBody, GivesUp, Crash
<1>4. PICK st : Moves(a, st) /\ Later(client[a], st)
  BY AllLater DEF Leaves, SendFails, RefusesHeader, NoHeader, NoBody, GivesUp, Crash
<1>5. LET t == ClosedByClient(u)
      IN  t.late = << >> /\ t.srv = net[s].srv /\ t.cli # "open"
  BY <1>3 DEF ClosedByClient, Link
<1> QED
  BY <1>1, <1>3, <1>4, <1>5, AtSocket

\* A request sent on an empty connection is there whole.
LEMMA RequestSent ==
    ASSUME NEW t \in Link, t.up = << >>, t.late = << >>, Fragmentation = FALSE,
           NEW b \in Blocks, NEW q \in Sent(t, Request(b))
    PROVE  /\ q.up = Halves(Request(b)) \/ q.up = << >>
           /\ q.down = t.down /\ q.late = << >> /\ q.srv = t.srv
<1> DEFINE h == Halves(Request(b))
           w == [t EXCEPT !.asked = Append(@, Request(b).block)]
<1>1. h \in Seq(Half)
  BY RequestType, HalvesType
<1>2. /\ w.up = t.up /\ w.down = t.down /\ w.late = t.late /\ w.srv = t.srv
      /\ \A x : LET z == [w EXCEPT !.up = x]
                IN  z.up = x /\ z.down = t.down /\ z.late = t.late /\ z.srv = t.srv
  BY DEF Link
<1>3. q = t \/ q = [w EXCEPT !.up = w.up \o h]
  BY DEF Sent
<1> HIDE DEF h, w
<1>4. w.up \o h = h
  BY <1>1, <1>2, ConcatEmptySeq
<1> QED
  BY <1>2, <1>3, <1>4 DEF h

\* Units read from the front leave the rest.
LEMMA RestRead ==
    ASSUME NEW t \in Link, NEW n \in Nat, Len(t.down) >= n
    PROVE  LET rest == SubSeq(t.down, n + 1, Len(t.down))
           IN  /\ rest \in Seq(Unit) /\ Len(rest) = Len(t.down) - n
               /\ Len(t.down) = n => rest = << >>
<1>1. t.down \in Seq(Unit)
  BY LinkFields
<1> DEFINE down == t.down
<1> HIDE DEF down
<1>2. down \in Seq(Unit) /\ Len(down) >= n /\ Len(down) \in Nat
  BY <1>1 DEF down
<1>3. LET rest == SubSeq(down, n + 1, Len(down))
      IN  rest \in Seq(Unit) /\ Len(rest) = Len(down) - n
  BY <1>2
<1>4. Len(down) = n => SubSeq(down, n + 1, Len(down)) = << >>
  BY <1>2, <1>3
<1> QED
  BY <1>3, <1>4 DEF down

\* The client asks, reads the header and reads the data.
LEMMA TalkSolo ==
    ASSUME ClientInv, ClientInv', NEW s \in Conns, SoloInv(s), TypeOK, UNCHANGED serverVars,
           Fragmentation = FALSE,
           NEW a \in Clients, SendsRequest(a) \/ HeaderArrives(a) \/ BodyArrives(a)
    PROVE  SoloInv(s)'
<1>0. PICK b : b = client[a].block
  OBVIOUS
<1>1. client[a].at \in OnConnection \ {"leave"}
  BY DEF SendsRequest, HeaderArrives, BodyArrives, At, OnConnection
<1>2. /\ a = s[1] /\ Conn(a) = s /\ Socket(a) = net[s]
      /\ net[s].cli = "open" /\ net[s] \in Link /\ net[s].late = << >>
  BY <1>1, OnlyHere DEF SoloInv
<1>3. b \in Blocks /\ Stage(s, client[a].at, b)
  BY <1>0, <1>1, <1>2, OneClient DEF PlaceOK, SoloInv, Staged
<1>4. net \in [Conns -> Link] /\ client \in [Clients -> ClientState]
  BY DEF ClientInv, ClientTypeOK
<1>5. \A what, told : Waiting(what, told)' <=> Waiting(what, told)
  BY DEF Waiting, serverVars
<1>6. CASE SendsRequest(a)
  <2>1. PICK t \in Sent(net[s], Request(b)) : OnSocket(a, t)
    BY <1>0, <1>2, <1>6 DEF SendsRequest
  <2>2. Quiet(s) /\ net[s].up = << >> /\ net[s].down = << >>
    BY <1>3, <1>6 DEF SendsRequest, At, Stage, Quiet
  <2>3. /\ t.up = Halves(Request(b)) \/ t.up = << >>
        /\ t.down = << >> /\ t.late = << >> /\ t.srv = net[s].srv
    BY <1>2, <1>3, <2>1, <2>2, RequestSent
  <2> DEFINE st == [client[a] EXCEPT !.at = "header"]
  <2>4. Moves(a, st) /\ Later(client[a], st) /\ st.at = "header" /\ st.block = b
    BY <1>0, <1>6, AllLater, SameFile DEF SendsRequest, Moves
  <2> HIDE DEF st
  <2>5. net'[s] = t /\ client'[s[1]] = st
    BY <1>2, <1>4, <2>1, <2>4 DEF OnSocket, Moves
  <2>6. Waiting("in", {"none"})' /\ Waiting("in", {"none", "in"})'
    BY <1>5, <2>2 DEF Quiet, Waiting
  <2>7. \/ net'[s].up = Halves(Request(b)) /\ net'[s].down = << >>
        \/ net'[s].up = << >> /\ net'[s].down = << >>
    BY <2>3, <2>5
  <2>8. Stage(s, "header", b)'
    BY <2>6, <2>7 DEF Stage, Asked, Quiet, Answer
  <2>9. Stage(s, client[s[1]].at, client[s[1]].block)'
    BY <2>4, <2>5, <2>8
  <2> QED
    BY <1>1, <2>1, <2>3, <2>4, <2>9, AtSocket
<1>7. ASSUME NEW n \in Nat, Has(a, n), OnSocket(a, Taken(a, n)),
             NEW st, Moves(a, st), Later(client[a], st), Quiet(s),
             st.at = "body" => Len(net[s].down) - n <= BlockUnits,
             st.at # "body" => st.at \in {"request", "leave"} /\ Len(net[s].down) = n
      PROVE  SoloInv(s)'
  <2> DEFINE t == Taken(a, n)
             rest == SubSeq(net[s].down, n + 1, Len(net[s].down))
  <2>1. rest \in Seq(Unit) /\ Len(rest) = Len(net[s].down) - n
        /\ (Len(net[s].down) = n => rest = << >>)
    BY <1>2, <1>7, RestRead DEF Has
  <2>2. /\ t.down = rest /\ t.up = << >> /\ t.late = << >> /\ t.srv = net[s].srv
    BY <1>2, <1>7 DEF Taken, Link, Quiet
  <2>3. net'[s] = t /\ client'[s[1]] = st
    BY <1>2, <1>4, <1>7 DEF OnSocket, Moves
  <2> HIDE DEF t, rest
  <2>4. Quiet(s)' /\ net'[s].down = rest
    BY <1>5, <1>7, <2>2, <2>3 DEF Quiet
  <2>5. /\ st.at = "body" => Len(net'[s].down) <= BlockUnits
        /\ st.at # "body" => st.at \in {"request", "leave"} /\ net'[s].down = << >>
    BY <1>7, <2>1, <2>4
  <2>6. Stage(s, client[s[1]].at, client[s[1]].block)'
    BY <2>3, <2>4, <2>5 DEF Stage
  <2>7. OnSocket(a, t)
    BY <1>7 DEF t
  <2> QED
    BY <1>1, <1>7, <2>2, <2>6, <2>7, AtSocket
<1>8. Len(net[s].down) \in Nat /\ BlockUnits \in Nat
  BY <1>2, LinkFields, LenProperties, WireAssumption
<1>9. CASE HeaderArrives(a)
  <2>1. Has(a, 1) /\ OnSocket(a, Taken(a, 1)) /\ client[a].at = "header" /\ Goes(a, "body")
    BY <1>9 DEF HeaderArrives, At
  <2>2. Len(net[s].down) >= 1
    BY <1>2, <2>1 DEF Has
  <2>3. net[s].down # << >>
    BY <2>2
  <2>4. Quiet(s) /\ Len(net[s].down) <= BlockUnits + 1
    BY <1>3, <2>1, <2>3 DEF Stage, Asked, Kept, Answer
  <2>5. Len(net[s].down) - 1 <= BlockUnits
    BY <1>8, <2>4
  <2> DEFINE st == [client[a] EXCEPT !.at = "body"]
  <2>6. Moves(a, st) /\ Later(client[a], st) /\ st.at = "body"
    BY <2>1, AllLater, SameFile DEF Moves
  <2> HIDE DEF st
  <2> QED
    BY <1>7, <2>1, <2>4, <2>5, <2>6
<1>10. CASE BodyArrives(a)
  <2>1. /\ Has(a, BlockUnits) /\ OnSocket(a, Taken(a, BlockUnits)) /\ client[a].at = "body"
        /\ \E f : Moves(a, NextRequest(a, f, b + 1))
    BY <1>0, <1>10 DEF BodyArrives, At
  <2>2. PICK st : Moves(a, st) /\ Later(client[a], st) /\ st.at \in {"request", "leave"}
    BY <2>1, AllLater
  <2>3. Quiet(s) /\ Len(net[s].down) <= BlockUnits
    BY <1>3, <2>1 DEF Stage
  <2>4. Len(net[s].down) = BlockUnits
    BY <1>2, <1>8, <2>1, <2>3 DEF Has
  <2> QED
    BY <1>7, <1>8, <2>1, <2>2, <2>3, <2>4
<1> QED
  BY <1>6, <1>9, <1>10

\* The client comes to the server: the connection is new, and nothing is on it.
LEMMA ConnectsSolo ==
    ASSUME TypeOK, ArrayInv, ClientInv, ClientInv', NEW s, Solo(s), SoloInv(s),
           UNCHANGED serverVars, NEW a \in Clients, Listening(a), Connects(a)
    PROVE  SoloInv(s)'
<1>1. /\ client[a].at = "connect" /\ client[a].peer <= PeerCount /\ client[a].peer \in Up
      /\ OnSocket(a, Connected(Socket(a))) /\ Moves(a, NextRequest(a, file[a], 0))
      /\ pc \notin {"died", "stopped"}
  BY DEF Connects, Listening, At
<1>2. client[a] \in ClientState /\ PlaceOK(client[a], file[a]) /\ file[a] \in File
  BY OneClient
<1>3. client[a].run \in 1 .. MaxRuns /\ client[a].peer \in 1 .. PeerCount
  BY <1>1, <1>2, ClientAssumption DEF ClientState, PlaceOK
<1>4. Conn(a) \in Conns /\ Conn(a)[3] = client[a].peer
  BY <1>3, ClientAssumption DEF Conn
<1>5. s \in Conns /\ Conn(a) = s
  BY <1>1, <1>4 DEF Solo
<1>6. s[1] = a /\ s[2] = client[a].run /\ s[3] = client[a].peer
  BY <1>5 DEF Conn
<1>7. Ahead(s)
  BY <1>1, <1>6 DEF Ahead
<1>8. /\ net[s].srv = "none" /\ net[s].up = << >> /\ net[s].down = << >>
      /\ OnlyOne(s) /\ net[s] \in Link /\ net \in [Conns -> Link]
  BY <1>5, <1>7 DEF SoloInv, Unopened, TypeOK
<1>9. psize = 1 /\ \A f \in Fds : sock[f] = NoConn
  BY <1>1, <1>5, <1>8, NoEntryYet DEF TypeOK
<1>10. net' = [net EXCEPT ![s] = Connected(net[s])]
  BY <1>1, <1>5 DEF OnSocket, Socket
<1>11. LET t == Connected(net[s])
       IN  t.late = net[s].late /\ t.up = << >> /\ t.down = << >>
  BY <1>8 DEF Connected, Link
<1>12. OnlyOne(s)'
  <2>1. \A k \in Conns : net'[k].late = << >> /\ (k # s => net'[k] = net[k])
    BY <1>5, <1>8, <1>10, <1>11 DEF OnlyOne
  <2>2. \A f \in Fds : sock'[f] = NoConn
    BY <1>9 DEF serverVars
  <2> QED
    BY <1>8, <2>1, <2>2 DEF OnlyOne, serverVars
<1>13. PICK st : /\ client'[s[1]] = st /\ st.at \in {"request", "leave"}
                 /\ st.run = s[2] /\ st.peer = s[3]
  <2>1. client' = [client EXCEPT ![a] = NextRequest(a, file[a], 0)]
    BY <1>1 DEF Moves
  <2>2. client \in [Clients -> ClientState]
    BY DEF ClientInv, ClientTypeOK
  <2> QED
    BY <1>2, <1>4, <1>6, <2>1, <2>2, NextRequestOK
<1>14. Unopened(s)'
  <2>1. s[2] \in Nat /\ s[3] \in Nat
    BY <1>3, <1>6
  <2>2. ~Ahead(s)'
    BY <1>13, <2>1 DEF Ahead
  <2> QED
    BY <2>2 DEF Unopened
<1>15. Stage(s, client[s[1]].at, client[s[1]].block)'
  <2>1. Quiet(s)' /\ net'[s].down = << >>
    BY <1>5, <1>8, <1>9, <1>10, <1>11 DEF Quiet, Waiting, serverVars
  <2> QED
    BY <1>13, <2>1 DEF Stage
<1> QED
  BY <1>12, <1>14, <1>15 DEF SoloInv, Staged

\* The client starts, ends, and goes from one address to the next.
LEMMA RestSolo ==
    ASSUME ClientInv, ClientInv', NEW s \in Conns, SoloInv(s), UNCHANGED serverVars,
           NEW a \in Clients,
           \/ Start(a) \/ Destroy(a) \/ NoMorePeers(a) \/ SocketFails(a) \/ ConnectFails(a)
           \/ Crash(a) /\ client[a].at \notin OnConnection
    PROVE  SoloInv(s)'
<1>1. net' = net /\ client[a].at \notin OnConnection
  BY DEF Start, Destroy, NoMorePeers, SocketFails, ConnectFails, Crash, At, OnConnection
<1>2. client[a] \in ClientState /\ client[a].run \in Nat
  BY OneClient, ClientAssumption DEF ClientState
<1>3. PICK st : Moves(a, st) /\ Later(client[a], st)
  <2>1. CASE Start(a)
    <3> DEFINE started == [client[a] EXCEPT !.run = @ + 1, !.peer = 1, !.returned = "none"]
    <3>1. started.run = client[a].run + 1
      BY <1>2 DEF ClientState
    <3> HIDE DEF started
    <3>2. /\ [started EXCEPT !.at = "destroy", !.returned = "ok"].run = started.run
          /\ [started EXCEPT !.at = "connect"].run = started.run
          /\ [started EXCEPT !.returned = "error"].run = started.run
      OBVIOUS
    <3>3. \/ Moves(a, [started EXCEPT !.at = "destroy", !.returned = "ok"])
          \/ Moves(a, [started EXCEPT !.at = "connect"])
          \/ Moves(a, [started EXCEPT !.returned = "error"])
      BY <2>1 DEF Start, started
    <3>4. PICK st : Moves(a, st) /\ st.run = started.run
      BY <3>2, <3>3
    <3> QED
      BY <1>2, <3>1, <3>4 DEF Later
  <2>2. CASE Destroy(a)
    <3> DEFINE gone == [client[a] EXCEPT !.at = "idle"]
    <3>1. Later(client[a], gone)
      BY AllLater
    <3>2. Moves(a, gone)
      BY <2>2, SameFile DEF Destroy, Moves
    <3> QED
      BY <3>1, <3>2
  <2>3. CASE NoMorePeers(a) \/ SocketFails(a) \/ ConnectFails(a)
    BY <2>3, AllLater DEF NoMorePeers, SocketFails, ConnectFails
  <2>4. CASE Crash(a)
    BY <2>4, AllLater DEF Crash
  <2> QED
    BY <2>1, <2>2, <2>3, <2>4
<1> QED
  BY <1>1, <1>3, OffSocket

\* Steps of the clients keep the request in its place.
LEMMA ClientSolo ==
    ASSUME SwarmInv, SwarmInv', NEW s, Solo(s), SoloInv(s), Fragmentation = FALSE,
           NEW a \in Clients, Runs(a) \/ Killed(a)
    PROVE  SoloInv(s)'
<1>1. /\ TypeOK /\ ArrayInv /\ ClientInv /\ ClientInv' /\ s \in Conns /\ UNCHANGED serverVars
  BY SwarmActs DEF SwarmInv, Solo
<1>2. CASE Killed(a)
  BY <1>1, <1>2, CloseSolo, RestSolo DEF Killed
<1>3. CASE ClientStep(a)
  BY <1>1, <1>3, CloseSolo, RestSolo, TalkSolo DEF ClientStep
<1>4. CASE ConnectStep(a, Listening(a))
  BY <1>1, <1>4, ConnectsSolo, RestSolo DEF ConnectStep
<1> QED
  BY <1>2, <1>3, <1>4 DEF Runs

\* The server does nothing with what was never connected.
LEMMA Untouched ==
    ASSUME TypeOK, NEW s \in Conns, net[s].srv = "none", \A f \in Fds : sock[f] = NoConn,
           ServerNext
    PROVE  net'[s] = net[s]
<1>1. ASSUME NEW k, k # s, NEW t, net' = [net EXCEPT ![k] = t] PROVE net'[s] = net[s]
  BY <1>1 DEF TypeOK
<1>2. s # NoConn
  BY Constants
<1>3. ASSUME NEW how, Exit(how) PROVE net'[s] = net[s]
  BY <1>3 DEF Exit
<1>4. ASSUME NEW f \in Fds, NEW slots, RemoveClient(f, slots) PROVE net'[s] = net[s]
  <2>1. CASE net' = [net EXCEPT ![sock[f]] = ClosedByServer(@)]
    BY <1>1, <1>2, <2>1
  <2> QED
    BY <1>3, <1>4, <2>1 DEF RemoveClient
<1>5. CASE AcceptStep
  <2>1. CASE \E k \in Backlog : net' = [net EXCEPT ![k] = Accepted(@)]
    BY <1>1, <2>1 DEF Backlog
  <2> QED
    BY <1>5, <2>1 DEF AcceptStep, Accepts, AcceptsUnwatched, AcceptFails
<1>6. CASE ReadStep
  <2>1. PICK f \in Fds : StoresMessage(f) \/ ReadFails(f) \/ ClientLeft(f)
    BY <1>6 DEF ReadStep
  <2>2. CASE net' = [net EXCEPT ![sock[f]] = Received(@)]
    BY <1>1, <1>2, <2>2
  <2> QED
    BY <1>4, <2>1, <2>2 DEF StoresMessage, ReadFails, ClientLeft
<1>7. CASE WriteStep
  <2>1. PICK f \in Fds : \/ NothingToAnswer(f) \/ DropsClient(f)
                         \/ RefusesBlock(f) \/ SendsBlock(f) \/ SendsNothing(f)
    BY <1>7 DEF WriteStep
  <2>2. ASSUME NEW units, Responds(f, units) PROVE net'[s] = net[s]
    BY <1>1, <1>2, <2>2 DEF Responds
  <2> QED
    BY <1>4, <2>1, <2>2 DEF NothingToAnswer, DropsClient, RefusesBlock, SendsBlock, SendsNothing
<1> QED
  BY <1>3, <1>5, <1>6, <1>7 DEF ServerNext, PollReturns, PollFails, SkipEntry

\* Steps of the server do so too, and leave what was never connected.
LEMMA ServesSolo ==
    ASSUME SwarmInv, NEW s, Solo(s), SoloInv(s), Have = Blocks, Serves
    PROVE  SoloInv(s)'
<1>1. /\ TypeOK /\ ArrayInv /\ ClientInv /\ s \in Conns /\ OnlyOne(s)
      /\ ServerNext /\ client' = client
  BY DEF SwarmInv, Solo, SoloInv, Serves, clientVars
<1>2. OnlyOne(s)'
  BY <1>1, ServerOnlyOne
<1>3. net'[s].cli = "open" => net[s].cli = "open"
  BY <1>1, ServerSends DEF SwarmInv, FromHave
<1>4. ASSUME net[s].cli = "open" PROVE Staged(s)'
  <2>1. PICK place, b : place = client[s[1]].at /\ b = client[s[1]].block
    OBVIOUS
  <2>2. s[1] \in Clients /\ place \in OnConnection
    BY <1>1, <1>4, <2>1, OpenHere
  <2>3. Stage(s, place, b)
    BY <1>4, <2>1 DEF SoloInv, Staged
  <2>4. CASE place = "leave"
    <3>1. Stage(s, place, b)'
      BY <2>4 DEF Stage
    <3> QED
      BY <1>1, <2>1, <3>1 DEF Staged
  <2>5. CASE place # "leave"
    <3>1. place \in {"request", "header", "body"} /\ b \in Blocks
      BY <1>1, <2>1, <2>2, <2>5, OneClient DEF PlaceOK, OnConnection
    <3>2. Stage(s, place, b)'
      BY <1>1, <1>4, <2>3, <3>1, ServerStage
    <3> QED
      BY <1>1, <2>1, <3>2 DEF Staged
  <2> QED
    BY <2>4, <2>5
<1>5. ASSUME net[s].srv = "none" PROVE net'[s] = net[s]
  <2>1. \A f \in Fds : sock[f] = NoConn
    BY <1>1, <1>5 DEF OnlyOne
  <2> QED
    BY <1>1, <1>5, <2>1, Untouched
<1>6. Unopened(s)'
  BY <1>1, <1>5 DEF SoloInv, Unopened, Ahead
<1> QED
  BY <1>2, <1>3, <1>4, <1>6 DEF SoloInv, Staged

\* The first state: no connection at all.
LEMMA InitSolo == ASSUME NEW s, Solo(s), Init PROVE SoloInv(s)
<1>1. \A k \in Conns : /\ net[k].cli = "none" /\ net[k].srv = "none" /\ net[k].up = << >>
                       /\ net[k].late = << >> /\ net[k].down = << >>
  BY DEF Init, NetInit
<1>2. psize = 1 /\ pc = "poll" /\ \A f \in Fds : sock[f] = NoConn
  BY DEF Init, ServerInit
<1> QED
  BY <1>1, <1>2 DEF SoloInv, OnlyOne, Unopened, Staged, Solo

\* Every step of clients, server and network keeps the request in one place.
LEMMA NextSolo ==
    ASSUME SwarmInv, SwarmInv', NEW s, Solo(s), SoloInv(s), Fragmentation = FALSE,
           Have = Blocks, [Next]_vars
    PROVE  SoloInv(s)'
<1>1. CASE UNCHANGED vars
  <2>1. /\ net' = net /\ client' = client
        /\ pc' = pc /\ pfd' = pfd /\ psize' = psize /\ c' = c /\ d' = d /\ sock' = sock
    BY <1>1 DEF vars, serverVars, clientVars
  <2> QED
    BY <2>1 DEF SoloInv, OnlyOne, Unopened, Ahead, Staged, Stage, Asked, Kept, Quiet,
                Answer, Waiting, rcv
<1>2. ASSUME NEW k \in Conns, Arrives(k) PROVE FALSE
  BY <1>2 DEF Arrives, SoloInv, OnlyOne
<1> QED
  BY <1>1, <1>2, ClientSolo, ServesSolo DEF Next

\* With one connection to the server the header a client waits for is that of its block.
LEMMA SoloMatches ==
    ASSUME SwarmInv, NEW s, Solo(s), SoloInv(s)
    PROVE  AnswersMatch
<1> SUFFICES ASSUME NEW a \in Clients, At(a, "header"), Socket(a).down # << >>
             PROVE  Head(Socket(a).down) = Ok(client[a].block)
  BY DEF AnswersMatch
<1>1. ClientInv /\ s \in Conns /\ OnlyOne(s) /\ client[a].at = "header"
      /\ client[a].at \in OnConnection
  BY DEF SwarmInv, Solo, SoloInv, At, OnConnection
<1>2. a = s[1] /\ Socket(a) = net[s] /\ net[s].cli = "open"
  BY <1>1, OnlyHere
<1>3. Stage(s, "header", client[a].block)
  BY <1>1, <1>2 DEF SoloInv, Staged
<1> QED
  BY <1>2, <1>3 DEF Stage, Asked, Kept, Answer

\* When one connection comes to the server, no request is cut in two and the server holds
\* every block, then whatever calls fail, however little of a response is sent at a time,
\* whenever the client is killed or the server stops, a client waiting for a header is
\* given the one of the block it asked for (client.c:113-131, server.c:160-255).
THEOREM AnswersTheRequest ==
    ASSUME NEW s, Solo(s), Fragmentation = FALSE, Have = Blocks
    PROVE  Spec => []AnswersMatch
<1>1. Init => SwarmInv /\ SoloInv(s)
  BY SwarmInit, InitSolo
<1>2. SwarmInv /\ SoloInv(s) /\ [Next]_vars => (SwarmInv /\ SoloInv(s))'
  BY SwarmNext, NextSolo
<1>3. SwarmInv /\ SoloInv(s) => AnswersMatch
  BY SoloMatches
<1> QED
  BY <1>1, <1>2, <1>3, PTL DEF Spec
=============================================================================

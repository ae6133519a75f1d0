---------------------------- MODULE ClientProofs ----------------------------
(***************************************************************************)
(* The client on its own: every step of it, killed at any moment, with     *)
(* failing calls on sockets and files and with anything waiting on its     *)
(* connections, keeps its types, the truth of block_map, the closing of    *)
(* its sockets and what is right on the disk.                              *)
(***************************************************************************)
EXTENDS Client, TcpProofs, WellFoundedInduction

\* What is right in a file is in block_map, and during a run block_map promises nothing
\* else, unless fseeko loses a buffer.
FileOK(f) == f.disk \cup f.pend \subseteq f.map
Promised(f) == "fseeko" \notin IoFaults => f.map \subseteq f.disk \cup f.pend

MapOK == \A a \in Clients :
    FileOK(file[a]) /\ (client[a].at # "idle" => Promised(file[a]))

ClientInv == ClientTypeOK /\ MapOK /\ OneSocket

----------------------------------------------------------------------------
(* The file.                                                                *)

\* A load finds what is on the disk.
LEMMA LoadedOK == ASSUME NEW disk \in SUBSET Blocks
                  PROVE  /\ Loaded(disk) \in File
                         /\ FileOK(Loaded(disk)) /\ Promised(Loaded(disk))
  BY DEF Loaded, File, FileOK, Promised

\* A buffer written changes nothing of what the map promises.
LEMMA FlushedOK == ASSUME NEW f \in File
                   PROVE  /\ Flushed(f) \in File
                          /\ Flushed(f).map = f.map /\ Flushed(f).pend = {}
                          /\ Flushed(f).disk = f.disk \cup f.pend
  BY DEF Flushed, File

\* A buffer lost takes nothing from the disk.
LEMMA DroppedOK == ASSUME NEW f \in File
                   PROVE  /\ Dropped(f) \in File
                          /\ Dropped(f).map = f.map /\ Dropped(f).pend = {}
                          /\ Dropped(f).disk = f.disk
  BY DEF Dropped, File

\* fio_store_block of a block that is missing, with the right data or not, failing
\* at any call or not: the map stays true and nothing right leaves the disk.
LEMMA StoreOK ==
    ASSUME NEW f \in File, FileOK(f), Promised(f), NEW b \in Blocks, b \notin f.map,
           NEW right \in BOOLEAN, NEW g \in FioStoreBlock(f, b, right)
    PROVE  g \in File /\ FileOK(g) /\ Promised(g) /\ f.disk \subseteq g.disk
<1> DEFINE w == Flushed(f)
<1>1. w \in File /\ w.map = f.map /\ w.pend = {} /\ w.disk = f.disk \cup f.pend
  BY FlushedOK
<1> HIDE DEF w
<1>2. \/ g = f
      \/ "fseeko" \in IoFaults /\ g = Dropped(f)
      \/ g = [w EXCEPT !.disk = @ \ {b}]
      \/ g = [w EXCEPT !.map = @ \cup {b}, !.disk = @ \cup {b}]
      \/ g = [w EXCEPT !.map = @ \cup {b}, !.disk = @ \ {b}, !.pend = {b}]
  BY DEF FioStoreBlock, StoreFailed, Stored, w
<1>3. CASE g = f
  BY <1>3
<1>7. CASE "fseeko" \in IoFaults /\ g = Dropped(f)
  BY <1>7, DroppedOK DEF FileOK, Promised
<1>4. CASE g = [w EXCEPT !.disk = @ \ {b}]
  <2>1. g = [map |-> w.map, disk |-> w.disk \ {b}, pend |-> w.pend]
    BY <1>1, <1>4 DEF File
  <2> QED
    BY <1>1, <2>1 DEF File, FileOK, Promised
<1>5. CASE g = [w EXCEPT !.map = @ \cup {b}, !.disk = @ \cup {b}]
  <2>1. g = [map |-> w.map \cup {b}, disk |-> w.disk \cup {b}, pend |-> w.pend]
    BY <1>1, <1>5 DEF File
  <2> QED
    BY <1>1, <2>1 DEF File, FileOK, Promised
<1>6. CASE g = [w EXCEPT !.map = @ \cup {b}, !.disk = @ \ {b}, !.pend = {b}]
  <2>1. g = [map |-> w.map \cup {b}, disk |-> w.disk \ {b}, pend |-> {b}]
    BY <1>1, <1>6 DEF File
  <2> QED
    BY <1>1, <2>1 DEF File, FileOK, Promised
<1> QED
  BY <1>2, <1>3, <1>4, <1>5, <1>6, <1>7

\* A store marks no block that is not there, and loses one that is marked only with the
\* buffer, to a failing fseeko.
LEMMA StoreLoses ==
    ASSUME NEW f \in File, NEW b \in Blocks, b \notin f.map, NEW right \in BOOLEAN,
           NEW g \in FioStoreBlock(f, b, right), NEW c \in g.map \ (g.disk \cup g.pend)
    PROVE  \/ c \in f.map \ (f.disk \cup f.pend)
           \/ "fseeko" \in IoFaults /\ c \in f.pend
<1> DEFINE w == Flushed(f)
<1>1. w \in File /\ w.map = f.map /\ w.pend = {} /\ w.disk = f.disk \cup f.pend
  BY FlushedOK
<1> HIDE DEF w
<1>2. \/ g = f
      \/ "fseeko" \in IoFaults /\ g = Dropped(f)
      \/ g = [w EXCEPT !.disk = @ \ {b}]
      \/ g = [w EXCEPT !.map = @ \cup {b}, !.disk = @ \cup {b}]
      \/ g = [w EXCEPT !.map = @ \cup {b}, !.disk = @ \ {b}, !.pend = {b}]
  BY DEF FioStoreBlock, StoreFailed, Stored, w
<1>3. CASE "fseeko" \in IoFaults /\ g = Dropped(f)
  BY <1>3, DroppedOK
<1>4. CASE ~("fseeko" \in IoFaults /\ g = Dropped(f))
  BY <1>1, <1>2, <1>4 DEF File
<1> QED
  BY <1>3, <1>4

\* A block only reaches the disk or the buffer with its right data.
LEMMA StoredBlock ==
    ASSUME NEW f \in File, NEW b \in Blocks, NEW right \in BOOLEAN,
           NEW g \in FioStoreBlock(f, b, right)
    PROVE  \/ g = f \/ g = Dropped(f)
           \/ /\ right
              /\ g.disk \subseteq f.disk \cup f.pend \cup {b}
              /\ g.pend \subseteq {b}
<1> DEFINE w == Flushed(f)
<1>1. w \in File /\ w.map = f.map /\ w.pend = {} /\ w.disk = f.disk \cup f.pend
  BY FlushedOK
<1> HIDE DEF w
<1>2. \/ g = f \/ g = Dropped(f)
      \/ right /\ g = [w EXCEPT !.disk = @ \ {b}]
      \/ right /\ g = [w EXCEPT !.map = @ \cup {b}, !.disk = @ \cup {b}]
      \/ right /\ g = [w EXCEPT !.map = @ \cup {b}, !.disk = @ \ {b}, !.pend = {b}]
  BY DEF FioStoreBlock, StoreFailed, Stored, w
<1> QED
  BY <1>1, <1>2 DEF File

----------------------------------------------------------------------------
(* One client moves: what has to be shown of it alone.                      *)

\* The parts of the invariant for one client.
LEMMA OneClient ==
    ASSUME ClientInv, NEW a \in Clients
    PROVE  /\ client[a] \in ClientState /\ file[a] \in File
           /\ PlaceOK(client[a], file[a]) /\ FileOK(file[a])
           /\ client[a].at # "idle" => Promised(file[a])
           /\ client[a].at \in OnConnection => Conn(a) \in Conns
           /\ Conn(a) \in Conns => Socket(a) \in Link
  <1>1. /\ client[a] \in ClientState /\ file[a] \in File
        /\ PlaceOK(client[a], file[a])
    BY DEF ClientInv, ClientTypeOK
  <1>2. FileOK(file[a]) /\ (client[a].at # "idle" => Promised(file[a]))
    BY DEF ClientInv, MapOK
  <1>3. ASSUME client[a].at \in OnConnection PROVE Conn(a) \in Conns
    <2>1. /\ client[a].run \in 0 .. MaxRuns /\ client[a].peer \in 1 .. PeerCount + 1
          /\ client[a].run >= 1 /\ client[a].peer <= PeerCount
      BY <1>1, <1>3 DEF ClientState, PlaceOK, OnConnection
    <2>2. client[a].run \in 1 .. MaxRuns /\ client[a].peer \in 1 .. PeerCount
      BY <2>1, ClientAssumption
    <2> QED
      BY <2>2, ClientAssumption DEF Conn
  <1>4. Conn(a) \in Conns => Socket(a) \in Link
    BY DEF ClientInv, ClientTypeOK, Socket
  <1> QED
    BY <1>1, <1>2, <1>3, <1>4

\* A client that goes to a state s with a file f, both consistent, and has a socket
\* there exactly when s is on a connection, keeps the invariant for all clients.
LEMMA ClientMoves ==
    ASSUME ClientInv, NEW a \in Clients, NEW s \in ClientState, NEW f \in File,
           client' = [client EXCEPT ![a] = s], file' = [file EXCEPT ![a] = f],
           PlaceOK(s, f), FileOK(f), s.at # "idle" => Promised(f),
           net' \in [Conns -> Link],
           \A k \in Conns : k # Conn(a) => net'[k].cli = net[k].cli,
           Conn(a) \in Conns => (net'[Conn(a)].cli = "open" <=> s.at \in OnConnection),
           s.at \in OnConnection => s.run = client[a].run /\ s.peer = client[a].peer
    PROVE  ClientInv'
<1>1. /\ client \in [Clients -> ClientState] /\ file \in [Clients -> File]
      /\ \A b \in Clients : PlaceOK(client[b], file[b])
  BY DEF ClientInv, ClientTypeOK
<1>2. /\ client'[a] = s /\ file'[a] = f
      /\ \A b \in Clients \ {a} : client'[b] = client[b] /\ file'[b] = file[b]
      /\ client' \in [Clients -> ClientState] /\ file' \in [Clients -> File]
  BY <1>1
<1>3. ClientTypeOK'
  BY <1>1, <1>2 DEF ClientTypeOK, PlaceOK
<1>4. MapOK'
  <2> SUFFICES ASSUME NEW b \in Clients
               PROVE  FileOK(file'[b]) /\ (client'[b].at # "idle" => Promised(file'[b]))
    BY DEF MapOK, FileOK, Promised
  <2>1. CASE b = a
    BY <1>2, <2>1
  <2>2. CASE b # a
    <3>1. FileOK(file[b]) /\ (client[b].at # "idle" => Promised(file[b]))
      BY DEF ClientInv, MapOK
    <3> QED
      BY <1>2, <2>2, <3>1
  <2> QED
    BY <2>1, <2>2
<1>5. OneSocket'
  <2> SUFFICES ASSUME NEW k \in Conns
               PROVE  net'[k].cli = "open" <=>
                          client'[k[1]].at \in OnConnection /\ k = Conn(k[1])'
    BY DEF OneSocket
  <2>1. k[1] \in Clients /\ k = <<k[1], k[2], k[3]>>
    BY ClientAssumption
  <2>2. net[k].cli = "open" <=> client[k[1]].at \in OnConnection /\ k = Conn(k[1])
    BY DEF ClientInv, OneSocket
  <2>3. CASE k[1] # a
    <3>1. Conn(k[1])' = Conn(k[1]) /\ client'[k[1]] = client[k[1]]
      BY <1>2, <2>1, <2>3 DEF Conn
    <3>2. k # Conn(a)
      BY <2>3 DEF Conn
    <3> QED
      BY <2>2, <3>1, <3>2
  <2>4. CASE k[1] = a /\ k # Conn(a)
    <3>1. net'[k].cli # "open"
      BY <2>2, <2>4
    <3>2. s.at \in OnConnection => Conn(a)' = Conn(a)
      BY <1>2 DEF Conn
    <3> QED
      BY <1>2, <2>4, <3>1, <3>2
  <2>5. CASE k = Conn(a)
    <3>1. k[1] = a
      BY <2>5 DEF Conn
    <3>2. s.at \in OnConnection => Conn(a)' = Conn(a)
      BY <1>2 DEF Conn
    <3> QED
      BY <1>2, <2>5, <3>1, <3>2
  <2> QED
    BY <2>3, <2>4, <2>5
<1> QED
  BY <1>3, <1>4, <1>5 DEF ClientInv

\* The same without a change of the network: the client is on its connection
\* before and after, or before and after on none.
LEMMA ClientMovesAlone ==
    ASSUME ClientInv, NEW a \in Clients, NEW s \in ClientState, NEW f \in File,
           client' = [client EXCEPT ![a] = s], file' = [file EXCEPT ![a] = f],
           PlaceOK(s, f), FileOK(f), s.at # "idle" => Promised(f), net' = net,
           s.at \in OnConnection <=> client[a].at \in OnConnection,
           s.at \in OnConnection => s.run = client[a].run /\ s.peer = client[a].peer
    PROVE  ClientInv'
<1>1. net \in [Conns -> Link]
  BY DEF ClientInv, ClientTypeOK
<1>2. ASSUME Conn(a) \in Conns
      PROVE  net'[Conn(a)].cli = "open" <=> s.at \in OnConnection
  <2>1. Conn(a)[1] = a
    BY DEF Conn
  <2> QED
    BY <1>2, <2>1 DEF ClientInv, OneSocket
<1> QED
  BY <1>1, <1>2, ClientMoves

\* The same with a change of the client's own socket.
LEMMA ClientMovesSocket ==
    ASSUME ClientInv, NEW a \in Clients, NEW s \in ClientState, NEW f \in File,
           NEW link \in Link, Conn(a) \in Conns,
           client' = [client EXCEPT ![a] = s], file' = [file EXCEPT ![a] = f],
           PlaceOK(s, f), FileOK(f), s.at # "idle" => Promised(f), OnSocket(a, link),
           link.cli = "open" <=> s.at \in OnConnection,
           s.at \in OnConnection => s.run = client[a].run /\ s.peer = client[a].peer
    PROVE  ClientInv'
<1>1. net \in [Conns -> Link]
  BY DEF ClientInv, ClientTypeOK
<1>2. /\ net' \in [Conns -> Link] /\ net'[Conn(a)] = link
      /\ \A k \in Conns : k # Conn(a) => net'[k].cli = net[k].cli
  BY <1>1 DEF OnSocket
<1> QED
  BY <1>2, ClientMoves

----------------------------------------------------------------------------
(* The parts of the steps.                                                  *)

\* Among some blocks there is a least one.
LEMMA LeastBlock ==
    ASSUME NEW S \in SUBSET Blocks, S # {}
    PROVE  \E b \in S : \A other \in S : b <= other
<1>1. S \subseteq Nat
  BY WireAssumption DEF Blocks
<1>2. PICK b \in S : \A other \in S : << other, b >> \notin OpToRel(<, Nat)
  BY <1>1, WFMin, NatLessThanWellFounded, Zenon
<1>3. ASSUME NEW other \in S PROVE ~(other < b)
  <2>1. /\ << other, b >> \in Nat \X Nat
        /\ << other, b >>[1] = other /\ << other, b >>[2] = b
    BY <1>1
  <2> QED
    BY <1>2, <2>1, Zenon DEF OpToRel
<1> QED
  BY <1>1, <1>3

\* The loop over the blocks stops at a missing block, not before the one it was
\* at, or leaves the connection; it stays with its peer.
LEMMA NextRequestOK ==
    ASSUME ClientInv, NEW a \in Clients, Conn(a) \in Conns, NEW f \in File, NEW k \in Nat
    PROVE  LET s == NextRequest(a, f, k)
           IN  /\ s \in ClientState /\ PlaceOK(s, f)
               /\ s.at \in {"request", "leave"}
               /\ s.run = client[a].run /\ s.peer = client[a].peer
               /\ s.at = "request" => s.block >= k
<1> DEFINE s == NextRequest(a, f, k)
           b == CHOOSE b \in MissingFrom(f, k) : \A other \in MissingFrom(f, k) : b <= other
<1>1. client[a] \in ClientState
  BY OneClient
<1>2. client[a].run \in 1 .. MaxRuns /\ client[a].peer \in 1 .. PeerCount
  BY ClientAssumption DEF Conn
<1>3. CASE MissingFrom(f, k) = {}
  <2>1. s = [client[a] EXCEPT !.at = "leave", !.block = NoBlock]
    BY <1>3 DEF NextRequest
  <2>2. NoBlock \in 0 .. BlockCount
    BY WireAssumption DEF NoBlock
  <2>3. /\ s \in ClientState /\ s.at = "leave"
        /\ s.run = client[a].run /\ s.peer = client[a].peer
    BY <1>1, <2>1, <2>2 DEF ClientState
  <2> QED
    BY <1>2, <2>3 DEF PlaceOK, OnConnection
<1>4. CASE MissingFrom(f, k) # {}
  <2>1. MissingFrom(f, k) \in SUBSET Blocks
    BY DEF MissingFrom
  <2>2. b \in MissingFrom(f, k)
    BY <1>4, <2>1, LeastBlock
  <2>3. b \in Blocks \ f.map /\ b \in 0 .. BlockCount /\ b >= k
    <3>1. ASSUME NEW m \in MissingFrom(f, k)
          PROVE  m \in Blocks \ f.map /\ m \in 0 .. BlockCount /\ m >= k
      BY WireAssumption DEF MissingFrom, Blocks
    <3> QED
      BY <2>2, <3>1
  <2>4. s = [client[a] EXCEPT !.at = "request", !.block = b]
    BY <1>4 DEF NextRequest
  <2> HIDE DEF b, s
  <2>5. /\ s \in ClientState /\ s.at = "request" /\ s.block = b
        /\ s.run = client[a].run /\ s.peer = client[a].peer
    BY <1>1, <2>3, <2>4 DEF ClientState
  <2>6. PlaceOK(s, f)
    BY <1>2, <2>3, <2>5 DEF PlaceOK, OnConnection
  <2> QED
    BY <2>3, <2>5, <2>6 DEF s
<1> QED
  BY <1>3, <1>4

\* A step that leaves the file alone, and one that only changes the place.
LEMMA SameFile ==
    ASSUME ClientInv, NEW a \in Clients
    PROVE  /\ UNCHANGED file => file' = [file EXCEPT ![a] = file[a]]
           /\ \A place : Goes(a, place) =>
                  client' = [client EXCEPT ![a] = [client[a] EXCEPT !.at = place]]
<1>1. client \in [Clients -> ClientState] /\ file \in [Clients -> File]
  BY DEF ClientInv, ClientTypeOK
<1>2. UNCHANGED file => file' = [file EXCEPT ![a] = file[a]]
  BY <1>1
<1>3. ASSUME NEW place, Goes(a, place)
      PROVE  client' = [client EXCEPT ![a] = [client[a] EXCEPT !.at = place]]
  BY <1>1, <1>3 DEF Goes
<1> QED
  BY <1>2, <1>3

\* Where a client can go with the peer it has, and with the next one.
LEMMA Ways ==
    ASSUME ClientInv, NEW a \in Clients, client[a].at # "idle", NEW how \in {"ok", "error"}
    PROVE  /\ Returns(a, how) \in ClientState /\ Returns(a, how).at = "destroy"
           /\ \A f : PlaceOK(Returns(a, how), f)
           /\ client[a].peer <= PeerCount =>
                 /\ ToNextPeer(a) \in ClientState /\ ToNextPeer(a).at = "connect"
                 /\ \A f : PlaceOK(ToNextPeer(a), f)
<1>1. client[a] \in ClientState /\ client[a].run >= 1
  BY OneClient DEF PlaceOK
<1>2. NoBlock \in 0 .. BlockCount /\ how \in {"none", "ok", "error"}
  BY WireAssumption DEF NoBlock
<1>3. /\ Returns(a, how) \in ClientState /\ Returns(a, how).at = "destroy"
      /\ Returns(a, how).run = client[a].run
  BY <1>1, <1>2 DEF Returns, ClientState
<1>4. ASSUME client[a].peer <= PeerCount
      PROVE  /\ ToNextPeer(a) \in ClientState /\ ToNextPeer(a).at = "connect"
             /\ ToNextPeer(a).run = client[a].run
  <2>1. client[a].peer + 1 \in 1 .. PeerCount + 1
    BY <1>1, <1>4, ClientAssumption DEF ClientState
  <2> QED
    BY <1>1, <1>2, <2>1 DEF ToNextPeer, ClientState
<1> QED
  BY <1>1, <1>3, <1>4 DEF PlaceOK, OnConnection

\* What the client's calls do to its end.
LEMMA ClientEnd ==
    ASSUME NEW link \in Link
    PROVE  /\ Connected(link).cli = "open"
           /\ ClosedByClient(link).cli # "open"
           /\ \A m : \A t \in Sent(link, m) : t.cli = link.cli
  BY DEF Connected, ClosedByClient, Sent, Link

\* Units read off a connection leave a connection, and the client's end as it was.
LEMMA TakenOK ==
    ASSUME NEW a, Socket(a) \in Link, NEW n \in Nat, Has(a, n)
    PROVE  /\ Taken(a, n) \in Link /\ Taken(a, n).cli = Socket(a).cli
           /\ Taken(a, n).asked = Socket(a).asked
<1>1. SubSeq(Socket(a).down, n + 1, Len(Socket(a).down)) \in Seq(Unit)
  BY LinkFields
<1> QED
  BY <1>1 DEF Taken, Link

----------------------------------------------------------------------------
(* The steps of a client.                                                   *)

\* Loading, or failing to, starts a run with a true map.
LEMMA StartInv == ASSUME ClientInv, NEW a \in Clients, Start(a) PROVE ClientInv'
<1> DEFINE started == [client[a] EXCEPT !.run = @ + 1, !.peer = 1, !.returned = "none"]
           there == Loaded(file[a].disk)
<1>1. client[a] \in ClientState /\ file[a] \in File /\ FileOK(file[a])
  BY OneClient
<1>2. client[a].at = "idle" /\ client[a].run < MaxRuns /\ net' = net
  BY DEF Start, At
<1>3. /\ client[a].run + 1 \in 0 .. MaxRuns /\ client[a].run + 1 >= 1
      /\ 1 \in 1 .. PeerCount + 1
  BY <1>1, <1>2, ClientAssumption DEF ClientState
<1>4. started \in ClientState /\ started.at = "idle" /\ started.run >= 1
  <2>1. started = [client[a] EXCEPT !.run = client[a].run + 1, !.peer = 1, !.returned = "none"]
    OBVIOUS
  <2> HIDE DEF started
  <2>2. started.run = client[a].run + 1 /\ started.at = client[a].at
    BY <1>1, <2>1 DEF ClientState
  <2>3. started \in ClientState
    BY <1>1, <1>3, <2>1 DEF ClientState
  <2> QED
    BY <1>2, <1>3, <2>2, <2>3
<1>5. there \in File /\ FileOK(there) /\ Promised(there)
  BY <1>1, LoadedOK DEF File
<1>6. /\ file \in [Clients -> File] /\ client \in [Clients -> ClientState]
  BY DEF ClientInv, ClientTypeOK
<1> HIDE DEF started, there
<1>7. CASE /\ file' = [file EXCEPT ![a] = there]
           /\ Moves(a, IF IsCompleted(there)
                       THEN [started EXCEPT !.at = "destroy", !.returned = "ok"]
                       ELSE [started EXCEPT !.at = "connect"])
  <2>1. PICK s \in ClientState : Moves(a, s) /\ s.at \in {"destroy", "connect"} /\ s.run >= 1
    <3>1. /\ [started EXCEPT !.at = "destroy", !.returned = "ok"] \in ClientState
          /\ [started EXCEPT !.at = "connect"] \in ClientState
          /\ [started EXCEPT !.at = "destroy", !.returned = "ok"].at = "destroy"
          /\ [started EXCEPT !.at = "connect"].at = "connect"
          /\ [started EXCEPT !.at = "destroy", !.returned = "ok"].run = started.run
          /\ [started EXCEPT !.at = "connect"].run = started.run
      BY <1>4 DEF ClientState
    <3> QED
      BY <1>4, <1>7, <3>1
  <2>2. PlaceOK(s, there)
    BY <2>1 DEF PlaceOK, OnConnection
  <2> QED
    BY <1>2, <1>5, <1>7, <2>1, <2>2, ClientMovesAlone DEF Moves, OnConnection
<1>8. CASE Moves(a, [started EXCEPT !.returned = "error"]) /\ UNCHANGED file
  <2>1. PICK s \in ClientState : Moves(a, s) /\ s.at = "idle"
    BY <1>4, <1>8 DEF ClientState
  <2>2. PlaceOK(s, file[a])
    BY <2>1 DEF PlaceOK, OnConnection
  <2>3. file' = [file EXCEPT ![a] = file[a]]
    BY <1>8, SameFile
  <2> QED
    BY <1>1, <1>2, <2>1, <2>2, <2>3, ClientMovesAlone DEF Moves, OnConnection
<1> QED
  BY <1>7, <1>8 DEF Start, started, there

\* The last flush, or the loss of the buffer, ends a run.
LEMMA DestroyInv == ASSUME ClientInv, NEW a \in Clients, Destroy(a) PROVE ClientInv'
<1>1. client[a] \in ClientState /\ file[a] \in File /\ FileOK(file[a])
  BY OneClient
<1>2. PICK f \in FioDestroyTorrent(file[a]) : file' = [file EXCEPT ![a] = f]
  BY DEF Destroy
<1>3. f \in File /\ FileOK(f)
  BY <1>1, <1>2, FlushedOK, DroppedOK DEF FioDestroyTorrent, FileOK
<1>4. PICK s \in ClientState : client' = [client EXCEPT ![a] = s] /\ s.at = "idle"
  <2>1. [client[a] EXCEPT !.at = "idle"] \in ClientState
    BY <1>1 DEF ClientState
  <2>2. [client[a] EXCEPT !.at = "idle"].at = "idle"
    BY <1>1 DEF ClientState
  <2> QED
    BY <2>1, <2>2, SameFile DEF Destroy
<1>5. PlaceOK(s, f)
  BY <1>4 DEF PlaceOK, OnConnection
<1>6. client[a].at = "destroy" /\ net' = net
  BY DEF Destroy, At
<1> QED
  BY <1>2, <1>3, <1>4, <1>5, <1>6, ClientMovesAlone DEF OnConnection

\* The steps that leave the file and the network alone.
LEMMA NoCallInv ==
    ASSUME ClientInv, NEW a \in Clients, NoMorePeers(a) \/ SocketFails(a) \/ ConnectFails(a)
    PROVE  ClientInv'
<1>1. /\ file[a] \in File /\ FileOK(file[a])
      /\ client[a].at # "idle" => Promised(file[a])
  BY OneClient
<1>2. client[a].at = "connect" /\ net' = net /\ UNCHANGED file
  BY DEF NoMorePeers, SocketFails, ConnectFails, At
<1>3. PICK s \in ClientState :
          Moves(a, s) /\ s.at \in {"destroy", "connect"} /\ \A f : PlaceOK(s, f)
  <2>1. CASE NoMorePeers(a) \/ SocketFails(a)
    BY <1>2, <2>1, Ways DEF NoMorePeers, SocketFails
  <2>2. CASE ConnectFails(a)
    BY <1>2, <2>2, Ways DEF ConnectFails
  <2> QED
    BY <2>1, <2>2
<1> QED
  BY <1>1, <1>2, <1>3, SameFile, ClientMovesAlone DEF Moves, OnConnection

\* A peer accepts: the client is on its connection.
LEMMA ConnectsInv == ASSUME ClientInv, NEW a \in Clients, Connects(a) PROVE ClientInv'
<1>1. /\ client[a].at = "connect" /\ client[a].peer <= PeerCount /\ UNCHANGED file
      /\ Moves(a, NextRequest(a, file[a], 0)) /\ OnSocket(a, Connected(Socket(a)))
  BY DEF Connects, At
<1>2. /\ client[a] \in ClientState /\ file[a] \in File /\ PlaceOK(client[a], file[a])
      /\ FileOK(file[a]) /\ Promised(file[a])
  BY <1>1, OneClient
<1>3. Conn(a) \in Conns
  <2>1. client[a].run \in 1 .. MaxRuns /\ client[a].peer \in 1 .. PeerCount
    BY <1>1, <1>2, ClientAssumption DEF ClientState, PlaceOK
  <2> QED
    BY <2>1, ClientAssumption DEF Conn
<1>4. Connected(Socket(a)) \in Link /\ Connected(Socket(a)).cli = "open"
  BY <1>3, OneClient, ConnectedType, ClientEnd
<1> DEFINE s == NextRequest(a, file[a], 0)
<1>5. /\ s \in ClientState /\ PlaceOK(s, file[a]) /\ s.at \in OnConnection
      /\ s.run = client[a].run /\ s.peer = client[a].peer
  BY <1>2, <1>3, NextRequestOK DEF OnConnection
<1> HIDE DEF s
<1>6. client' = [client EXCEPT ![a] = s] /\ file' = [file EXCEPT ![a] = file[a]]
  BY <1>1, SameFile DEF Moves, s
<1> QED
  BY <1>1, <1>2, <1>3, <1>4, <1>5, <1>6, ClientMovesSocket

\* Every way off a connection: the socket is closed, the file stays as it is.
LEMMA OffConnection ==
    ASSUME ClientInv, NEW a \in Clients, client[a].at \in OnConnection, UNCHANGED file,
           NEW t \in Link, OnSocket(a, ClosedByClient(t)),
           \/ Moves(a, ToNextPeer(a))
           \/ \E how \in {"ok", "error"} : Moves(a, Returns(a, how))
    PROVE  ClientInv'
<1>1. /\ file[a] \in File /\ FileOK(file[a]) /\ Promised(file[a]) /\ Conn(a) \in Conns
      /\ client[a].at # "idle" /\ client[a].peer <= PeerCount
  BY OneClient DEF OnConnection, PlaceOK
<1>2. ClosedByClient(t) \in Link /\ ClosedByClient(t).cli # "open"
  BY ClosedByClientType, ClientEnd
<1>3. PICK s \in ClientState :
          Moves(a, s) /\ s.at \in {"destroy", "connect"} /\ \A f : PlaceOK(s, f)
  BY <1>1, Ways
<1>4. s.at \notin OnConnection
  BY <1>3 DEF OnConnection
<1>5. client' = [client EXCEPT ![a] = s] /\ file' = [file EXCEPT ![a] = file[a]]
  BY <1>3, SameFile DEF Moves
<1> QED
  BY <1>1, <1>2, <1>3, <1>4, <1>5, ClientMovesSocket

\* Leaving and giving up, whatever was read before.
LEMMA LeavesInv ==
    ASSUME ClientInv, NEW a \in Clients,
           Leaves(a) \/ SendFails(a) \/ RefusesHeader(a) \/ NoHeader(a) \/ NoBody(a)
    PROVE  ClientInv'
<1>1. client[a].at \in OnConnection /\ UNCHANGED file
  BY DEF Leaves, SendFails, RefusesHeader, NoHeader, NoBody, GivesUp, At, OnConnection
<1>2. Socket(a) \in Link
  BY <1>1, OneClient
<1>3. CASE Leaves(a)
  <2>1. /\ OnSocket(a, ClosedByClient(Socket(a)))
        /\ \/ Moves(a, ToNextPeer(a))
           \/ \E how \in {"ok", "error"} : Moves(a, Returns(a, how))
    BY <1>3 DEF Leaves
  <2> QED
    BY <1>1, <1>2, <2>1, OffConnection
<1>4. CASE SendFails(a) \/ NoHeader(a) \/ NoBody(a)
  <2>1. OnSocket(a, ClosedByClient(Socket(a))) /\ Moves(a, ToNextPeer(a))
    BY <1>4 DEF SendFails, NoHeader, NoBody, GivesUp
  <2> QED
    BY <1>1, <1>2, <2>1, OffConnection
<1>5. CASE RefusesHeader(a)
  <2>1. /\ OnSocket(a, ClosedByClient(Taken(a, 1))) /\ Moves(a, ToNextPeer(a)) /\ Has(a, 1)
    BY <1>5 DEF RefusesHeader
  <2>2. Taken(a, 1) \in Link
    BY <1>2, <2>1, TakenOK
  <2> QED
    BY <1>1, <2>1, <2>2, OffConnection
<1> QED
  BY <1>3, <1>4, <1>5

\* A request sent and a header read: the client waits on, for the same block.
LEMMA WaitsInv ==
    ASSUME ClientInv, NEW a \in Clients, SendsRequest(a) \/ HeaderArrives(a)
    PROVE  ClientInv'
<1>1. client[a].at \in OnConnection \ {"leave"} /\ UNCHANGED file
  BY DEF SendsRequest, HeaderArrives, At, OnConnection
<1>2. /\ client[a] \in ClientState /\ file[a] \in File /\ FileOK(file[a])
      /\ Promised(file[a]) /\ PlaceOK(client[a], file[a])
      /\ Conn(a) \in Conns /\ Socket(a) \in Link
  BY <1>1, OneClient DEF OnConnection
<1>3. Socket(a).cli = "open"
  <2>1. Conn(a)[1] = a
    BY DEF Conn
  <2> QED
    BY <1>1, <1>2, <2>1 DEF ClientInv, OneSocket, Socket
<1>4. PICK link \in Link : OnSocket(a, link) /\ link.cli = "open"
  <2>1. CASE SendsRequest(a)
    <3>1. PICK t \in Sent(Socket(a), Request(client[a].block)) : OnSocket(a, t)
      BY <2>1 DEF SendsRequest
    <3>2. Request(client[a].block) \in Message
      BY <1>1, <1>2, RequestType DEF PlaceOK
    <3> QED
      BY <1>2, <1>3, <3>1, <3>2, SentType, ClientEnd
  <2>2. CASE HeaderArrives(a)
    <3>1. OnSocket(a, Taken(a, 1)) /\ Has(a, 1)
      BY <2>2 DEF HeaderArrives
    <3> QED
      BY <1>2, <1>3, <3>1, TakenOK
  <2> QED
    BY <2>1, <2>2
<1>5. PICK place \in {"header", "body"} : Goes(a, place)
  BY DEF SendsRequest, HeaderArrives
<1> DEFINE s == [client[a] EXCEPT !.at = place]
<1>6. /\ s \in ClientState /\ s.at = place /\ s.block = client[a].block
      /\ s.run = client[a].run /\ s.peer = client[a].peer
  BY <1>2 DEF ClientState
<1>7. client' = [client EXCEPT ![a] = s] /\ file' = [file EXCEPT ![a] = file[a]]
  BY <1>1, <1>5, SameFile
<1> HIDE DEF s
<1>8. PlaceOK(s, file[a]) /\ s.at \in OnConnection
  BY <1>1, <1>2, <1>6 DEF PlaceOK, OnConnection
<1> QED
  BY <1>2, <1>4, <1>6, <1>7, <1>8, ClientMovesSocket

\* The data of a block read and stored, or not stored: on to the next block.
LEMMA BodyArrivesInv == ASSUME ClientInv, NEW a \in Clients, BodyArrives(a) PROVE ClientInv'
<1> DEFINE k == client[a].block
           right == SubSeq(Socket(a).down, 1, BlockUnits) = Data(k)
<1>1. PICK f \in FioStoreBlock(file[a], k, right) :
          /\ file' = [file EXCEPT ![a] = f]
          /\ Moves(a, NextRequest(a, f, k + 1))
  BY DEF BodyArrives
<1>2. /\ client[a].at = "body" /\ Has(a, BlockUnits)
      /\ OnSocket(a, Taken(a, BlockUnits))
  BY DEF BodyArrives, At
<1>3. /\ client[a] \in ClientState /\ file[a] \in File /\ FileOK(file[a])
      /\ Promised(file[a]) /\ PlaceOK(client[a], file[a])
      /\ Conn(a) \in Conns /\ Socket(a) \in Link
  BY <1>2, OneClient DEF OnConnection
<1>4. k \in Blocks /\ k \notin file[a].map /\ k + 1 \in Nat
  BY <1>2, <1>3, WireAssumption DEF PlaceOK, OnConnection, Blocks
<1>5. right \in BOOLEAN
  OBVIOUS
<1> HIDE DEF right
<1>6. f \in File /\ FileOK(f) /\ Promised(f)
  BY <1>1, <1>3, <1>4, <1>5, StoreOK
<1>7. Socket(a).cli = "open"
  <2>1. Conn(a)[1] = a
    BY DEF Conn
  <2> QED
    BY <1>2, <1>3, <2>1 DEF ClientInv, OneSocket, Socket, OnConnection
<1>8. Taken(a, BlockUnits) \in Link /\ Taken(a, BlockUnits).cli = "open"
  BY <1>2, <1>3, <1>7, TakenOK, WireAssumption
<1> DEFINE s == NextRequest(a, f, k + 1)
<1>9. /\ s \in ClientState /\ PlaceOK(s, f) /\ s.at \in OnConnection
      /\ s.run = client[a].run /\ s.peer = client[a].peer
  BY <1>3, <1>4, <1>6, NextRequestOK DEF OnConnection
<1>10. client' = [client EXCEPT ![a] = s]
  BY <1>1 DEF Moves
<1> HIDE DEF s
<1> QED
  BY <1>1, <1>2, <1>3, <1>6, <1>8, <1>9, <1>10, ClientMovesSocket

\* A client killed leaves no socket, and no promise.
LEMMA CrashInv == ASSUME ClientInv, NEW a \in Clients, Crash(a) PROVE ClientInv'
<1> DEFINE s == [client[a] EXCEPT !.at = "idle", !.block = NoBlock, !.returned = "none"]
<1>1. client[a] \in ClientState /\ file[a] \in File /\ FileOK(file[a])
  BY OneClient
<1>2. file' = [file EXCEPT ![a] = Dropped(file[a])] /\ client' = [client EXCEPT ![a] = s]
  <2>1. /\ client \in [Clients -> ClientState] /\ file \in [Clients -> File]
    BY DEF ClientInv, ClientTypeOK
  <2> QED
    BY <2>1 DEF Crash, Moves
<1>3. Dropped(file[a]) \in File /\ FileOK(Dropped(file[a]))
  BY <1>1, DroppedOK DEF FileOK
<1>4. NoBlock \in 0 .. BlockCount
  BY WireAssumption DEF NoBlock
<1>5. s \in ClientState /\ s.at = "idle"
  BY <1>1, <1>4 DEF ClientState
<1> HIDE DEF s
<1>6. PlaceOK(s, Dropped(file[a])) /\ s.at \notin OnConnection
  BY <1>5 DEF PlaceOK, OnConnection
<1>7. CASE client[a].at \in OnConnection
  <2>1. OnSocket(a, ClosedByClient(Socket(a))) /\ Conn(a) \in Conns /\ Socket(a) \in Link
    BY <1>7, OneClient DEF Crash
  <2>2. ClosedByClient(Socket(a)) \in Link /\ ClosedByClient(Socket(a)).cli # "open"
    BY <2>1, ClosedByClientType, ClientEnd
  <2> QED
    BY <1>2, <1>3, <1>5, <1>6, <2>1, <2>2, ClientMovesSocket
<1>8. CASE client[a].at \notin OnConnection
  <2>1. net' = net
    BY <1>8 DEF Crash
  <2> QED
    BY <1>2, <1>3, <1>5, <1>6, <1>8, <2>1, ClientMovesAlone
<1> QED
  BY <1>7, <1>8

----------------------------------------------------------------------------
(* All the steps of a client.                                               *)

\* What client a does by itself, and what is done to it.
Acts(a) == ClientStep(a) \/ Connects(a) \/ ConnectFails(a) \/ Crash(a)

\* Before the first run nobody has a connection, and the map promises nothing that
\* is not on the disk.
LEMMA ClientInitInv == ClientInit /\ NetInit => ClientInv
<1> SUFFICES ASSUME ClientInit, NetInit PROVE ClientInv
  OBVIOUS
<1> DEFINE s == [at |-> "idle", run |-> 0, peer |-> 1, block |-> NoBlock, returned |-> "none"]
           link == [cli |-> "none", srv |-> "none", up |-> << >>, late |-> << >>,
                    down |-> << >>, asked |-> << >>, answered |-> << >>]
<1>1. /\ client = [a \in Clients |-> s] /\ net = [k \in Conns |-> link]
      /\ file \in [Clients -> {Loaded(disk) : disk \in SUBSET Blocks}]
  BY DEF ClientInit, NetInit
<1>2. s \in ClientState
  BY ClientAssumption, WireAssumption DEF ClientState, NoBlock
<1>3. link \in Link
  BY DEF Link
<1>4. s.at = "idle" /\ link.cli = "none"
  OBVIOUS
<1> HIDE DEF s, link
<1>5. \A a \in Clients : /\ file[a] \in File /\ FileOK(file[a])
                         /\ PlaceOK(client[a], file[a]) /\ client[a].at = "idle"
  <2> SUFFICES ASSUME NEW a \in Clients
               PROVE  /\ file[a] \in File /\ FileOK(file[a])
                      /\ PlaceOK(client[a], file[a]) /\ client[a].at = "idle"
    OBVIOUS
  <2>1. PICK disk \in SUBSET Blocks : file[a] = Loaded(disk)
    BY <1>1
  <2> QED
    BY <1>1, <1>4, <2>1, LoadedOK DEF PlaceOK, OnConnection
<1>6. ClientTypeOK
  BY <1>1, <1>2, <1>3, <1>5 DEF ClientTypeOK
<1>7. MapOK
  BY <1>5 DEF MapOK, FileOK
<1>8. OneSocket
  <2> SUFFICES ASSUME NEW k \in Conns
               PROVE  net[k].cli # "open" /\ client[k[1]].at \notin OnConnection
    BY DEF OneSocket
  <2>1. k[1] \in Clients
    BY ClientAssumption
  <2> QED
    BY <1>1, <1>4, <1>5, <2>1 DEF OnConnection
<1> QED
  BY <1>6, <1>7, <1>8 DEF ClientInv

\* Every step of a client keeps the invariant.
LEMMA ActsInv == ASSUME ClientInv, NEW a \in Clients, Acts(a) PROVE ClientInv'
<1>1. CASE ClientStep(a)
  BY <1>1, StartInv, DestroyInv, NoCallInv, LeavesInv, WaitsInv, BodyArrivesInv DEF ClientStep
<1> QED
  BY <1>1, ConnectsInv, NoCallInv, CrashInv DEF Acts

\* A step that changes nothing in the network that the clients hold keeps it as well.
LEMMA ClientsRest ==
    ASSUME ClientInv, UNCHANGED clientVars, net' \in [Conns -> Link],
           \A k \in Conns : net'[k].cli = "open" <=> net[k].cli = "open"
    PROVE  ClientInv'
<1>1. ClientTypeOK' /\ MapOK'
  BY DEF clientVars, ClientInv, ClientTypeOK, MapOK, FileOK, Promised, PlaceOK
<1>2. OneSocket'
  BY DEF clientVars, ClientInv, OneSocket, Conn
<1> QED
  BY <1>1, <1>2 DEF ClientInv

\* The data of block b, whole and first on the connection of client a.
HasData(a, b) == Has(a, BlockUnits) /\ SubSeq(Socket(a).down, 1, BlockUnits) = Data(b)

\* Only the steps that act on the file change it.  None takes a right block from the
\* disk: the block that a failing fwrite spoils was missing.  And what reaches the
\* disk or the buffer is the block of the body just read, with its right data.
LEMMA DiskGains ==
    ASSUME ClientInv, NEW a \in Clients, Acts(a), NEW S, file[a].pend \subseteq S,
           At(a, "body") /\ HasData(a, client[a].block) => client[a].block \in S
    PROVE  /\ \A other \in Clients : other # a => file'[other] = file[other]
           /\ file[a].disk \subseteq file'[a].disk
           /\ file'[a].disk \subseteq file[a].disk \cup S
           /\ file'[a].pend \subseteq S
<1>1. file[a] \in File /\ FileOK(file[a]) /\ file \in [Clients -> File]
  BY OneClient DEF ClientInv, ClientTypeOK
<1> DEFINE Gains(f) == /\ file[a].disk \subseteq f.disk
                       /\ f.disk \subseteq file[a].disk \cup S
                       /\ f.pend \subseteq S
<1>2. ASSUME NEW f, file' = [file EXCEPT ![a] = f], Gains(f)
      PROVE  /\ \A other \in Clients : other # a => file'[other] = file[other]
             /\ Gains(file'[a])
  BY <1>1, <1>2
<1>3. CASE UNCHANGED file
  BY <1>3
<1>4. CASE Start(a) /\ ~UNCHANGED file
  <2>1. file' = [file EXCEPT ![a] = Loaded(file[a].disk)]
    BY <1>1, <1>4 DEF Start
  <2>2. Gains(Loaded(file[a].disk))
    BY DEF Loaded
  <2> QED
    BY <1>2, <2>1, <2>2
<1>5. CASE Destroy(a)
  <2>1. PICK f \in FioDestroyTorrent(file[a]) : file' = [file EXCEPT ![a] = f]
    BY <1>5 DEF Destroy
  <2>2. Gains(f)
    BY <1>1, FlushedOK, DroppedOK DEF FioDestroyTorrent
  <2> QED
    BY <1>2, <2>1, <2>2
<1>6. CASE BodyArrives(a)
  <2> DEFINE k == client[a].block
             right == SubSeq(Socket(a).down, 1, BlockUnits) = Data(k)
  <2>1. PICK f \in FioStoreBlock(file[a], k, right) : file' = [file EXCEPT ![a] = f]
    BY <1>6 DEF BodyArrives
  <2>2. client[a].at = "body" /\ Has(a, BlockUnits)
    BY <1>6 DEF BodyArrives, At
  <2>3. Promised(file[a]) /\ k \in Blocks /\ k \notin file[a].map
    BY <2>2, OneClient DEF PlaceOK, OnConnection
  <2>4. right \in BOOLEAN /\ (right => k \in S)
    BY <2>2 DEF HasData, At
  <2> HIDE DEF right, k
  <2>5. file[a].disk \subseteq f.disk /\ f \in File
    BY <1>1, <2>1, <2>3, <2>4, StoreOK
  <2>6. \/ f = file[a] \/ f = Dropped(file[a])
        \/ /\ k \in S
           /\ f.disk \subseteq file[a].disk \cup file[a].pend \cup {k}
           /\ f.pend \subseteq {k}
    BY <1>1, <2>1, <2>3, <2>4, StoredBlock
  <2> QED
    BY <1>1, <1>2, <2>1, <2>5, <2>6, DroppedOK
<1>7. CASE Crash(a)
  <2>1. file' = [file EXCEPT ![a] = Dropped(file[a])]
    BY <1>1, <1>7 DEF Crash
  <2>2. Gains(Dropped(file[a]))
    BY <1>1, DroppedOK
  <2> QED
    BY <1>2, <2>1, <2>2
<1>8. CASE Connects(a) \/ ConnectFails(a)
  BY <1>3, <1>8 DEF Connects, ConnectFails
<1>9. CASE ClientStep(a) /\ ~Start(a) /\ ~Destroy(a) /\ ~BodyArrives(a)
  BY <1>3, <1>9 DEF ClientStep, NoMorePeers, SocketFails, Leaves, SendsRequest, SendFails,
                    HeaderArrives, RefusesHeader, NoHeader, NoBody, GivesUp
<1> QED
  BY <1>3, <1>4, <1>5, <1>6, <1>7, <1>8, <1>9 DEF Acts

\* Only its own steps move a client.
LEMMA OthersStay == ASSUME ClientInv, NEW a \in Clients, Acts(a)
                    PROVE  \A other \in Clients : other # a =>
                               client'[other] = client[other] /\ file'[other] = file[other]
<1>1. client \in [Clients -> ClientState] /\ file \in [Clients -> File]
  BY DEF ClientInv, ClientTypeOK
<1>2. \E s : client' = [client EXCEPT ![a] = s]
  <2>1. CASE ClientStep(a)
    BY <1>1, <2>1 DEF ClientStep, Start, Destroy, NoMorePeers, SocketFails, Leaves, SendsRequest,
                      SendFails, HeaderArrives, RefusesHeader, NoHeader, BodyArrives, NoBody,
                      GivesUp, Moves, Goes
  <2> QED
    BY <1>1, <2>1 DEF Acts, Connects, ConnectFails, Crash, Moves
<1>3. /\ file[a].pend \subseteq Blocks
      /\ At(a, "body") => client[a].block \in Blocks
  BY OneClient DEF File, At, PlaceOK, OnConnection
<1>4. \A other \in Clients : other # a => file'[other] = file[other]
  BY <1>3, DiskGains
<1> QED
  BY <1>1, <1>2, <1>4

\* block_map stays true at every step of a client.
LEMMA MapStays == ASSUME ClientInv, NEW a \in Clients, Acts(a)
                  PROVE  \A b \in Clients : StaysTrue(b)
<1>1. /\ file[a] \in File /\ file \in [Clients -> File]
      /\ client[a] \in ClientState /\ client \in [Clients -> ClientState]
  BY OneClient DEF ClientInv, ClientTypeOK
<1>2. \A b \in Clients : file'[b].disk \cup file'[b].pend \subseteq file'[b].map
  BY ActsInv DEF ClientInv, MapOK, FileOK
<1>3. ASSUME NEW b \in Clients, b # a PROVE StaysTrue(b)
  BY <1>2, <1>3, OthersStay DEF StaysTrue, Lost, At
<1>4. StaysTrue(a)
  <2>1. CASE UNCHANGED file /\ ~At(a, "idle")
    BY <1>2, <2>1 DEF StaysTrue, Lost
  <2>2. CASE Start(a)
    <3>1. CASE file' = [file EXCEPT ![a] = Loaded(@.disk)]
      <4>1. Lost(a)' = {}
        BY <1>1, <3>1 DEF Lost, Loaded
      <4> QED
        BY <1>2, <4>1 DEF StaysTrue
    <3>2. CASE file' # [file EXCEPT ![a] = Loaded(@.disk)]
      <4>1. At(a, "idle")'
        BY <1>1, <2>2, <3>2 DEF Start, Moves, At, ClientState
      <4> QED
        BY <4>1 DEF StaysTrue
    <3> QED
      BY <3>1, <3>2
  <2>3. CASE Destroy(a) \/ Crash(a)
    <3>1. CASE Destroy(a)
      <4>1. client' = [client EXCEPT ![a].at = "idle"]
        BY <3>1 DEF Destroy, Goes
      <4>2. client'[a].at = "idle"
        BY <1>1, <4>1 DEF ClientState
      <4> QED
        BY <4>2 DEF StaysTrue, At
    <3>2. CASE Crash(a)
      <4>1. client' = [client EXCEPT ![a] =
                          [client[a] EXCEPT !.at = "idle", !.block = NoBlock, !.returned = "none"]]
        BY <3>2 DEF Crash, Moves
      <4>2. client'[a].at = "idle"
        BY <1>1, <4>1 DEF ClientState
      <4> QED
        BY <4>2 DEF StaysTrue, At
    <3> QED
      BY <2>3, <3>1, <3>2
  <2>4. CASE BodyArrives(a)
    <3> DEFINE k == client[a].block
               right == SubSeq(Socket(a).down, 1, BlockUnits) = Data(k)
    <3>1. At(a, "body") /\ client[a].at = "body"
      BY <2>4 DEF BodyArrives, At
    <3>2. PICK f \in FioStoreBlock(file[a], k, right) : file' = [file EXCEPT ![a] = f]
      BY <2>4 DEF BodyArrives
    <3>3. right \in BOOLEAN /\ k \in Blocks /\ k \notin file[a].map
      BY <3>1, OneClient DEF PlaceOK, OnConnection
    <3> HIDE DEF k, right
    <3>4. file'[a] = f
      BY <1>1, <3>2
    <3>5. ASSUME NEW b \in f.map \ (f.disk \cup f.pend)
          PROVE  b \in Lost(a) \/ ("fseeko" \in IoFaults /\ b \in file[a].pend)
      BY <1>1, <3>2, <3>3, StoreLoses DEF Lost
    <3>6. ~At(a, "idle")
      BY <3>1 DEF At
    <3> QED
      BY <1>2, <3>1, <3>4, <3>5, <3>6 DEF StaysTrue, Lost
  <2>5. CASE Connects(a) \/ ConnectFails(a)
    BY <2>1, <2>5 DEF Connects, ConnectFails, At
  <2>6. CASE ClientStep(a) /\ ~Start(a) /\ ~Destroy(a) /\ ~BodyArrives(a)
    BY <2>1, <2>6 DEF ClientStep, NoMorePeers, SocketFails, Leaves, SendsRequest, SendFails,
                      HeaderArrives, RefusesHeader, NoHeader, NoBody, GivesUp, At
  <2> QED
    BY <2>2, <2>3, <2>4, <2>5, <2>6 DEF Acts
<1> QED
  BY <1>3, <1>4

\* And at every step that leaves clients and files alone.
LEMMA MapRests == ASSUME ClientInv, UNCHANGED clientVars
                  PROVE  \A a \in Clients : StaysTrue(a)
  BY DEF ClientInv, MapOK, FileOK, StaysTrue, Lost, At, clientVars

\* Whatever a client reads, it takes no right block from a disk.
LEMMA DiskGrows == ASSUME ClientInv, NEW a \in Clients, Acts(a)
                   PROVE  \A b \in Clients : file[b].disk \subseteq file'[b].disk
<1>1. file[a].pend \subseteq Blocks
  BY OneClient DEF File
<1>2. At(a, "body") => client[a].block \in Blocks
  BY OneClient DEF At, PlaceOK, OnConnection
<1> QED
  BY <1>1, <1>2, DiskGains
=============================================================================

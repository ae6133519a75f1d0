------------------------------- MODULE Client -------------------------------
(***************************************************************************)
(* The client of client.c and its run by main: load the file, then one     *)
(* peer after the other, and on each connection one missing block after    *)
(* the other.  All its socket calls block, so an action is what the client *)
(* does between two of them.  A client can crash at any moment and be      *)
(* started again on the file it left.                                      *)
(*                                                                         *)
(* at    idle      not running                                             *)
(*       connect   client__start, about to connect to peer                 *)
(*       request   client__handle_connection, about to send a request      *)
(*       header    in utils_recv_all for the response                      *)
(*       body      in utils_recv_all for the data of the block             *)
(*       leave     about to close the connection                           *)
(*       destroy   in main, about to call fio_destroy_torrent              *)
(***************************************************************************)
EXTENDS Tcp, TorrentFile

CONSTANTS Clients,
          PeerCount,     \* fio_torrent_t.peer_count
          MaxRuns,       \* bound: times a client is started
          CallFaults     \* socket calls that may fail in this instance

ASSUME ClientAssumption ==
    /\ PeerCount \in Nat
    /\ MaxRuns \in Nat
    /\ Conns = Clients \X (1 .. MaxRuns) \X (1 .. PeerCount)
    /\ CallFaults \subseteq {"socket", "connect", "send", "recv", "close"}

VARIABLES client,   \* the state of each client
          file      \* its downloaded file

clientVars == <<client, file>>

NoBlock == BlockCount

\* The places inside client__handle_connection, and after it until close.
OnConnection == {"request", "header", "body", "leave"}

ClientState == [at : {"idle", "connect", "request", "header", "body", "leave", "destroy"},
                run : 0 .. MaxRuns, peer : 1 .. PeerCount + 1,
                block : 0 .. BlockCount,
                returned : {"none", "ok", "error"}]

\* The file on disk before the first run holds any of the blocks, or none.
ClientInit ==
    /\ client = [a \in Clients |-> [at |-> "idle", run |-> 0, peer |-> 1,
                                    block |-> NoBlock, returned |-> "none"]]
    /\ file \in [Clients -> {Loaded(disk) : disk \in SUBSET Blocks}]

----------------------------------------------------------------------------

Conn(a) == <<a, client[a].run, client[a].peer>>
Socket(a) == net[Conn(a)]

At(a, place) == client[a].at = place

Goes(a, place) == client' = [client EXCEPT ![a].at = place]

\* client_init returns, and main goes on to fio_destroy_torrent.
Returns(a, how) == [client[a] EXCEPT !.at = "destroy", !.returned = how, !.block = NoBlock]

\* Bug: the index of the peer is incremented twice.
ToPeerAfterNext(a) == [client[a] EXCEPT !.at = "connect", !.peer = @ + 2, !.block = NoBlock]

ToNextPeer(a) == [client[a] EXCEPT !.at = "connect", !.peer = @ + 1, !.block = NoBlock]

Moves(a, state) == client' = [client EXCEPT ![a] = state]

OnSocket(a, link) == net' = [net EXCEPT ![Conn(a)] = link]

\* Bug: block_map is not looked at.
EveryBlockFrom(f, k) == {b \in Blocks : b >= k}

\* The loop of client__handle_connection, from block k on.
MissingFrom(f, k) == {b \in Blocks : b >= k /\ b \notin f.map}

NextRequest(a, f, k) ==
    IF MissingFrom(f, k) = {} THEN [client[a] EXCEPT !.at = "leave", !.block = NoBlock]
    ELSE [client[a] EXCEPT !.at = "request",
             !.block = CHOOSE b \in MissingFrom(f, k) :
                           \A other \in MissingFrom(f, k) : b <= other]

\* main and client_init: a load that fails ends the run with nothing to destroy.
Start(a) ==
    /\ At(a, "idle") /\ client[a].run < MaxRuns
    /\ LET started == [client[a] EXCEPT !.run = @ + 1, !.peer = 1, !.returned = "none"]
       IN  \/ /\ file' = [file EXCEPT ![a] = Loaded(@.disk)]
              /\ Moves(a, IF IsCompleted(Loaded(file[a].disk))
                          THEN [started EXCEPT !.at = "destroy", !.returned = "ok"]
                          ELSE [started EXCEPT !.at = "connect"])
           \/ /\ "load" \in IoFaults
              /\ Moves(a, [started EXCEPT !.returned = "error"])
              /\ UNCHANGED file
    /\ UNCHANGED net

Destroy(a) ==
    /\ At(a, "destroy")
    /\ \E f \in FioDestroyTorrent(file[a]) : file' = [file EXCEPT ![a] = f]
    /\ Goes(a, "idle")
    /\ UNCHANGED net

----------------------------------------------------------------------------
(* client__start.                                                           *)

NoMorePeers(a) ==
    /\ At(a, "connect") /\ client[a].peer > PeerCount
    /\ Moves(a, Returns(a, "ok"))
    /\ UNCHANGED <<file, net>>

SocketFails(a) ==
    /\ At(a, "connect") /\ client[a].peer <= PeerCount /\ "socket" \in CallFaults
    /\ Moves(a, Returns(a, "error"))
    /\ UNCHANGED <<file, net>>

Connects(a) ==
    /\ At(a, "connect") /\ client[a].peer <= PeerCount
    /\ OnSocket(a, Connected(Socket(a)))
    /\ Moves(a, NextRequest(a, file[a], 0))
    /\ UNCHANGED file

\* Bug: the loop runs up to peer_count.
ConnectFailsTooFar(a) ==
    /\ At(a, "connect") /\ client[a].peer <= PeerCount + 1
    /\ Moves(a, ToNextPeer(a))
    /\ UNCHANGED <<file, net>>

ConnectFails(a) ==
    /\ At(a, "connect") /\ client[a].peer <= PeerCount
    /\ Moves(a, ToNextPeer(a))
    /\ UNCHANGED <<file, net>>

\* client__handle_connection returned 0: close, and stop when nothing is missing.
Leaves(a) ==
    /\ At(a, "leave")
    /\ OnSocket(a, ClosedByClient(Socket(a)))
    /\ \/ Moves(a, IF IsCompleted(file[a]) THEN Returns(a, "ok") ELSE ToNextPeer(a))
       \/ "close" \in CallFaults /\ Moves(a, Returns(a, "error"))
    /\ UNCHANGED file

\* Bug: the connection that went wrong is not closed.
GivesUpOpen(a) ==
    /\ Moves(a, ToNextPeer(a))
    /\ UNCHANGED <<file, net>>

\* client__handle_connection returned -1: close and try the next peer.
GivesUp(a) ==
    /\ OnSocket(a, ClosedByClient(Socket(a)))
    /\ Moves(a, ToNextPeer(a))
    /\ UNCHANGED file

----------------------------------------------------------------------------
(* client__handle_connection.                                               *)

SendsRequest(a) ==
    /\ At(a, "request")
    /\ \E t \in Sent(Socket(a), Request(client[a].block)) : OnSocket(a, t)
    /\ Goes(a, "header")
    /\ UNCHANGED file

SendFails(a) ==
    /\ At(a, "request") /\ (Socket(a).srv = "closed" \/ "send" \in CallFaults)
    /\ GivesUp(a)

\* What recv() is given in utils_recv_all of n units: all, or the end before.
Has(a, n) == Len(Socket(a).down) >= n

\* Bug: recv() is called again when it returns 0 before any byte.
EndsInside(a, n) == ~Has(a, n) /\ Socket(a).srv = "closed" /\ Socket(a).down # << >>

EndsBefore(a, n) == ~Has(a, n) /\ Socket(a).srv = "closed"

\* recv() returns 0, or -1, which it may do with the peer still there.
ReceivesNothing(a, n) == EndsBefore(a, n) \/ "recv" \in CallFaults

Taken(a, n) == [Socket(a) EXCEPT !.down = SubSeq(@, n + 1, Len(@))]

HeaderArrives(a) ==
    /\ At(a, "header") /\ Has(a, 1)
    /\ Head(Socket(a).down) = Ok(client[a].block)
    /\ OnSocket(a, Taken(a, 1))
    /\ Goes(a, "body")
    /\ UNCHANGED file

\* A wrong magic number, code or block number, MSG_RESPONSE_NA among them; the
\* close finds what is left unread.
RefusesHeader(a) ==
    /\ At(a, "header") /\ Has(a, 1)
    /\ Head(Socket(a).down) # Ok(client[a].block)
    /\ OnSocket(a, ClosedByClient(Taken(a, 1)))
    /\ Moves(a, ToNextPeer(a))
    /\ UNCHANGED file

NoHeader(a) == At(a, "header") /\ ReceivesNothing(a, 1) /\ GivesUp(a)

\* fio_store_block: whether it fails or not, the loop goes on with the next block.
BodyArrives(a) ==
    LET k == client[a].block
        right == SubSeq(Socket(a).down, 1, BlockUnits) = Data(k)
    IN  /\ At(a, "body") /\ Has(a, BlockUnits)
        /\ \E f \in FioStoreBlock(file[a], k, right) :
              /\ file' = [file EXCEPT ![a] = f]
              /\ Moves(a, NextRequest(a, f, k + 1))
        /\ OnSocket(a, Taken(a, BlockUnits))

NoBody(a) == At(a, "body") /\ ReceivesNothing(a, BlockUnits) /\ GivesUp(a)

----------------------------------------------------------------------------

\* The process is killed: its sockets are closed and its buffers lost.
Crash(a) ==
    /\ client[a].at # "idle"
    /\ file' = [file EXCEPT ![a] = Dropped(@)]
    /\ Moves(a, [client[a] EXCEPT !.at = "idle", !.block = NoBlock, !.returned = "none"])
    /\ IF client[a].at \in OnConnection
       THEN OnSocket(a, ClosedByClient(Socket(a)))
       ELSE UNCHANGED net

\* listening: whether a server accepts connections at the address of the peer
ConnectStep(a, listening) ==
    \/ listening /\ Connects(a)
    \/ (~listening \/ "connect" \in CallFaults) /\ ConnectFails(a)

\* Everything else a client does by itself.
ClientStep(a) ==
    \/ Start(a) \/ Destroy(a)
    \/ NoMorePeers(a) \/ SocketFails(a) \/ Leaves(a)
    \/ SendsRequest(a) \/ SendFails(a)
    \/ HeaderArrives(a) \/ RefusesHeader(a) \/ NoHeader(a)
    \/ BodyArrives(a) \/ NoBody(a)

transfer == <<clientVars, net>>

\* A client runs for the n-th time, n > 0, is on a connection only with one of its
\* peers, and waits there for a block that block_map says is missing.
PlaceOK(state, f) ==
    /\ state.at # "idle" => state.run >= 1
    /\ state.at \in OnConnection => state.peer <= PeerCount
    /\ state.at \in OnConnection \ {"leave"} => state.block \in Blocks \ f.map

ClientTypeOK ==
    /\ net \in [Conns -> Link]
    /\ client \in [Clients -> ClientState]
    /\ file \in [Clients -> File]
    /\ \A a \in Clients : PlaceOK(client[a], file[a])

\* The blocks that block_map marks and that are neither in the file nor its buffer.
Lost(a) == file[a].map \ (file[a].disk \cup file[a].pend)

\* block_map stays true for a client.  While it runs, block_map tells "whether a block is correctly downloaded"
\* (file_io.h:89), whatever the peers sent, in whatever pieces, and whichever calls
\* failed: what is there is marked, and what is marked is there from the load on, with
\* one exception.  The fseeko of a store may fail and lose the buffer (file_io.c:444),
\* in which a block is that an earlier store has marked.
StaysTrue(a) == ~At(a, "idle")' =>
    /\ file'[a].disk \cup file'[a].pend \subseteq file'[a].map
    /\ \A b \in Lost(a)' :
          \/ ~At(a, "idle") /\ b \in Lost(a)
          \/ At(a, "body") /\ "fseeko" \in IoFaults /\ b \in file[a].pend

\* No step of a client, of a peer or of the network makes block_map of a client tell
\* something wrong, but for a failing fseeko.
MapIsTrue == [][\A a \in Clients : StaysTrue(a)]_transfer

\* A block that reached the disk stays right: no peer, failed write, crash or
\* restart ever damages it.
RightBlocksStay == [][\A a \in Clients : file[a].disk \subseteq file'[a].disk]_transfer

\* Only what is missing is asked for, in ascending order on a connection, also by
\* a client that was killed and started again.
AsksForMissing ==
    [][\A k \in Conns : net'[k].asked # net[k].asked =>
          LET b == net'[k].asked[Len(net'[k].asked)]
          IN  /\ b \notin file[k[1]].disk \cup file[k[1]].pend
              /\ \A n \in DOMAIN net[k].asked : net[k].asked[n] < b]_transfer

\* Every way out of a connection closes it: a client has one open socket while
\* it is on a connection, and none otherwise.
OneSocket == \A k \in Conns :
    net[k].cli = "open" <=>
        client[k[1]].at \in OnConnection /\ k = Conn(k[1])

\* A run of the client ends.
RunsEnd == \A a \in Clients : ~At(a, "idle") ~> At(a, "idle")
=============================================================================

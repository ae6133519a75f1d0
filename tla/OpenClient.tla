---------------------------- MODULE OpenClient ----------------------------
(***************************************************************************)
(* The client of client.c with the peers of its metainfo file: some are    *)
(* ideal seeders, which answer each request once and whole, the others are *)
(* strangers, which send whatever they like, asked or not, and close when  *)
(* they like.  What server.c makes of a request, answers that are cut off, *)
(* repeated or left out among it, is in Server and Swarm.  Clients crash   *)
(* and are started again.                                                  *)
(***************************************************************************)
EXTENDS Client

CONSTANTS Seeders,    \* peers that serve
          Holds,      \* the blocks each seeder holds
          Noise,      \* units strangers send
          MaxNoise    \* bound: units of a stranger waiting on a connection

ASSUME OpenClientAssumption ==
    /\ Seeders \subseteq 1 .. PeerCount
    /\ Holds \in [Seeders -> SUBSET Blocks]
    /\ Noise \subseteq Unit
    /\ MaxNoise \in Nat

PeerOf(k) == k[3]

Seeded(k) == PeerOf(k) \in Seeders

PeerMoves(k, link) == net' = [net EXCEPT ![k] = link] /\ UNCHANGED clientVars

\* A seeder answers the request it has not answered yet, whole and once; only
\* message_code of its refusals is meaningful, as in server.c:223-236.
Serve(k) ==
    LET b == net[k].asked[Len(net[k].asked)]
    IN  /\ Seeded(k) /\ net[k].srv # "none" /\ net[k].cli = "open"
        /\ Len(net[k].asked) > Len(net[k].answered)
        /\ \E units \in IF b \in Holds[PeerOf(k)] THEN {<< Ok(b) >> \o Data(b)}
                        ELSE {<< [Garbage EXCEPT !.code = MSG_RESPONSE_NA] >>} :
              PeerMoves(k, SendAll([net[k] EXCEPT !.up = << >>], units, Len(units), b))

Babble(k) ==
    /\ ~Seeded(k) /\ net[k].srv \in {"queued", "open"}
    /\ net[k].cli = "open" /\ Len(net[k].down) < MaxNoise
    /\ \E u \in Noise : PeerMoves(k, Written(net[k], << u >>))

\* A stranger closes at any time, a seeder when the client left.
HangUp(k) ==
    /\ net[k].srv \in {"queued", "open"}
    /\ Seeded(k) => Left(net[k])
    /\ PeerMoves(k, ClosedByServer(net[k]))

PeersNext == \E k \in Conns : Serve(k) \/ Babble(k) \/ HangUp(k)

\* The last run of a client is not killed.
Killed(a) == client[a].run < MaxRuns /\ Crash(a)

Listening(a) == client[a].peer \in Seeders

\* Strangers may refuse a connection.
Connect(a) == \/ ConnectStep(a, TRUE)
              \/ ~Listening(a) /\ ConnectStep(a, FALSE)

Run(a) == ClientStep(a) \/ Connect(a)

ClientsNext == \E a \in Clients : Run(a) \/ Killed(a)

Init == ClientInit /\ NetInit
Next == ClientsNext \/ PeersNext
Spec == Init /\ [][Next]_transfer

\* A client runs and is started again, seeders answer, and a stranger does not
\* keep a connection open for ever: the client's reads have no timeout.
FairSpec ==
    /\ Spec
    /\ \A a \in Clients : WF_transfer(Run(a))
    /\ \A k \in Conns : WF_transfer(Serve(k)) /\ WF_transfer(HangUp(k))

----------------------------------------------------------------------------

\* With a seeder of everything among the peers, and no failing call, a client
\* that has tried its peers holds every block, whatever the strangers before
\* and after the seeder made of their turns.
SeederCompletes ==
    (\E p \in Seeders : Holds[p] = Blocks) =>
        \A a \in Clients : At(a, "destroy") => IsCompleted(file[a])

\* A client that is killed at any moment, and started again, ends up with the
\* whole file on the disk.
ResumesToTheEnd ==
    (\E p \in Seeders : Holds[p] = Blocks) =>
        \A a \in Clients : <>[](file[a].disk = Blocks)

\* For each incorrect block, each peer is asked (client.c:19-24): a client that
\* has tried its peers holds every block that one of the seeders holds.
EveryPeerAskedForEveryBlock ==
    \A a \in Clients : At(a, "destroy") /\ client[a].returned = "ok"
        => UNION {Holds[p] : p \in Seeders} \subseteq file[a].map
=============================================================================

------------------------------- MODULE Swarm -------------------------------
(***************************************************************************)
(* Clients of client.c and one server of server.c at some of the addresses *)
(* in their metainfo file; nothing listens at the others.  The server may  *)
(* stop, and clients may be killed and started again.                      *)
(***************************************************************************)
EXTENDS Server, Client

CONSTANTS Up,       \* the peers that are the server
          Mortal    \* the runs of a client that may be killed

ASSUME SwarmAssumption == Up \subseteq 1 .. PeerCount /\ Mortal \subseteq 1 .. MaxRuns

vars == <<serverVars, clientVars, net>>

Listening(a) == client[a].peer \in Up /\ pc \notin {"died", "stopped"}

Serves == ServerNext /\ UNCHANGED clientVars

Runs(a) == /\ ClientStep(a) \/ ConnectStep(a, Listening(a))
           /\ UNCHANGED serverVars

Killed(a) == client[a].run \in Mortal /\ Crash(a) /\ UNCHANGED serverVars

Arrives(k) ==
    /\ net[k].late # << >>
    /\ net' = [net EXCEPT ![k] = Arrived(@)]
    /\ UNCHANGED <<serverVars, clientVars>>

Init == ServerInit /\ NetInit /\ ClientInit

Next == \/ Serves
        \/ \E a \in Clients : Runs(a) \/ Killed(a)
        \/ \E k \in Conns : Arrives(k)

Spec == Init /\ [][Next]_vars

\* Both programs are scheduled and the network delivers.
FairSpec ==
    /\ Spec
    /\ WF_vars(Serves)
    /\ \A a \in Clients : WF_vars(Runs(a))
    /\ \A k \in Conns : WF_vars(Arrives(k))

----------------------------------------------------------------------------

\* The header a client is given is the answer to what it asks for: no answer is
\* skipped, repeated or taken from the data before it.  This holds on a single
\* connection only: with two, a client answered through a stale copy of its entry is
\* answered again, and reads the repeated header in place of the next one.
AnswersMatch ==
    \A a \in Clients :
        At(a, "header") /\ Socket(a).down # << >> =>
            Head(Socket(a).down) = Ok(client[a].block)

Transfer == INSTANCE Download WITH Source <- Have, got <- [a \in Clients |-> file[a].disk]

\* Clients and server together implement the safe half of Download: what reaches
\* a disk is a block the server holds, and it stays there, also when the server
\* goes away in the middle.
DownloadsSafely == Transfer!Safe

\* A client alone with the server gets everything the server holds: Download with
\* its liveness (client.c:19-24, server.c:24-27).
Downloads == Transfer!Spec
=============================================================================

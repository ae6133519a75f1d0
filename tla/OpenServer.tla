---------------------------- MODULE OpenServer ----------------------------
(***************************************************************************)
(* The server of server.c with clients it knows nothing of: they connect,  *)
(* send requests (in bursts, out of range, or not messages at all), read   *)
(* what came back or not, and close at any moment.                         *)
(***************************************************************************)
EXTENDS Server

CONSTANTS MaxAsks,   \* bound: messages a client sends on one connection
          Inputs     \* the messages clients send

ASSUME OpenServerAssumption == MaxAsks \in Nat /\ Inputs \subseteq Message

vars == <<serverVars, net>>

Update(k, link) == net' = [net EXCEPT ![k] = link] /\ UNCHANGED serverVars

Running == pc \notin {"died", "stopped"}

Connect(k) ==
    /\ Running /\ net[k].cli = "none"
    /\ Update(k, Connected(net[k]))

Ask(k) ==
    /\ net[k].cli = "open" /\ Len(net[k].asked) < MaxAsks
    /\ \E m \in Inputs : \E t \in Sent(net[k], m) : Update(k, t)

Arrive(k) ==
    /\ net[k].late # << >>
    /\ Update(k, Arrived(net[k]))

Consume(k) ==
    /\ net[k].cli = "open" /\ net[k].down # << >>
    /\ Update(k, [net[k] EXCEPT !.down = << >>])

Leave(k) ==
    /\ net[k].cli = "open"
    /\ Update(k, ClosedByClient(net[k]))

ClientsNext == \E k \in Conns : \/ Connect(k) \/ Ask(k) \/ Arrive(k)
                                \/ Consume(k) \/ Leave(k)

Init == ServerInit /\ NetInit
Next == ServerNext \/ ClientsNext
Spec == Init /\ [][Next]_vars

\* The one thread of the server runs whenever poll() has something to report,
\* and the network delivers; the clients owe nothing.
FairSpec == Spec /\ WF_vars(ServerNext) /\ \A k \in Conns : WF_vars(Arrive(k))

\* Besides, a client that stays reads what it is sent.
ReadingSpec == FairSpec /\ \A k \in Conns : WF_vars(Consume(k))

----------------------------------------------------------------------------

\* Descriptors are reused and messages overwritten: the blocks answered on a
\* connection are blocks asked on that connection, and never go back to a
\* request older than one already answered.  (Repeats and gaps are allowed.)
AnswersInOrder ==
    \A k \in Conns :
        LET asked == net[k].asked
            answered == net[k].answered
        IN  \E of \in [DOMAIN answered -> DOMAIN asked] :
                /\ \A n \in DOMAIN answered : asked[of[n]] = answered[n]
                /\ \A n \in DOMAIN answered : n > 1 => of[n - 1] <= of[n]

\* Messages move when others are removed and when the array grows, or fails to
\* (utils.h:92, "If the function fails the struct is not modified"): the message
\* found for a descriptor only changes while the loop visits that descriptor.
OthersMessagesStay ==
    [][\A f \in Fds : rcv'[f] # rcv[f] => pc = "scan" /\ pfd[i].fd = f]_vars

OpenFds == {f \in Fds : sock[f] # NoConn}
Watched == {f \in OpenFds : Polled(f)}

\* An open descriptor that has an entry keeps one until it is closed, whatever calls
\* fail and whichever entries of others are removed below it: server__remove_client
\* and utils_array_pollfd_remove take the entry and the descriptor together.
WatchedUntilClosed == [][Watched \cap OpenFds' \subseteq Watched']_vars

\* Only a client that left, or that asked for something unacceptable, loses its
\* connection, even when its neighbours in the array are being removed.
OnlyBadClientsDropped ==
    [][\A k \in Conns :
          (net[k].srv = "open" /\ net'[k].srv = "closed") =>
              \/ net[k].cli # "open"
              \/ \E j \in DOMAIN net[k].asked : net[k].asked[j] = BlockCount]_vars

\* A connection whose client went away is closed and its descriptor reused, also
\* when the end of stream follows a reset, an unanswered request or a skipped visit.
DeadClientsCollected ==
    \A k \in Conns :
        (net[k].srv = "open" /\ Left(net[k])) ~> net[k].srv = "closed"

\* Requests are answered, each of them, as long as the client is there and is
\* not dropped (server.c:24-28: "for each connection ... respond").
RequestsAnswered ==
    \A k \in Conns : \A n \in 1 .. MaxAsks :
        (Len(net[k].asked) >= n /\ net[k].srv = "open")
            ~> (Len(net[k].answered) >= n \/ Left(net[k]) \/ net[k].srv = "closed")
=============================================================================

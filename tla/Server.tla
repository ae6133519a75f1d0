------------------------------- MODULE Server -------------------------------
(***************************************************************************)
(* The server of server.c: one thread that polls the listening socket and  *)
(* its clients and visits the polled slots one after the other.  Each      *)
(* action is one iteration of the for loop (server.c:139-266), with every  *)
(* call it makes; clients act between two iterations.                      *)
(*                                                                         *)
(* The pollfd array keeps its slots beyond psize: removal shifts the rest  *)
(* one slot down and leaves a copy of the last entry behind, and the loop  *)
(* runs to the number of slots the poll saw, so it visits such copies.     *)
(***************************************************************************)
EXTENDS Tcp, Arrays, FiniteSets

CONSTANTS Fds,         \* descriptors accept() can return
          MaxSlots,    \* bound: entries the pollfd array ever has
          Have,        \* blocks whose hash was correct at start (block_map)
          ShortSends,  \* TRUE: send buffers can fill up: send() may take a part
                       \* of a response or nothing, and poll() may find no room
          Faults,      \* library calls that may fail in this instance
          NoConn, NoMsg

ASSUME ServerAssumption ==
    /\ Fds \subseteq Nat \ {0}
    /\ MaxSlots \in Nat \ {0}
    /\ Have \subseteq Blocks
    /\ ShortSends \in BOOLEAN
    /\ Faults \subseteq {"accept", "fcntl", "realloc", "load", "close", "poll"}
    /\ NoConn \notin Conns
    /\ NoMsg \notin Message

VARIABLES pc,      \* "poll", "scan", "died" (server.c:111) or "stopped"
          pfd,     \* p.content, with what its unused slots hold
          psize,   \* p.size
          room,    \* p._allocated
          i, c,    \* loop index and captured size of the for loop
          d,       \* the array of messages received
          sock     \* the connection behind each descriptor

serverVars == <<pc, pfd, psize, room, i, c, d, sock>>

ListenFd == 0
Slots == 0 .. MaxSlots - 1

Entry == [fd : Fds \cup {ListenFd}, events : {"in", "out"},
          revents : {"none", "in", "out", "uninit"}]

\* a slot that poll() has not seen; its revents was never written
Unused == [fd |-> ListenFd, events |-> "in", revents |-> "uninit"]

\* The message kept for each descriptor, as utils_array_rcv_find finds it.
rcv == [f \in Fds |-> RcvFind(d, f, NoMsg)]

\* Bug: the listening socket is not added to the array.
ServerInitEmpty ==
    /\ pc = "poll"
    /\ pfd = [j \in Slots |-> Unused]
    /\ psize = 0
    /\ i = 0 /\ c = 0
    /\ room = InitialSize /\ d = RcvInit
    /\ sock = [f \in Fds |-> NoConn]

\* server_init up to the first poll: the listening socket is slot 0.
ServerInit ==
    /\ pc = "poll"
    /\ pfd = [j \in Slots |-> Unused]
    /\ psize = 1
    /\ i = 0 /\ c = 0
    /\ room = InitialSize /\ d = RcvInit
    /\ sock = [f \in Fds |-> NoConn]

----------------------------------------------------------------------------

Backlog == {k \in Conns : net[k].srv = "queued"}
Polled(f) == \E j \in 0 .. psize - 1 : pfd[j].fd = f

\* Connections whose send buffer may be full: the client has not read all of it.
Clogged == {k \in Conns : ShortSends /\ net[k].cli = "open" /\ net[k].down # << >>}

\* What poll() writes to revents of an entry, with the buffers of full being full.
Revents(e, full) ==
    IF e.fd = ListenFd THEN IF Backlog # {} THEN "in" ELSE "none"
    ELSE IF sock[e.fd] = NoConn THEN "none"
    ELSE IF e.events = "out" THEN IF sock[e.fd] \in full THEN "none" ELSE "out"
    ELSE IF Readable(net[sock[e.fd]]) THEN "in" ELSE "none"

\* poll() blocks until some entry is ready and writes the first p.size entries.
\* The loop reads no slot beyond them before pollfd_add has written its fd and
\* events, so what such slots held is forgotten here.
PollReturns ==
    /\ pc = "poll"
    /\ \E full \in SUBSET Clogged :
          /\ \E j \in 0 .. psize - 1 : Revents(pfd[j], full) # "none"
          /\ pfd' = [j \in Slots |->
                        IF j < psize
                        THEN [pfd[j] EXCEPT !.revents = Revents(pfd[j], full)]
                        ELSE Unused]
    /\ pc' = "scan" /\ i' = 0 /\ c' = psize
    /\ UNCHANGED <<psize, room, d, sock, net>>

\* The process ends and the kernel closes what it held.
Exit(how) ==
    /\ pc' = how /\ i' = 0 /\ c' = 0
    /\ net' = [k \in Conns |-> IF net[k].srv \in {"queued", "open"}
                               THEN ClosedByServer(net[k]) ELSE net[k]]
    /\ sock' = [f \in Fds |-> NoConn]
    /\ UNCHANGED <<pfd, psize, room, d>>

PollFails == pc = "poll" /\ "poll" \in Faults /\ Exit("stopped")

----------------------------------------------------------------------------
(* One iteration.  revents of an entry accepted in this round was never     *)
(* written: it can read as anything.                                        *)

Visits(r) == pc = "scan" /\ pfd[i].revents \in {r, "uninit"}

EndIteration ==
    /\ i' = IF i + 1 < c THEN i + 1 ELSE 0
    /\ c' = IF i + 1 < c THEN c ELSE 0
    /\ pc' = IF i + 1 < c THEN "scan" ELSE "poll"

SkipEntry ==
    /\ Visits("none")
    /\ EndIteration
    /\ UNCHANGED <<pfd, psize, room, d, sock, net>>

FreeFds == {f \in Fds : sock[f] = NoConn}
LowestFreeFd == CHOOSE f \in FreeFds : \A g \in FreeFds : f <= g

\* What utils_array_pollfd_add writes; revents stays as malloc left it.
NewEntry(f) == [fd |-> f, events |-> "in", revents |-> "uninit"]

\* accept() takes connection k and the slot after the last one watches it.
Accepts(k) ==
    /\ Visits("in") /\ pfd[i].fd = ListenFd
    /\ k \in Backlog /\ FreeFds # {} /\ psize < MaxSlots
    /\ sock' = [sock EXCEPT ![LowestFreeFd] = k]
    /\ net' = [net EXCEPT ![k] = Accepted(@)]
    /\ pfd' = [pfd EXCEPT ![psize] = NewEntry(LowestFreeFd)]
    /\ psize' = psize + 1
    /\ room' = Grown(psize, room)
    /\ EndIteration
    /\ UNCHANGED d

\* fcntl or the realloc of a full array fails: the descriptor stays open, unwatched.
AcceptsUnwatched(k) ==
    /\ Visits("in") /\ pfd[i].fd = ListenFd
    /\ k \in Backlog /\ FreeFds # {}
    /\ "fcntl" \in Faults \/ ("realloc" \in Faults /\ psize = room)
    /\ sock' = [sock EXCEPT ![LowestFreeFd] = k]
    /\ net' = [net EXCEPT ![k] = Accepted(@)]
    /\ EndIteration
    /\ UNCHANGED <<pfd, psize, room, d>>

\* accept() returns -1, fcntl refuses the descriptor -1, the client is kept waiting.
AcceptFails ==
    /\ Visits("in") /\ pfd[i].fd = ListenFd
    /\ FreeFds = {} \/ "accept" \in Faults
    /\ EndIteration
    /\ UNCHANGED <<pfd, psize, room, d, sock, net>>

----------------------------------------------------------------------------

\* Bug: the socket is always marked for writing.
MarkedForWriting(events) == [pfd EXCEPT ![i].events = "out"]

Marked(events) == [pfd EXCEPT ![i].events = events]

\* Bug: the shift starts one slot too late.
ShiftedLate(slots, f) ==
    LET at == CHOOSE j \in 0 .. psize - 1 :
                  slots[j].fd = f /\ \A h \in 0 .. j - 1 : slots[h].fd # f
    IN  [j \in Slots |-> IF at < j /\ j < psize - 1 THEN slots[j + 1] ELSE slots[j]]

\* utils_array_pollfd_remove: the first slot of f goes, the later ones move down.
Shifted(slots, f) ==
    LET at == CHOOSE j \in 0 .. psize - 1 :
                  slots[j].fd = f /\ \A h \in 0 .. j - 1 : slots[h].fd # f
    IN  [j \in Slots |-> IF at <= j /\ j < psize - 1 THEN slots[j + 1] ELSE slots[j]]

\* server__remove_client, called in the iteration that marked the slots.
RemoveClient(f, slots) ==
    IF ~Polled(f) THEN Exit("died")
    ELSE \/ /\ d' = RcvRemove(d, f)
            /\ pfd' = Shifted(slots, f)
            /\ psize' = psize - 1
            /\ sock' = [sock EXCEPT ![f] = NoConn]
            /\ net' = [net EXCEPT ![sock[f]] = ClosedByServer(@)]
            /\ EndIteration
            /\ UNCHANGED room
         \/ "close" \in Faults /\ Exit("stopped")

ReadsFrom(f) == Visits("in") /\ pfd[i].fd = f /\ f \in Fds

\* A whole message arrived: it replaces the one kept for the descriptor.
StoresMessage(f) ==
    /\ ReadsFrom(f) /\ sock[f] # NoConn /\ RecvResult(net[sock[f]]) = "full"
    /\ pfd' = Marked("out")
    /\ \/ d' = RcvAdd(d, f, RecvMessage(net[sock[f]]))
       \/ "realloc" \in Faults /\ MustGrow(d, f) /\ UNCHANGED d
    /\ net' = [net EXCEPT ![sock[f]] = Received(@)]
    /\ EndIteration
    /\ UNCHANGED <<psize, room, sock>>

\* Bug: an error is handled like the end of the stream (read <= 0).
ReadFailsRemoving(f) ==
    /\ ReadsFrom(f)
    /\ sock[f] # NoConn => RecvResult(net[sock[f]]) = "error"
    /\ RemoveClient(f, Marked("out"))

\* recv() fails: EAGAIN, reset, or EBADF on a descriptor closed in this round.
ReadFails(f) ==
    /\ ReadsFrom(f)
    /\ pfd' = Marked("out")
    /\ IF sock[f] = NoConn THEN UNCHANGED net
       ELSE /\ RecvResult(net[sock[f]]) = "error"
            /\ net' = [net EXCEPT ![sock[f]] = Received(@)]
    /\ EndIteration
    /\ UNCHANGED <<psize, room, d, sock>>

\* End of stream, in the middle of a message or not.
ClientLeft(f) ==
    /\ ReadsFrom(f) /\ sock[f] # NoConn /\ RecvResult(net[sock[f]]) = "eof"
    /\ RemoveClient(f, Marked("out"))

----------------------------------------------------------------------------

WritesTo(f) == Visits("out") /\ pfd[i].fd = f /\ f \in Fds

\* "No messages recieved ... This shouldn't have happened" (server.c:206-210)
NothingToAnswer(f) ==
    /\ WritesTo(f) /\ rcv[f] = NoMsg
    /\ pfd' = Marked("in")
    /\ EndIteration
    /\ UNCHANGED <<psize, room, d, sock, net>>

Acceptable(m) == m.magic /\ m.code = MSG_REQUEST /\ m.block < BlockCount

DropsClient(f) ==
    /\ WritesTo(f) /\ rcv[f] # NoMsg /\ ~Acceptable(rcv[f])
    /\ RemoveClient(f, Marked("in"))

\* Bug: the data is always read at the start of the file.
FirstResponse(b) == << Ok(b) >> \o Data(0)

Response(b) == << Ok(b) >> \o Data(b)

\* send() takes all of the response, or some first units of it.
Takes(units) == IF ShortSends THEN 1 .. Len(units) ELSE {Len(units)}

Responds(f, units) ==
    /\ pfd' = Marked("in")
    /\ \E n \in Takes(units) :
          net' = [net EXCEPT ![sock[f]] = SendAll(@, units, n, rcv[f].block)]
    /\ EndIteration
    /\ UNCHANGED <<psize, room, d, sock>>

\* Only message_code of the payload is assigned; the other fields are whatever
\* the stack holds.
RefusesBlock(f) ==
    /\ WritesTo(f) /\ rcv[f] # NoMsg /\ Acceptable(rcv[f])
    /\ rcv[f].block \notin Have
    /\ \E g \in BOOLEAN, b \in {rcv[f].block, BlockCount} :
          Responds(f, << [magic |-> g, code |-> MSG_RESPONSE_NA, block |-> b] >>)

SendsBlock(f) ==
    /\ WritesTo(f) /\ rcv[f] # NoMsg /\ Acceptable(rcv[f])
    /\ rcv[f].block \in Have
    /\ Responds(f, Response(rcv[f].block))

\* fio_load_block fails, or send() finds no room at all: nothing is sent.
SendsNothing(f) ==
    /\ WritesTo(f) /\ rcv[f] # NoMsg /\ Acceptable(rcv[f])
    /\ ShortSends \/ (rcv[f].block \in Have /\ "load" \in Faults)
    /\ pfd' = Marked("in")
    /\ EndIteration
    /\ UNCHANGED <<psize, room, d, sock, net>>

----------------------------------------------------------------------------

AcceptStep == \/ \E k \in Conns : Accepts(k) \/ AcceptsUnwatched(k)
              \/ AcceptFails

ReadStep == \E f \in Fds : StoresMessage(f) \/ ReadFails(f) \/ ClientLeft(f)

WriteStep == \E f \in Fds : \/ NothingToAnswer(f) \/ DropsClient(f)
                            \/ RefusesBlock(f) \/ SendsBlock(f) \/ SendsNothing(f)

ServerNext == \/ PollReturns \/ PollFails \/ SkipEntry
              \/ AcceptStep \/ ReadStep \/ WriteStep

----------------------------------------------------------------------------

TypeOK ==
    /\ net \in [Conns -> Link]
    /\ pc \in {"poll", "scan", "died", "stopped"}
    /\ pfd \in [Slots -> Entry]
    /\ psize \in 1 .. MaxSlots
    /\ i \in Nat /\ c \in 0 .. MaxSlots
    /\ d \in RcvArray(Fds, Message) /\ room \in Nat \ {0}
    /\ sock \in [Fds -> Conns \cup {NoConn}]

(* What the arrays look like between two iterations, stale slots included.  *)

\* The entries are the listening socket and then open descriptors, each once.
EntriesOK ==
    /\ pfd[0].fd = ListenFd
    /\ \A j \in 1 .. psize - 1 : pfd[j].fd \in Fds /\ sock[pfd[j].fd] # NoConn
    /\ \A j, h \in 0 .. psize - 1 : pfd[j].fd = pfd[h].fd => j = h

MessagesOK == \A f \in Fds : rcv[f] # NoMsg => Polled(f)

\* Neither array outgrows its memory, in which the loop also finds its slots,
\* the stale ones included; no descriptor has two messages.
MemoryOK == WellFormed(d) /\ psize <= room /\ c <= room

\* What the loop has still to visit, copies beyond psize among it, is either closed
\* or in the array; the listening socket is only ever met in slot 0, at the start.
VisitsOK ==
    /\ i < c
    /\ i = 0 => c = psize
    /\ \A j \in i .. c - 1 :
          j > 0 => /\ pfd[j].fd \in Fds
                   /\ sock[pfd[j].fd] # NoConn => Polled(pfd[j].fd)

\* Only fcntl and realloc leave a descriptor open without an entry when they fail.
NoLeak == Faults \cap {"fcntl", "realloc"} = {} =>
              \A f \in Fds : sock[f] # NoConn => Polled(f)

\* Removals shift the array under a running loop (server.c:138-139): between
\* any two iterations the array, the messages and what is left to visit agree.
ArrayInv ==
    /\ pc # "died"
    /\ pc \in {"poll", "scan"} => EntriesOK /\ MessagesOK
    /\ pc = "scan" => VisitsOK
    /\ NoLeak
    /\ MemoryOK

\* The loop visits slots that removals in the same round made stale, yet a
\* removal always finds its descriptor: SEVER_DIE at server.c:111 is not reached.
NeverDiesRemoving == pc # "died"

\* Whatever order connections are accepted, shifted and removed in, an open
\* descriptor of a running server has exactly one entry in the array, and a message
\* is only kept for an open descriptor.  (A second entry would survive the removal.)
WatchedOnce ==
    pc # "stopped" =>
        \A f \in Fds :
            /\ sock[f] # NoConn =>
                   \E j \in 0 .. psize - 1 :
                       /\ pfd[j].fd = f
                       /\ \A h \in 0 .. psize - 1 : pfd[h].fd = f => h = j
            /\ sock[f] = NoConn => rcv[f] = NoMsg
=============================================================================

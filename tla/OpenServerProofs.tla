------------------------- MODULE OpenServerProofs -------------------------
(***************************************************************************)
(* The server with clients it knows nothing of: for any number of clients  *)
(* and descriptors, any requests and any failing calls, type correctness,  *)
(* the invariant ArrayInv and what follows from it; the order of the       *)
(* answers; and, of clients that send whole requests, who is removed.      *)
(***************************************************************************)
EXTENDS OpenServer, ServerProofs

\* What clients and the network do leaves the server's arrays alone.
LEMMA ClientsNextInv == ASSUME TypeOK, ArrayInv, ClientsNext
                        PROVE  TypeOK' /\ ArrayInv'
<1>1. UNCHANGED serverVars
  BY DEF ClientsNext, Connect, Ask, Arrive, Consume, Leave, Update
<1>2. PICK k \in Conns : Connect(k) \/ Ask(k) \/ Arrive(k) \/ Consume(k) \/ Leave(k)
  BY DEF ClientsNext
<1>3. net[k] \in Link
  BY DEF TypeOK
<1>4. \E link \in Link : net' = [net EXCEPT ![k] = link]
  <2>1. CASE Connect(k)
    BY <1>3, <2>1, ConnectedType DEF Connect, Update
  <2>2. CASE Ask(k)
    BY <1>3, <2>2, SentType, OpenServerAssumption DEF Ask, Update
  <2>3. CASE Arrive(k)
    BY <1>3, <2>3, ArrivedType DEF Arrive, Update
  <2>4. CASE Consume(k)
    <3>1. << >> \in Seq(Unit)
      OBVIOUS
    <3>2. [net[k] EXCEPT !.down = << >>] \in Link
      BY <1>3, <3>1 DEF Link
    <3> QED
      BY <2>4, <3>2 DEF Consume, Update
  <2>5. CASE Leave(k)
    BY <1>3, <2>5, ClosedByClientType DEF Leave, Update
  <2> QED
    BY <1>2, <2>1, <2>2, <2>3, <2>4, <2>5
<1>5. net' \in [Conns -> Link]
  BY <1>4, NetUpdateType
<1> QED
  BY <1>1, <1>5, OthersInv

\* Every step of the server and of its clients keeps both invariants.
LEMMA NextInv == TypeOK /\ ArrayInv /\ [Next]_vars => TypeOK' /\ ArrayInv'
<1> SUFFICES ASSUME TypeOK, ArrayInv, [Next]_vars PROVE TypeOK' /\ ArrayInv'
  OBVIOUS
<1>1. CASE UNCHANGED vars
  <2>1. UNCHANGED serverVars /\ net' \in [Conns -> Link]
    BY <1>1 DEF vars, TypeOK
  <2> QED
    BY <2>1, OthersInv
<1> QED
  BY <1>1, ServerNextInv, ClientsNextInv DEF Next

\* Every reachable state of the server and its clients is well-typed: server.c and
\* utils.c for any number of clients.
THEOREM TypeCorrect == Spec => []TypeOK
  BY ServerInitInv, NextInv, PTL DEF Spec, Init

\* Between two iterations of the loop of server.c:139 the array, the messages and
\* the slots still to visit agree, whatever was removed in this round.
THEOREM ArrayAgrees == Spec => []ArrayInv
  BY ServerInitInv, NextInv, PTL DEF Spec, Init

\* The server never exits at server.c:111: server__remove_client always finds the
\* descriptor it is called with in the polling array.
THEOREM NeverDies == Spec => []NeverDiesRemoving
<1>1. ArrayInv => NeverDiesRemoving
  BY DEF ArrayInv, NeverDiesRemoving
<1> QED
  BY <1>1, ArrayAgrees, PTL

\* Unless fcntl or realloc fails, whatever else does, an open descriptor of a running
\* server has exactly one entry in the array, and only open descriptors have a message.
THEOREM EachWatchedOnce ==
    ASSUME Faults \cap {"fcntl", "realloc"} = {}
    PROVE  Spec => []WatchedOnce
<1>1. TypeOK /\ ArrayInv => WatchedOnce
  <2> SUFFICES ASSUME TypeOK, ArrayInv, pc # "stopped", NEW f \in Fds
               PROVE  /\ sock[f] # NoConn =>
                             \E j \in 0 .. psize - 1 :
                                 /\ pfd[j].fd = f
                                 /\ \A h \in 0 .. psize - 1 : pfd[h].fd = f => h = j
                      /\ sock[f] = NoConn => rcv[f] = NoMsg
    BY DEF WatchedOnce
  <2>1. EntriesOK /\ MessagesOK /\ (sock[f] # NoConn => Polled(f))
    BY DEF ArrayInv, NoLeak, TypeOK
  <2>2. sock[f] = NoConn => rcv[f] = NoMsg
    BY <2>1, PolledIsOpen DEF MessagesOK
  <2>3. ASSUME sock[f] # NoConn
        PROVE  \E j \in 0 .. psize - 1 :
                   /\ pfd[j].fd = f
                   /\ \A h \in 0 .. psize - 1 : pfd[h].fd = f => h = j
    BY <2>1, <2>3 DEF Polled, EntriesOK
  <2> QED
    BY <2>2, <2>3
<1> QED
  BY <1>1, TypeCorrect, ArrayAgrees, PTL

\* A slot of an array is one of a longer array.
LEMMA StillASlot ==
    ASSUME NEW m \in Nat, NEW n \in {m, m + 1}
    PROVE  0 .. m - 1 \subseteq 0 .. n - 1
  OBVIOUS

\* Slots with the descriptors of pfd watch what pfd watches.
LEMMA SameWatched ==
    ASSUME TypeOK, NEW g \in Fds, Polled(g), psize' \in {psize, psize + 1},
           \A j \in 0 .. psize - 1 : pfd'[j].fd = pfd[j].fd
    PROVE  Polled(g)'
<1>1. psize \in Nat
  BY Constants DEF TypeOK
<1>2. 0 .. psize - 1 \subseteq 0 .. psize' - 1
  BY <1>1, StillASlot
<1> QED
  BY <1>2 DEF Polled

\* The removal of the entry of f keeps the entries of the others.
LEMMA OthersWatched ==
    ASSUME TypeOK, EntriesOK, NEW f \in Fds, Polled(f), NEW e \in {"in", "out"},
           pfd' = Shifted(Marked(e), f), psize' = psize - 1,
           NEW g \in Fds, g # f, Polled(g)
    PROVE  Polled(g)'
<1>1. /\ psize \in Nat /\ 0 .. psize - 1 \subseteq Slots
  BY Constants DEF TypeOK
<1>2. Marked(e) \in [Slots -> Entry] /\ \A j \in Slots : Marked(e)[j].fd = pfd[j].fd
  BY MarkedType
<1>3. PICK at \in 1 .. psize - 1 :
          /\ pfd[at].fd = f
          /\ \A j \in Slots :
                pfd'[j].fd = IF at <= j /\ j < psize - 1 THEN pfd[j + 1].fd ELSE pfd[j].fd
  BY <1>2, ShiftedSlots
<1>4. PICK j \in 0 .. psize - 1 : pfd[j].fd = g
  BY DEF Polled
<1>5. j # at
  BY <1>3, <1>4
<1>6. CASE j < at
  <2>1. j \in 0 .. psize' - 1 /\ j \in Slots /\ ~(at <= j)
    BY <1>1, <1>6
  <2>2. pfd'[j].fd = g
    BY <1>3, <1>4, <2>1
  <2> QED
    BY <2>1, <2>2 DEF Polled
<1>7. CASE j > at
  <2>1. j - 1 \in 0 .. psize' - 1 /\ j - 1 \in Slots /\ at <= j - 1 /\ j - 1 < psize - 1
    BY <1>1, <1>7
  <2>2. pfd'[j - 1].fd = g
    BY <1>3, <1>4, <2>1
  <2> QED
    BY <2>1, <2>2 DEF Polled
<1> QED
  BY <1>5, <1>6, <1>7

\* WatchedUntilClosed for any number of clients and whatever calls fail: the shifts of
\* a round take no entry but that of the descriptor that is closed.
THEOREM EntriesKept == Spec => WatchedUntilClosed
<1>1. TypeOK /\ ArrayInv /\ [Next]_vars => [Watched \cap OpenFds' \subseteq Watched']_vars
  <2> SUFFICES ASSUME TypeOK, ArrayInv, [Next]_vars, NEW g \in Fds, Polled(g),
                      sock[g] # NoConn, sock'[g] # NoConn
               PROVE  Polled(g)'
    BY DEF Watched, OpenFds
  <2>1. /\ psize \in Nat /\ 0 .. psize - 1 \subseteq Slots
    BY Constants DEF TypeOK
  <2>2. \A e : \A j \in Slots : Marked(e)[j].fd = pfd[j].fd
    BY DEF Marked, TypeOK, Entry
  <2>3. CASE \/ UNCHANGED <<pfd, psize>>
             \/ \E e : pfd' = Marked(e) /\ psize' = psize
    BY <2>1, <2>2, <2>3, SameWatched
  <2>4. CASE \E how : Exit(how)
    BY <2>4 DEF Exit
  <2>5. ASSUME NEW f \in Fds, NEW e \in {"in", "out"}, pc = "scan", RemoveClient(f, Marked(e))
        PROVE  Polled(g)'
    <3>1. CASE /\ Polled(f) /\ pfd' = Shifted(Marked(e), f) /\ psize' = psize - 1
               /\ sock' = [sock EXCEPT ![f] = NoConn]
      <4>1. g # f
        BY <3>1 DEF TypeOK
      <4>2. EntriesOK
        BY <2>5 DEF ArrayInv
      <4> QED
        BY <3>1, <4>1, <4>2, OthersWatched
    <3> QED
      BY <2>4, <2>5, <3>1 DEF RemoveClient
  <2>6. CASE PollReturns
    <3>1. \A j \in 0 .. psize - 1 : pfd'[j].fd = pfd[j].fd
      BY <2>1, <2>6 DEF PollReturns, TypeOK, Entry
    <3> QED
      BY <2>1, <2>6, <3>1, SameWatched DEF PollReturns
  <2>7. CASE AcceptStep
    <3>1. CASE AcceptFails
      BY <2>3, <3>1 DEF AcceptFails
    <3>2. ASSUME NEW k \in Conns, AcceptsUnwatched(k) PROVE Polled(g)'
      BY <2>3, <3>2 DEF AcceptsUnwatched
    <3>3. ASSUME NEW k \in Conns, Accepts(k) PROVE Polled(g)'
      <4>1. /\ pfd' = [pfd EXCEPT ![psize] = NewEntry(LowestFreeFd)] /\ psize' = psize + 1
        BY <3>3 DEF Accepts
      <4>2. \A j \in 0 .. psize - 1 : pfd'[j].fd = pfd[j].fd
        BY <2>1, <4>1 DEF TypeOK
      <4> QED
        BY <2>1, <4>1, <4>2, SameWatched
    <3> QED
      BY <2>7, <3>1, <3>2, <3>3 DEF AcceptStep
  <2>8. CASE ReadStep
    <3>1. PICK f \in Fds : StoresMessage(f) \/ ReadFails(f) \/ ClientLeft(f)
      BY <2>8 DEF ReadStep
    <3>2. CASE ClientLeft(f)
      BY <2>5, <3>2 DEF ClientLeft, ReadsFrom, Visits
    <3> QED
      BY <2>3, <3>1, <3>2 DEF StoresMessage, ReadFails
  <2>9. CASE WriteStep
    <3>1. PICK f \in Fds : \/ NothingToAnswer(f) \/ DropsClient(f) \/ RefusesBlock(f)
                           \/ SendsBlock(f) \/ SendsNothing(f)
      BY <2>9 DEF WriteStep
    <3>2. CASE DropsClient(f)
      BY <2>5, <3>2 DEF DropsClient, WritesTo, Visits
    <3> QED
      BY <2>3, <3>1, <3>2 DEF NothingToAnswer, RefusesBlock, SendsBlock, SendsNothing, Responds
  <2>10. CASE PollFails
    BY <2>4, <2>10 DEF PollFails
  <2>11. CASE SkipEntry
    BY <2>3, <2>11 DEF SkipEntry
  <2>12. CASE ClientsNext \/ UNCHANGED vars
    BY <2>3, <2>12 DEF ClientsNext, Connect, Ask, Arrive, Consume, Leave, Update, vars,
       serverVars
  <2> QED
    BY <2>6, <2>7, <2>8, <2>9, <2>10, <2>11, <2>12 DEF Next, ServerNext
<1> QED
  BY <1>1, TypeCorrect, ArrayAgrees, PTL DEF Spec, WatchedUntilClosed

\* Only the two calls that write to the array of messages change it, and both are
\* made for the descriptor of the slot the loop visits.
LEMMA MessageOfVisited ==
    ASSUME TypeOK, ArrayInv, [Next]_vars
    PROVE  \/ d' = d
           \/ \E f \in Fds : /\ pc = "scan" /\ pfd[i].fd = f
                            /\ \A g \in Fds : g # f => rcv'[g] = rcv[g]
<1>1. WellFormed(d)
  BY DEF ArrayInv, MemoryOK
<1>2. ASSUME NEW f \in Fds, StoresMessage(f), d' # d
      PROVE  /\ pc = "scan" /\ pfd[i].fd = f
             /\ \A g \in Fds : g # f => rcv'[g] = rcv[g]
  <2>1. /\ pc = "scan" /\ pfd[i].fd = f /\ sock[f] # NoConn
        /\ RecvResult(net[sock[f]]) = "full"
        /\ d' = RcvAdd(d, f, RecvMessage(net[sock[f]]))
    BY <1>2 DEF StoresMessage, ReadsFrom, Visits
  <2>2. net[sock[f]] \in Link
    BY <2>1 DEF TypeOK
  <2>3. RecvMessage(net[sock[f]]) \in Message
    BY <2>1, <2>2, RecvMessageType
  <2> QED
    BY <1>1, <2>1, <2>3, RcvAdded, RcvType DEF TypeOK
<1>3. ASSUME NEW f \in Fds, NEW slots, RemoveClient(f, slots), d' # d
      PROVE  \A g \in Fds : g # f => rcv'[g] = rcv[g]
  <2>1. d' = RcvRemove(d, f)
    BY <1>3 DEF RemoveClient, Exit
  <2> QED
    BY <1>1, <2>1, RcvRemoved, RcvType DEF TypeOK
<1>4. ASSUME NEW f \in Fds, ClientLeft(f) \/ DropsClient(f)
      PROVE  /\ pc = "scan" /\ pfd[i].fd = f
             /\ RemoveClient(f, Marked("out")) \/ RemoveClient(f, Marked("in"))
  BY <1>4 DEF ClientLeft, DropsClient, ReadsFrom, WritesTo, Visits
<1>5. CASE ReadStep
  <2>1. PICK f \in Fds : StoresMessage(f) \/ ReadFails(f) \/ ClientLeft(f)
    BY <1>5 DEF ReadStep
  <2>2. CASE ReadFails(f)
    BY <2>2 DEF ReadFails
  <2> QED
    BY <1>2, <1>3, <1>4, <2>1, <2>2
<1>6. CASE WriteStep
  <2>1. PICK f \in Fds : \/ NothingToAnswer(f) \/ DropsClient(f) \/ RefusesBlock(f)
                        \/ SendsBlock(f) \/ SendsNothing(f)
    BY <1>6 DEF WriteStep
  <2>2. CASE ~DropsClient(f)
    BY <2>1, <2>2 DEF NothingToAnswer, RefusesBlock, SendsBlock, SendsNothing, Responds
  <2> QED
    BY <1>3, <1>4, <2>1, <2>2
<1>7. CASE AcceptStep \/ PollReturns \/ PollFails \/ SkipEntry
  BY <1>7 DEF AcceptStep, Accepts, AcceptsUnwatched, AcceptFails, PollReturns, PollFails,
              SkipEntry, Exit
<1>8. CASE ClientsNext \/ UNCHANGED vars
  BY <1>8 DEF ClientsNext, Connect, Ask, Arrive, Consume, Leave, Update, vars, serverVars
<1> QED
  BY <1>5, <1>6, <1>7, <1>8 DEF Next, ServerNext

\* A message kept for a descriptor changes only while the loop visits that descriptor:
\* removals that shift the array, its growth and its failing to grow lose and mix up
\* no message of another client.
THEOREM MessagesStay == Spec => OthersMessagesStay
<1>1. TypeOK /\ ArrayInv /\ [Next]_vars =>
          [\A f \in Fds : rcv'[f] # rcv[f] => pc = "scan" /\ pfd[i].fd = f]_vars
  <2> SUFFICES ASSUME TypeOK, ArrayInv, [Next]_vars, NEW f \in Fds, rcv'[f] # rcv[f]
               PROVE  pc = "scan" /\ pfd[i].fd = f
    OBVIOUS
  <2>1. d' # d
    BY DEF rcv
  <2> QED
    BY <2>1, MessageOfVisited
<1> QED
  BY <1>1, TypeCorrect, ArrayAgrees, PTL DEF Spec, OthersMessagesStay

----------------------------------------------------------------------------
(* The order of the answers.  Requests, as halves on their way, and answers *)
(* point at what was asked for, and some position q in it divides those     *)
(* answered from those still coming; a message kept for the descriptor of   *)
(* the connection is the request at q.                                      *)

Coming(t) == t.up \o t.late

ComingOK(t, q) == \E of \in [DOMAIN Coming(t) -> DOMAIN t.asked] :
    \A n \in DOMAIN Coming(t) :
        /\ q <= of[n]
        /\ \A h \in 1 .. n : of[h] <= of[n]
        /\ Coming(t)[n].half = "head" => t.asked[of[n]] = Coming(t)[n].msg.block

AnsweredOK(t, q) == \E of \in [DOMAIN t.answered -> DOMAIN t.asked] :
    \A n \in DOMAIN t.answered :
        /\ of[n] <= q
        /\ \A h \in 1 .. n : of[h] <= of[n]
        /\ t.asked[of[n]] = t.answered[n]

\* The acceptable messages kept for the descriptors of connection k.
Kept(k) == {rcv[f] : f \in {g \in Fds : /\ sock[g] = k /\ rcv[g] # NoMsg
                                        /\ Acceptable(rcv[g])}}

AskedAt(t, q, b) == q \in DOMAIN t.asked /\ t.asked[q] = b

DividedAt(k, q) == /\ ComingOK(net[k], q) /\ AnsweredOK(net[k], q)
                   /\ \A m \in Kept(k) : AskedAt(net[k], q, m.block)

OrderOK == \A k \in Conns : \E q \in 0 .. Len(net[k].asked) : DividedAt(k, q)

\* Two descriptors are never of one connection, which the server has accepted.
SockOK == /\ \A f \in Fds : sock[f] # NoConn =>
                /\ net[sock[f]].srv = "open"
                /\ \A g \in Fds : sock[g] = sock[f] => g = f
          /\ \A k \in Conns : net[k].cli = "none" => net[k].srv = "none"

\* A piece of what was coming, nothing else asked or answered.
PieceOf(new, old) == \E n \in Nat : /\ Len(new) + n <= Len(old)
                                    /\ \A j \in 1 .. Len(new) : new[j] = old[j + n]
Later(new, t) == /\ new.asked = t.asked /\ new.answered = t.answered
                 /\ Coming(new) \in Seq(Half) /\ PieceOf(Coming(new), Coming(t))

\* What is coming is a sequence of halves.
LEMMA ComingType == ASSUME NEW t \in Link PROVE Coming(t) \in Seq(Half)
  BY LinkFields DEF Coming

\* The sequence without its first two elements.
LEMMA TwoFewer ==
    ASSUME NEW up \in Seq(Half), Len(up) >= 2
    PROVE  /\ Tail(Tail(up)) \in Seq(Half) /\ Len(Tail(Tail(up))) = Len(up) - 2
           /\ \A j \in 1 .. Len(up) - 2 : Tail(Tail(up))[j] = up[j + 2]
<1> DEFINE rest == Tail(Tail(up))
<1>0. Len(up) \in Nat /\ Len(<< >>) = 0
  BY LenProperties
<1>1. /\ Tail(up) \in Seq(Half) /\ Len(Tail(up)) = Len(up) - 1
      /\ \A j \in 1 .. Len(up) - 1 : Tail(up)[j] = up[j + 1]
  BY <1>0, HeadTailProperties
<1>2. Tail(up) # << >>
  <2>1. Len(Tail(up)) # 0
    BY <1>0, <1>1
  <2> QED
    BY <1>0, <2>1, Zenon
<1>3. /\ rest \in Seq(Half) /\ Len(rest) = Len(Tail(up)) - 1
      /\ \A j \in 1 .. Len(rest) : rest[j] = Tail(up)[j + 1]
  BY <1>1, <1>2, HeadTailProperties
<1> HIDE DEF rest
<1>4. /\ rest \in Seq(Half) /\ Len(rest) = Len(up) - 2
      /\ \A j \in 1 .. Len(up) - 2 : rest[j] = up[j + 2]
  BY <1>0, <1>1, <1>3
<1> QED
  BY <1>4 DEF rest

\* The pieces the calls leave of the halves of a connection: all, all that arrived, all
\* that did not, and the rest after a message.
LEMMA Pieces ==
    ASSUME NEW up \in Seq(Half), NEW late \in Seq(Half)
    PROVE  /\ PieceOf(up \o late, up \o late) /\ PieceOf(up \o << >>, up \o late)
           /\ PieceOf(<< >> \o late, up \o late) /\ PieceOf(<< >> \o << >>, up \o late)
           /\ Len(up) >= 2 => PieceOf(Tail(Tail(up)) \o late, up \o late)
           /\ late # << >> => PieceOf(Append(up, Head(late)) \o Tail(late), up \o late)
<1> DEFINE all == up \o late
<1>1. /\ Len(up) \in Nat /\ Len(late) \in Nat
      /\ Len(all) = Len(up) + Len(late) /\ all \in Seq(Half)
      /\ \A j \in 1 .. Len(up) : all[j] = up[j]
      /\ \A j \in 1 .. Len(late) : all[Len(up) + j] = late[j]
  BY ConcatProperties, LenProperties
<1>2. up \o << >> = up /\ << >> \o late = late /\ << >> \o << >> = << >>
  OBVIOUS
<1>3. Len(<< >>) = 0
  OBVIOUS
<1> HIDE DEF all
<1>4. PieceOf(all, all)
  <2>1. Len(all) + 0 <= Len(all) /\ \A j \in 1 .. Len(all) : all[j] = all[j + 0]
    BY <1>1
  <2> QED
    BY <2>1 DEF PieceOf
<1>5. PieceOf(up, all)
  <2>1. Len(up) + 0 <= Len(all) /\ \A j \in 1 .. Len(up) : up[j] = all[j + 0]
    BY <1>1
  <2> QED
    BY <2>1 DEF PieceOf
<1>6. PieceOf(late, all)
  <2>1. /\ Len(late) + Len(up) <= Len(all)
        /\ \A j \in 1 .. Len(late) : late[j] = all[j + Len(up)]
    BY <1>1
  <2> QED
    BY <1>1, <2>1 DEF PieceOf
<1>7. PieceOf(<< >>, all)
  <2>1. Len(<< >>) + 0 <= Len(all) /\ \A j \in 1 .. Len(<< >>) : << >>[j] = all[j + 0]
    BY <1>1, <1>3
  <2> QED
    BY <2>1 DEF PieceOf
<1>8. ASSUME Len(up) >= 2 PROVE PieceOf(Tail(Tail(up)) \o late, all)
  <2> DEFINE rest == Tail(Tail(up))
  <2>1. /\ rest \in Seq(Half) /\ Len(rest) = Len(up) - 2
        /\ \A j \in 1 .. Len(up) - 2 : rest[j] = up[j + 2]
    BY <1>8, TwoFewer
  <2> HIDE DEF rest
  <2>3. \A j \in 1 .. Len(rest) : rest[j] = up[j + 2]
    BY <1>1, <1>8, <2>1
  <2>4. /\ Len(rest \o late) = Len(rest) + Len(late)
        /\ \A j \in 1 .. Len(rest) + Len(late) :
              (rest \o late)[j] = IF j <= Len(rest) THEN rest[j] ELSE late[j - Len(rest)]
    BY <2>1, ConcatProperties
  <2>5. ASSUME NEW j \in 1 .. Len(rest \o late) PROVE (rest \o late)[j] = all[j + 2]
    <3>1. CASE j <= Len(rest)
      <4>1. j \in 1 .. Len(rest) /\ j + 2 \in 1 .. Len(up)
        BY <1>1, <1>8, <2>1, <3>1
      <4>2. (rest \o late)[j] = rest[j]
        BY <2>4, <3>1
      <4> QED
        BY <1>1, <2>3, <4>1, <4>2
    <3>2. CASE ~(j <= Len(rest))
      <4>1. j - Len(rest) \in 1 .. Len(late) /\ j + 2 = Len(up) + (j - Len(rest))
        BY <1>1, <1>8, <2>1, <2>4, <3>2
      <4> QED
        BY <1>1, <2>4, <3>2, <4>1
    <3> QED
      BY <3>1, <3>2
  <2>6. Len(rest \o late) + 2 <= Len(all)
    BY <1>1, <1>8, <2>1, <2>4
  <2> QED
    BY <2>5, <2>6 DEF PieceOf, rest
<1>9. ASSUME late # << >> PROVE Append(up, Head(late)) \o Tail(late) = all
  BY <1>9 DEF all
<1> QED
  BY <1>2, <1>4, <1>5, <1>6, <1>7, <1>8, <1>9 DEF all

\* Everything but a request sent, a full read and an answer leaves a piece.
LEMMA LaterLinks ==
    ASSUME NEW t \in Link
    PROVE  /\ Later(t, t) /\ Later(Connected(t), t) /\ Later(Accepted(t), t)
           /\ Later(ClosedByServer(t), t) /\ Later(ClosedByClient(t), t)
           /\ Later([t EXCEPT !.down = << >>], t) /\ Later(Received(t), t)
           /\ \A units : Later(Written(t, units), t)
           /\ t.late # << >> => Later(Arrived(t), t)
<1>1. t.up \in Seq(Half) /\ t.late \in Seq(Half) /\ << >> \in Seq(Half)
  BY LinkFields
<1>2. /\ PieceOf(t.up \o t.late, t.up \o t.late) /\ PieceOf(t.up \o << >>, t.up \o t.late)
      /\ PieceOf(<< >> \o t.late, t.up \o t.late)
      /\ PieceOf(<< >> \o << >>, t.up \o t.late)
      /\ Len(t.up) >= 2 => PieceOf(Tail(Tail(t.up)) \o t.late, t.up \o t.late)
      /\ t.late # << >> =>
            PieceOf(Append(t.up, Head(t.late)) \o Tail(t.late), t.up \o t.late)
  BY <1>1, Pieces
<1>3. ASSUME NEW r \in Link, r.asked = t.asked, r.answered = t.answered,
             PieceOf(r.up \o r.late, t.up \o t.late)
      PROVE  Later(r, t)
  BY <1>3, ComingType DEF Later, Coming
<1>4. Later(t, t)
  BY <1>2, <1>3
<1>5. Later(Connected(t), t)
  BY <1>2, <1>3, ConnectedType DEF Connected, Link
<1>6. Later(Accepted(t), t)
  BY <1>2, <1>3, AcceptedType DEF Accepted, Link
<1>7. Later(ClosedByServer(t), t)
  BY <1>2, <1>3, ClosedByServerType DEF ClosedByServer, Link
<1>8. Later(ClosedByClient(t), t)
  BY <1>2, <1>3, ClosedByClientType DEF ClosedByClient, Link
<1>9. Later([t EXCEPT !.down = << >>], t)
  <2> DEFINE r == [t EXCEPT !.down = << >>]
  <2>1. << >> \in Seq(Unit)
    OBVIOUS
  <2>2. /\ r \in Link /\ r.asked = t.asked /\ r.answered = t.answered
        /\ r.up = t.up /\ r.late = t.late
    BY <2>1 DEF Link
  <2> HIDE DEF r
  <2>3. Later(r, t)
    BY <1>2, <1>3, <2>2
  <2> QED
    BY <2>3 DEF r
<1>10. Later(Received(t), t)
  <2> DEFINE r == Received(t)
  <2>1. /\ r \in Link /\ r.asked = t.asked /\ r.answered = t.answered /\ r.late = t.late
        /\ r.up = IF Len(t.up) >= 2 THEN Tail(Tail(t.up)) ELSE << >>
    BY ReceivedType DEF Received, Link
  <2> HIDE DEF r
  <2>2. Later(r, t)
    BY <1>2, <1>3, <2>1
  <2> QED
    BY <2>2 DEF r
<1>11. ASSUME NEW units PROVE Later(Written(t, units), t)
  <2> DEFINE r == Written(t, units)
  <2>1. /\ r.asked = t.asked /\ r.answered = t.answered /\ r.up = t.up
        /\ r.late = IF t.cli = "open" THEN t.late ELSE << >>
    BY DEF Written, Link
  <2> HIDE DEF r
  <2>2. r.late \in Seq(Half) /\ PieceOf(r.up \o r.late, t.up \o t.late)
    BY <1>1, <1>2, <2>1
  <2>3. r.up \o r.late \in Seq(Half)
    BY <1>1, <2>1, <2>2
  <2>4. Later(r, t)
    BY <2>1, <2>2, <2>3 DEF Later, Coming
  <2> QED
    BY <2>4 DEF r
<1>12. ASSUME t.late # << >> PROVE Later(Arrived(t), t)
  <2> DEFINE r == Arrived(t)
  <2>1. /\ r \in Link /\ r.asked = t.asked /\ r.answered = t.answered
        /\ r.up = Append(t.up, Head(t.late)) /\ r.late = Tail(t.late)
    BY <1>12, ArrivedType DEF Arrived, Link
  <2> HIDE DEF r
  <2>2. Later(r, t)
    BY <1>2, <1>3, <1>12, <2>1
  <2> QED
    BY <2>2 DEF r
<1> QED
  BY <1>4, <1>5, <1>6, <1>7, <1>8, <1>9, <1>10, <1>11, <1>12

\* A piece of what was coming still comes after q.
LEMMA LaterOK ==
    ASSUME NEW t \in Link, NEW new, Later(new, t), NEW q, ComingOK(t, q), AnsweredOK(t, q)
    PROVE  ComingOK(new, q) /\ AnsweredOK(new, q)
<1> DEFINE old == Coming(t)
           rest == Coming(new)
<1>1. /\ new.asked = t.asked /\ new.answered = t.answered
      /\ rest \in Seq(Half) /\ old \in Seq(Half)
  BY ComingType DEF Later
<1>2. PICK n \in Nat : Len(rest) + n <= Len(old) /\ \A j \in 1 .. Len(rest) : rest[j] = old[j + n]
  BY DEF Later, PieceOf
<1>3. PICK of \in [DOMAIN old -> DOMAIN t.asked] :
          \A j \in DOMAIN old :
              /\ q <= of[j]
              /\ \A h \in 1 .. j : of[h] <= of[j]
              /\ old[j].half = "head" => t.asked[of[j]] = old[j].msg.block
  BY DEF ComingOK
<1> HIDE DEF old, rest
<1>4. \A j \in DOMAIN rest : j + n \in DOMAIN old /\ j \in 1 .. Len(rest)
  BY <1>1, <1>2
<1> DEFINE newof == [j \in DOMAIN rest |-> of[j + n]]
<1>5. newof \in [DOMAIN rest -> DOMAIN new.asked]
  BY <1>1, <1>3, <1>4
<1>6. ASSUME NEW j \in DOMAIN rest
      PROVE  /\ q <= newof[j]
             /\ \A h \in 1 .. j : newof[h] <= newof[j]
             /\ rest[j].half = "head" => new.asked[newof[j]] = rest[j].msg.block
  <2>1. rest[j] = old[j + n] /\ newof[j] = of[j + n] /\ j + n \in DOMAIN old
    BY <1>2, <1>4
  <2>2. ASSUME NEW h \in 1 .. j PROVE newof[h] <= newof[j]
    <3>1. h \in DOMAIN rest /\ h + n \in 1 .. j + n
      BY <1>1, <1>2
    <3> QED
      BY <1>3, <2>1, <3>1
  <2> QED
    BY <1>1, <1>3, <2>1, <2>2
<1> HIDE DEF newof
<1>7. ComingOK(new, q)
  BY <1>5, <1>6 DEF ComingOK, rest
<1> QED
  BY <1>1, <1>7 DEF AnsweredOK

\* Two sequences of halves joined.
LEMMA Joined ==
    ASSUME NEW x \in Seq(Half), NEW y \in Seq(Half), NEW z, z = x \o y
    PROVE  /\ z \in Seq(Half) /\ Len(x) \in Nat /\ Len(y) \in Nat
           /\ Len(z) = Len(x) + Len(y)
           /\ DOMAIN z = 1 .. Len(z) /\ DOMAIN x = 1 .. Len(x)
           /\ \A j \in 1 .. Len(x) : z[j] = x[j]
           /\ \A j \in 1 .. Len(y) : z[Len(x) + j] = y[j]
<1>1. /\ z \in Seq(Half) /\ Len(z) = Len(x) + Len(y)
      /\ \A j \in 1 .. Len(x) + Len(y) : z[j] = IF j <= Len(x) THEN x[j] ELSE y[j - Len(x)]
  BY ConcatProperties
<1>2. /\ Len(x) \in Nat /\ Len(y) \in Nat
      /\ DOMAIN z = 1 .. Len(z) /\ DOMAIN x = 1 .. Len(x)
  BY <1>1, LenProperties
<1>3. ASSUME NEW j \in 1 .. Len(y) PROVE z[Len(x) + j] = y[j]
  <2>1. /\ Len(x) + j \in 1 .. Len(x) + Len(y) /\ ~(Len(x) + j <= Len(x))
        /\ (Len(x) + j) - Len(x) = j
    BY <1>2
  <2> QED
    BY <1>1, <2>1
<1>4. ASSUME NEW j \in 1 .. Len(x) PROVE z[j] = x[j]
  BY <1>1, <1>2
<1> QED
  BY <1>1, <1>2, <1>3, <1>4

\* A request sent points behind all that was asked for before.
LEMMA SentOK ==
    ASSUME NEW t \in Link, NEW m \in Message, NEW r \in Sent(t, m),
           NEW q \in 0 .. Len(t.asked), ComingOK(t, q), AnsweredOK(t, q)
    PROVE  /\ q \in 0 .. Len(r.asked) /\ ComingOK(r, q) /\ AnsweredOK(r, q)
           /\ \A b : AskedAt(t, q, b) => AskedAt(r, q, b)
<1> DEFINE old == Coming(t)
           new == Coming(r)
           N == Len(t.asked)
<1>1. /\ t.up \in Seq(Half) /\ t.late \in Seq(Half) /\ t.asked \in Seq(0 .. BlockCount)
      /\ m.block \in 0 .. BlockCount /\ N \in Nat /\ old \in Seq(Half)
  BY LinkFields, ComingType DEF Message
<1>2. CASE r = t
  BY <1>2
<1>3. CASE r # t
  <2>1. /\ r.asked = Append(t.asked, m.block) /\ r.answered = t.answered
        /\ \/ t.late # << >> /\ r.up = t.up /\ r.late = t.late \o Halves(m)
           \/ t.late = << >> /\ r.up = t.up \o Halves(m) /\ r.late = t.late
           \/ /\ t.late = << >> /\ r.up = Append(t.up, Halves(m)[1])
              /\ r.late = << Halves(m)[2] >>
    BY <1>3 DEF Sent, Link
  <2>2. /\ Len(r.asked) = N + 1 /\ r.asked[N + 1] = m.block
        /\ \A j \in 1 .. N : r.asked[j] = t.asked[j]
        /\ DOMAIN r.asked = 1 .. N + 1 /\ DOMAIN t.asked = 1 .. N
    <3>1. /\ Append(t.asked, m.block) \in Seq(0 .. BlockCount)
          /\ Len(Append(t.asked, m.block)) = N + 1
          /\ \A j \in 1 .. N : Append(t.asked, m.block)[j] = t.asked[j]
          /\ Append(t.asked, m.block)[N + 1] = m.block
      BY <1>1, AppendProperties
    <3> QED
      BY <1>1, <2>1, <3>1, LenProperties
  <2>3. new = old \o Halves(m)
    <3> DEFINE H == Halves(m)
    <3>1. H \in Seq(Half) /\ H[1] \in Half /\ H[2] \in Half /\ H = << H[1], H[2] >>
      BY HalvesType DEF Halves
    <3> HIDE DEF H
    <3>2. CASE t.late # << >> /\ r.up = t.up /\ r.late = t.late \o H
      <4>1. t.up \o (t.late \o H) = (t.up \o t.late) \o H
        <5> DEFINE up == t.up
                   late == t.late
        <5>1. up \in Seq(Half) /\ late \in Seq(Half) /\ H \in Seq(Half)
          BY <1>1, <3>1
        <5> HIDE DEF up, late
        <5>2. (up \o late) \o H = up \o (late \o H)
          BY <5>1, ConcatAssociative
        <5> QED
          BY <5>2 DEF up, late
      <4> QED
        BY <3>2, <4>1 DEF Coming, H
    <3>3. CASE t.late = << >> /\ r.up = t.up \o H /\ r.late = t.late
      <4>1. (t.up \o H) \o << >> = (t.up \o << >>) \o H
        BY <1>1, <3>1
      <4> QED
        BY <3>3, <4>1 DEF Coming, H
    <3>4. CASE t.late = << >> /\ r.up = Append(t.up, H[1]) /\ r.late = << H[2] >>
      <4>1. Append(t.up, H[1]) \o << H[2] >> = (t.up \o << >>) \o << H[1], H[2] >>
        <5> DEFINE up == t.up
                   one == H[1]
                   two == H[2]
        <5>1. up \in Seq(Half) /\ one \in Half /\ two \in Half
          BY <1>1, <3>1
        <5> HIDE DEF up, one, two
        <5>2. Append(up, one) \o << two >> = (up \o << >>) \o << one, two >>
          BY <5>1
        <5> QED
          BY <5>2 DEF up, one, two
      <4> QED
        BY <3>1, <3>4, <4>1 DEF Coming, H
    <3> QED
      BY <2>1, <3>2, <3>3, <3>4 DEF H
  <2>4. /\ DOMAIN new = 1 .. Len(old) + 2 /\ DOMAIN old = 1 .. Len(old) /\ Len(old) \in Nat
        /\ \A j \in 1 .. Len(old) : new[j] = old[j]
        /\ \A j \in 1 .. Len(old) + 2 : j > Len(old) => new[j].msg = m
    <3> DEFINE H == Halves(m)
    <3>1. H \in Seq(Half) /\ Len(H) = 2 /\ H[1].msg = m /\ H[2].msg = m
      BY HalvesType DEF Halves
    <3>2. old \in Seq(Half) /\ new = old \o H
      BY <1>1, <2>3
    <3> HIDE DEF H, old, new
    <3>3. /\ Len(old) \in Nat /\ Len(new) = Len(old) + 2
          /\ DOMAIN new = 1 .. Len(new) /\ DOMAIN old = 1 .. Len(old)
          /\ \A j \in 1 .. Len(old) : new[j] = old[j]
          /\ \A j \in 1 .. 2 : new[Len(old) + j] = H[j]
      <4>1. H \in Seq(Half)
        BY <3>1
      <4>2. /\ Len(old) \in Nat /\ Len(new) = Len(old) + Len(H)
            /\ DOMAIN new = 1 .. Len(new) /\ DOMAIN old = 1 .. Len(old)
            /\ \A j \in 1 .. Len(old) : new[j] = old[j]
            /\ \A j \in 1 .. Len(H) : new[Len(old) + j] = H[j]
        BY <3>2, <4>1, Joined
      <4> QED
        BY <3>1, <4>2
    <3>4. ASSUME NEW j \in 1 .. Len(old) + 2, j > Len(old) PROVE new[j].msg = m
      <4>1. j = Len(old) + 1 \/ j = Len(old) + 2
        BY <3>3, <3>4
      <4>2. new[Len(old) + 1] = H[1] /\ new[Len(old) + 2] = H[2]
        BY <3>3
      <4> QED
        BY <3>1, <4>1, <4>2
    <3> QED
      BY <3>3, <3>4
  <2>5. PICK of \in [DOMAIN old -> DOMAIN t.asked] :
            \A n \in DOMAIN old :
                /\ q <= of[n]
                /\ \A h \in 1 .. n : of[h] <= of[n]
                /\ old[n].half = "head" => t.asked[of[n]] = old[n].msg.block
    BY DEF ComingOK
  <2> DEFINE newof == [n \in DOMAIN new |-> IF n <= Len(old) THEN of[n] ELSE N + 1]
  <2> HIDE DEF old, new, N
  <2>10. N \in Nat
    BY <1>1
  <2>6. ASSUME NEW n \in DOMAIN new
        PROVE  /\ newof[n] \in DOMAIN r.asked /\ q <= newof[n]
               /\ \A h \in 1 .. n : newof[h] <= newof[n]
               /\ new[n].half = "head" => r.asked[newof[n]] = new[n].msg.block
    <3>1. CASE n <= Len(old)
      <4>1. /\ n \in DOMAIN old /\ newof[n] = of[n] /\ of[n] \in 1 .. N /\ new[n] = old[n]
            /\ \A h \in 1 .. n : newof[h] = of[h]
        BY <2>2, <2>4, <2>5, <3>1
      <4>2. of[n] \in 1 .. N + 1 /\ r.asked[of[n]] = t.asked[of[n]]
        BY <2>2, <4>1, <2>10
      <4> QED
        BY <2>2, <2>5, <4>1, <4>2, Zenon
    <3>2. CASE ~(n <= Len(old))
      <4>1. newof[n] = N + 1 /\ new[n].msg = m
        BY <2>4, <3>2
      <4>2. ASSUME NEW h \in 1 .. n PROVE newof[h] <= N + 1
        <5>1. h \in DOMAIN new /\ (h <= Len(old) => h \in DOMAIN old)
          BY <2>4
        <5>2. h <= Len(old) => of[h] \in 1 .. N
          BY <2>2, <2>5, <5>1
        <5> QED
          BY <1>1, <5>1, <5>2
      <4>3. q <= N + 1
        BY <1>1 DEF N
      <4> QED
        BY <1>1, <2>2, <4>1, <4>2, <4>3
    <3> QED
      BY <3>1, <3>2
  <2>7. newof \in [DOMAIN new -> DOMAIN r.asked]
    BY <2>6
  <2> HIDE DEF newof
  <2>8. ComingOK(r, q)
    BY <2>6, <2>7 DEF ComingOK, new
  <2>9. AnsweredOK(r, q)
    <3>1. PICK was \in [DOMAIN t.answered -> DOMAIN t.asked] :
              \A n \in DOMAIN t.answered :
                  /\ was[n] <= q
                  /\ \A h \in 1 .. n : was[h] <= was[n]
                  /\ t.asked[was[n]] = t.answered[n]
      BY DEF AnsweredOK
    <3>2. was \in [DOMAIN r.answered -> DOMAIN r.asked]
      BY <1>1, <2>1, <2>2, <3>1
    <3>3. \A n \in DOMAIN r.answered : r.asked[was[n]] = r.answered[n]
      BY <2>1, <2>2, <3>1
    <3> QED
      BY <2>1, <3>1, <3>2, <3>3 DEF AnsweredOK
  <2>12. \A b : AskedAt(t, q, b) => AskedAt(r, q, b)
    BY <1>1, <2>2 DEF AskedAt
  <2>11. q \in 0 .. Len(r.asked)
    BY <1>1, <2>2 DEF N
  <2> QED
    BY <2>8, <2>9, <2>11, <2>12
<1> QED
  BY <1>2, <1>3

\* A message read is a request asked for, not before what was answered; what is read
\* across two requests is none.
LEMMA ReadOK ==
    ASSUME NEW t \in Link, NEW q \in 0 .. Len(t.asked), RecvResult(t) = "full",
           Acceptable(RecvMessage(t)), ComingOK(t, q), AnsweredOK(t, q)
    PROVE  \E p \in 0 .. Len(t.asked) :
              /\ AskedAt(Received(t), p, RecvMessage(t).block)
              /\ ComingOK(Received(t), p) /\ AnsweredOK(Received(t), p)
<1>1. /\ Len(t.up) >= 2 /\ t.up \in Seq(Half) /\ t.late \in Seq(Half)
      /\ t.asked \in Seq(0 .. BlockCount)
  BY LinkFields DEF RecvResult
<1>2. t.up[1].half = "head" /\ RecvMessage(t) = t.up[1].msg
  BY DEF RecvMessage, Acceptable, Garbage
<1> DEFINE old == Coming(t)
<1>3. old \in Seq(Half) /\ Len(old) >= 2 /\ old[1] = t.up[1]
  <2> DEFINE up == t.up
             late == t.late
  <2>1. old = up \o late /\ up \in Seq(Half) /\ late \in Seq(Half) /\ Len(up) >= 2
    BY <1>1 DEF Coming
  <2> HIDE DEF old, up, late
  <2>2. /\ old \in Seq(Half) /\ Len(up) \in Nat /\ Len(late) \in Nat
        /\ Len(old) = Len(up) + Len(late) /\ \A j \in 1 .. Len(up) : old[j] = up[j]
    BY <2>1, Joined
  <2>3. Len(old) >= 2 /\ old[1] = up[1]
    BY <2>1, <2>2
  <2> QED
    BY <2>2, <2>3 DEF up
<1>4. PICK of \in [DOMAIN old -> DOMAIN t.asked] :
          \A n \in DOMAIN old :
              /\ q <= of[n]
              /\ \A h \in 1 .. n : of[h] <= of[n]
              /\ old[n].half = "head" => t.asked[of[n]] = old[n].msg.block
  BY DEF ComingOK
<1> HIDE DEF old
<1>5. /\ 1 \in DOMAIN old /\ \A n \in DOMAIN old : n \in Nat /\ 1 \in 1 .. n
      /\ Len(t.asked) \in Nat /\ DOMAIN t.asked = 1 .. Len(t.asked)
  BY <1>1, <1>3, LenProperties
<1> DEFINE p == of[1]
<1>6. p \in DOMAIN t.asked /\ q <= p /\ \A n \in DOMAIN old : p <= of[n]
  BY <1>4, <1>5
<1>7. t.asked[p] = RecvMessage(t).block
  BY <1>2, <1>3, <1>4, <1>5
<1> HIDE DEF p
<1>8. ComingOK(t, p)
  BY <1>4, <1>6 DEF ComingOK, old
<1>9. AnsweredOK(t, p)
  <2>1. PICK was \in [DOMAIN t.answered -> DOMAIN t.asked] :
            \A n \in DOMAIN t.answered :
                /\ was[n] <= q
                /\ \A h \in 1 .. n : was[h] <= was[n]
                /\ t.asked[was[n]] = t.answered[n]
    BY DEF AnsweredOK
  <2>2. ASSUME NEW n \in DOMAIN t.answered PROVE was[n] <= p
    <3>1. was[n] \in 1 .. Len(t.asked) /\ was[n] <= q
      BY <1>5, <2>1
    <3> QED
      BY <1>5, <1>6, <3>1
  <2> QED
    BY <2>1, <2>2 DEF AnsweredOK
<1>10. Later(Received(t), t)
  BY LaterLinks
<1>11. Received(t).asked = t.asked
  BY <1>10 DEF Later
<1>12. AskedAt(Received(t), p, RecvMessage(t).block) /\ p \in 0 .. Len(t.asked)
  BY <1>5, <1>6, <1>7, <1>11 DEF AskedAt
<1> QED
  BY <1>8, <1>9, <1>10, <1>12, LaterOK

\* An answer to the request at q comes after those answered before.
LEMMA AnswerOK ==
    ASSUME NEW t \in Link, NEW units, NEW n, NEW q \in 0 .. Len(t.asked), NEW b,
           AskedAt(t, q, b), ComingOK(t, q), AnsweredOK(t, q)
    PROVE  LET r == SendAll(t, units, n, b)
           IN  r.asked = t.asked /\ ComingOK(r, q) /\ AnsweredOK(r, q)
<1> DEFINE w == Written(t, SubSeq(units, 1, n))
           r == SendAll(t, units, n, b)
<1>1. Later(w, t)
  BY LaterLinks
<1>2. ComingOK(w, q) /\ AnsweredOK(w, q) /\ w.asked = t.asked /\ w.answered = t.answered
  BY <1>1, LaterOK DEF Later
<1>3. /\ r.asked = w.asked /\ r.up = w.up /\ r.late = w.late
      /\ r.answered = IF t.cli = "open" THEN Append(w.answered, b) ELSE w.answered
  BY DEF SendAll, Written, Link
<1> HIDE DEF w, r
<1>4. ComingOK(r, q)
  <2>1. Coming(r) = Coming(w)
    BY <1>3 DEF Coming
  <2>2. PICK of \in [DOMAIN Coming(w) -> DOMAIN w.asked] :
            \A h \in DOMAIN Coming(w) :
                /\ q <= of[h]
                /\ \A g \in 1 .. h : of[g] <= of[h]
                /\ Coming(w)[h].half = "head" => w.asked[of[h]] = Coming(w)[h].msg.block
    BY <1>2, Zenon DEF ComingOK
  <2>3. of \in [DOMAIN Coming(r) -> DOMAIN r.asked]
    BY <1>3, <2>1, <2>2
  <2>4. \A h \in DOMAIN Coming(r) :
            /\ q <= of[h]
            /\ \A g \in 1 .. h : of[g] <= of[h]
            /\ Coming(r)[h].half = "head" => r.asked[of[h]] = Coming(r)[h].msg.block
    BY <1>3, <2>1, <2>2
  <2> QED
    BY <2>3, <2>4, Zenon DEF ComingOK
<1>5. AnsweredOK(r, q)
  <2>1. CASE r.answered = w.answered
    <3>1. PICK of \in [DOMAIN w.answered -> DOMAIN w.asked] :
              \A h \in DOMAIN w.answered :
                  /\ of[h] <= q
                  /\ \A g \in 1 .. h : of[g] <= of[h]
                  /\ w.asked[of[h]] = w.answered[h]
      BY <1>2, Zenon DEF AnsweredOK
    <3>2. of \in [DOMAIN r.answered -> DOMAIN r.asked]
      BY <1>3, <2>1, <3>1
    <3>3. \A h \in DOMAIN r.answered :
              /\ of[h] <= q
              /\ \A g \in 1 .. h : of[g] <= of[h]
              /\ r.asked[of[h]] = r.answered[h]
      BY <1>3, <2>1, <3>1
    <3> QED
      BY <3>2, <3>3, Zenon DEF AnsweredOK
  <2>2. CASE r.answered = Append(t.answered, b)
    <3> DEFINE N == Len(t.answered)
    <3>1. /\ t.answered \in Seq(0 .. BlockCount) /\ t.asked \in Seq(0 .. BlockCount)
          /\ q \in DOMAIN t.asked /\ t.asked[q] = b
      BY LinkFields DEF AskedAt
    <3>2. b \in 0 .. BlockCount
      BY <3>1, InSeq
    <3>3. /\ DOMAIN r.answered = 1 .. N + 1 /\ DOMAIN t.answered = 1 .. N /\ N \in Nat
          /\ r.answered[N + 1] = b
          /\ \A j \in 1 .. N : r.answered[j] = t.answered[j]
      <4>1. /\ r.answered \in Seq(0 .. BlockCount) /\ Len(r.answered) = N + 1
            /\ r.answered[N + 1] = b
            /\ \A j \in 1 .. N : r.answered[j] = t.answered[j]
        BY <2>2, <3>1, <3>2, AppendProperties
      <4> QED
        BY <3>1, <4>1, LenProperties
    <3>4. PICK of \in [DOMAIN t.answered -> DOMAIN t.asked] :
              \A j \in DOMAIN t.answered :
                  /\ of[j] <= q
                  /\ \A h \in 1 .. j : of[h] <= of[j]
                  /\ t.asked[of[j]] = t.answered[j]
      BY DEF AnsweredOK
    <3> DEFINE newof == [j \in DOMAIN r.answered |-> IF j <= N THEN of[j] ELSE q]
    <3> HIDE DEF N
    <3>5. ASSUME NEW j \in DOMAIN r.answered
          PROVE  /\ newof[j] \in DOMAIN r.asked /\ newof[j] <= q
                 /\ \A h \in 1 .. j : newof[h] <= newof[j]
                 /\ r.asked[newof[j]] = r.answered[j]
      <4>1. q <= q
        OBVIOUS
      <4>2. CASE j <= N
        <5>1. /\ j \in DOMAIN t.answered /\ newof[j] = of[j]
              /\ \A h \in 1 .. j : newof[h] = of[h]
          BY <3>3, <4>2
        <5> QED
          BY <1>2, <1>3, <3>3, <3>4, <4>2, <5>1
      <4>3. CASE ~(j <= N)
        <5>1. j = N + 1 /\ newof[j] = q
          BY <3>3, <4>3
        <5>2. ASSUME NEW h \in 1 .. j PROVE newof[h] <= q
          <6>1. h \in DOMAIN r.answered /\ (h <= N => h \in DOMAIN t.answered)
            BY <3>3, <5>1
          <6> QED
            BY <3>4, <4>1, <6>1
        <5> QED
          BY <1>2, <1>3, <3>1, <3>3, <4>1, <5>1, <5>2
      <4> QED
        BY <4>2, <4>3
    <3>6. newof \in [DOMAIN r.answered -> DOMAIN r.asked]
      BY <3>5
    <3> HIDE DEF newof
    <3> QED
      BY <3>5, <3>6 DEF AnsweredOK
  <2> QED
    BY <1>2, <1>3, <2>1, <2>2
<1> QED
  BY <1>2, <1>3, <1>4, <1>5 DEF r

----------------------------------------------------------------------------
(* Descriptors and connections.                                             *)

\* What a call makes of a connection that has its ends in order.
LEMMA EndsKept ==
    ASSUME NEW t \in Link, t.cli = "none" => t.srv = "none"
    PROVE  /\ \A r \in {Received(t), ClosedByClient(t), [t EXCEPT !.down = << >>]} :
                  r.srv = t.srv /\ (r.cli = "none" => r.srv = "none")
           /\ Arrived(t).srv = t.srv /\ (Arrived(t).cli = "none" => t.srv = "none")
           /\ \A units, n, b : /\ SendAll(t, units, n, b).srv = t.srv
                               /\ SendAll(t, units, n, b).cli = "none" => t.srv = "none"
           /\ \A m \in Message : \A r \in Sent(t, m) :
                  r.srv = t.srv /\ (r.cli = "none" => r.srv = "none")
<1>1. \A r \in {Received(t), ClosedByClient(t), [t EXCEPT !.down = << >>]} :
          r.srv = t.srv /\ (r.cli = "none" => r.srv = "none")
  BY DEF Received, ClosedByClient, Link
<1>2. Arrived(t).srv = t.srv /\ (Arrived(t).cli = "none" => t.srv = "none")
  BY DEF Arrived, Link
<1>3. ASSUME NEW units, NEW n, NEW b
      PROVE  /\ SendAll(t, units, n, b).srv = t.srv
             /\ SendAll(t, units, n, b).cli = "none" => t.srv = "none"
  <2> DEFINE w == Written(t, SubSeq(units, 1, n))
             r == SendAll(t, units, n, b)
  <2>1. w.srv = t.srv /\ (w.cli = "none" => t.cli = "none")
    BY DEF Written, Link
  <2>2. r.srv = w.srv /\ r.cli = w.cli
    BY DEF SendAll, Written, Link
  <2> HIDE DEF w, r
  <2>3. r.srv = t.srv /\ (r.cli = "none" => t.srv = "none")
    BY <2>1, <2>2
  <2> QED
    BY <2>3 DEF r
<1>4. ASSUME NEW m \in Message, NEW r \in Sent(t, m)
      PROVE  r.srv = t.srv /\ (r.cli = "none" => r.srv = "none")
  BY DEF Sent, Link
<1> QED
  BY <1>1, <1>2, <1>3, <1>4

\* A step that gives no descriptor another connection and closes none that has one.
LEMMA SockFrame ==
    ASSUME SockOK, sock' = sock,
           \A k \in Conns : /\ net[k].srv = "open" => net'[k].srv = "open"
                            /\ net'[k].cli = "none" => net'[k].srv = "none",
           TypeOK
    PROVE  SockOK'
<1>1. \A f \in Fds : sock[f] # NoConn => sock[f] \in Conns
  BY DEF TypeOK
<1> QED
  BY <1>1 DEF SockOK

\* One connection updated, its accepting end left alone.
LEMMA SockUpdate ==
    ASSUME TypeOK, SockOK, sock' = sock, NEW k, NEW link,
           net' = [net EXCEPT ![k] = link],
           k \in Conns => link.srv = net[k].srv /\ (link.cli = "none" => link.srv = "none")
    PROVE  SockOK'
<1>1. ASSUME NEW j \in Conns
      PROVE  /\ net[j].srv = "open" => net'[j].srv = "open"
             /\ net'[j].cli = "none" => net'[j].srv = "none"
  <2>1. CASE j = k
    BY <2>1 DEF TypeOK
  <2>2. CASE j # k
    BY <2>2 DEF TypeOK, SockOK
  <2> QED
    BY <2>1, <2>2
<1> QED
  BY <1>1, SockFrame

\* The end of the process leaves no descriptor.
LEMMA ExitSock == ASSUME TypeOK, SockOK, NEW how, Exit(how) PROVE SockOK'
<1>1. \A f \in Fds : sock'[f] = NoConn
  BY DEF Exit
<1>2. ASSUME NEW k \in Conns, net'[k].cli = "none" PROVE net'[k].srv = "none"
  <2>1. net[k] \in Link
    BY DEF TypeOK
  <2>2. net'[k] = IF net[k].srv \in {"queued", "open"} THEN ClosedByServer(net[k]) ELSE net[k]
    BY DEF Exit
  <2>3. ClosedByServer(net[k]).cli = net[k].cli
    BY <2>1 DEF ClosedByServer, Link
  <2>4. net[k].cli = "none"
    BY <1>2, <2>2, <2>3
  <2>5. net[k].srv = "none"
    BY <2>4 DEF SockOK
  <2> QED
    BY <2>2, <2>5
<1> QED
  BY <1>1, <1>2 DEF SockOK

\* A connection accepted gets a descriptor that was free.
LEMMA AcceptedSock ==
    ASSUME TypeOK, SockOK, NEW k \in Conns, net[k].srv = "queued",
           NEW f \in Fds, sock[f] = NoConn, sock' = [sock EXCEPT ![f] = k],
           net' = [net EXCEPT ![k] = Accepted(@)]
    PROVE  SockOK'
<1>1. /\ net[k] \in Link /\ \A j \in Conns : net'[j] = IF j = k THEN Accepted(net[k]) ELSE net[j]
      /\ \A g \in Fds : sock'[g] = IF g = f THEN k ELSE sock[g]
  BY DEF TypeOK
<1>2. /\ Accepted(net[k]).srv = "open" /\ Accepted(net[k]).cli = net[k].cli
      /\ net[k].cli # "none"
  BY <1>1 DEF Accepted, Link, SockOK
<1>3. \A g \in Fds : sock[g] # NoConn => sock[g] \in Conns /\ sock[g] # k
  BY DEF SockOK, TypeOK
<1>4. \A j \in Conns : net'[j].cli = "none" => net'[j].srv = "none"
  BY <1>1, <1>2 DEF SockOK
<1>5. ASSUME NEW g \in Fds, sock'[g] # NoConn
      PROVE  net'[sock'[g]].srv = "open" /\ \A h \in Fds : sock'[h] = sock'[g] => h = g
  <2>1. CASE g = f
    BY <1>1, <1>2, <1>3, <2>1, Constants
  <2>2. CASE g # f
    BY <1>1, <1>3, <1>5, <2>2 DEF SockOK
  <2> QED
    BY <2>1, <2>2
<1> QED
  BY <1>4, <1>5 DEF SockOK

\* A removal, or the failure in it, leaves the others their connections.
LEMMA RemovedSock ==
    ASSUME TypeOK, SockOK, NEW f \in Fds, NEW slots, RemoveClient(f, slots)
    PROVE  SockOK'
<1>1. CASE \E how : Exit(how)
  BY <1>1, ExitSock
<1>2. CASE ~(\E how : Exit(how))
  <2>1. /\ sock' = [sock EXCEPT ![f] = NoConn]
        /\ net' = [net EXCEPT ![sock[f]] = ClosedByServer(@)]
    BY <1>2 DEF RemoveClient
  <2>2. /\ \A g \in Fds : sock'[g] = IF g = f THEN NoConn ELSE sock[g]
        /\ \A j \in Conns : net'[j] = IF j = sock[f] THEN ClosedByServer(net[j]) ELSE net[j]
        /\ \A j \in Conns : net[j] \in Link
    BY <2>1 DEF TypeOK
  <2>3. \A j \in Conns : ClosedByServer(net[j]).cli = net[j].cli
    BY <2>2 DEF ClosedByServer, Link
  <2>4. ASSUME NEW j \in Conns, net'[j].cli = "none" PROVE net'[j].srv = "none"
    <3>1. net[j].srv = "none"
      BY <2>2, <2>3, <2>4 DEF SockOK
    <3>2. CASE j # sock[f]
      BY <2>2, <3>1, <3>2
    <3>3. CASE j = sock[f]
      BY <3>1, <3>3, Constants DEF SockOK
    <3> QED
      BY <3>2, <3>3
  <2>5. ASSUME NEW g \in Fds, sock'[g] # NoConn
        PROVE  net'[sock'[g]].srv = "open" /\ \A h \in Fds : sock'[h] = sock'[g] => h = g
    <3>1. g # f /\ sock'[g] = sock[g] /\ sock[g] \in Conns
      BY <2>2, <2>5 DEF TypeOK
    <3>2. sock[g] # sock[f]
      BY <2>2, <2>5, <3>1 DEF SockOK
    <3> QED
      BY <2>2, <2>5, <3>1, <3>2 DEF SockOK
  <2> QED
    BY <2>4, <2>5 DEF SockOK
<1> QED
  BY <1>1, <1>2

----------------------------------------------------------------------------
(* The steps that only lose messages and requests.                          *)

\* The messages kept are never more than those of descriptors nothing happened to.
LEMMA KeptFewer ==
    ASSUME TypeOK,
           \A g \in Fds : sock'[g] # NoConn /\ rcv'[g] # NoMsg =>
                             sock'[g] = sock[g] /\ rcv'[g] = rcv[g],
           NEW k \in Conns
    PROVE  Kept(k)' \subseteq Kept(k)
<1>1. k # NoConn
  BY Constants
<1> QED
  BY <1>1 DEF Kept

\* A connection that lost what it lost keeps its division.
LEMMA DividedStays ==
    ASSUME TypeOK, NEW k \in Conns, NEW q \in 0 .. Len(net[k].asked), DividedAt(k, q),
           Later(net'[k], net[k]), Kept(k)' \subseteq Kept(k)
    PROVE  q \in 0 .. Len(net'[k].asked) /\ DividedAt(k, q)'
<1>1. net[k] \in Link /\ ComingOK(net[k], q) /\ AnsweredOK(net[k], q)
  BY DEF TypeOK, DividedAt
<1>2. ComingOK(net'[k], q) /\ AnsweredOK(net'[k], q)
  BY <1>1, LaterOK
<1>3. net'[k].asked = net[k].asked
  BY DEF Later
<1>4. \A m \in Kept(k)' : AskedAt(net'[k], q, m.block)
  <2>1. \A m \in Kept(k) : AskedAt(net[k], q, m.block)
    BY DEF DividedAt
  <2>2. \A b : AskedAt(net[k], q, b) => AskedAt(net'[k], q, b)
    BY <1>3 DEF AskedAt
  <2> QED
    BY <2>1, <2>2
<1> QED
  BY <1>2, <1>3, <1>4 DEF DividedAt

\* A step that only loses messages and requests keeps every division.
LEMMA OrderFrame ==
    ASSUME TypeOK, OrderOK, \A k \in Conns : Later(net'[k], net[k]),
           \A g \in Fds : sock'[g] # NoConn /\ rcv'[g] # NoMsg =>
                             sock'[g] = sock[g] /\ rcv'[g] = rcv[g]
    PROVE  OrderOK'
<1> SUFFICES ASSUME NEW k \in Conns
             PROVE  \E q \in 0 .. Len(net'[k].asked) : DividedAt(k, q)'
  BY DEF OrderOK
<1>1. PICK q \in 0 .. Len(net[k].asked) : DividedAt(k, q)
  BY DEF OrderOK
<1>2. Kept(k)' \subseteq Kept(k)
  BY KeptFewer
<1> QED
  BY <1>1, <1>2, DividedStays

\* One connection updated to a later one, the messages and descriptors left alone.
LEMMA OrderUpdate ==
    ASSUME TypeOK, OrderOK, sock' = sock, d' = d, NEW k, NEW link,
           net' = [net EXCEPT ![k] = link], k \in Conns => Later(link, net[k])
    PROVE  OrderOK'
<1>1. ASSUME NEW j \in Conns PROVE Later(net'[j], net[j])
  <2>1. net[j] \in Link
    BY DEF TypeOK
  <2>2. CASE j = k
    BY <2>2 DEF TypeOK
  <2>3. CASE j # k
    <3>1. net'[j] = net[j]
      BY <2>3 DEF TypeOK
    <3> QED
      BY <2>1, <3>1, LaterLinks
  <2> QED
    BY <2>2, <2>3
<1>2. rcv' = rcv
  BY DEF rcv
<1> QED
  BY <1>1, <1>2, OrderFrame

\* The end of the process.
LEMMA ExitOrder == ASSUME TypeOK, OrderOK, NEW how, Exit(how) PROVE OrderOK'
<1>1. \A g \in Fds : sock'[g] = NoConn
  BY DEF Exit
<1>2. ASSUME NEW k \in Conns PROVE Later(net'[k], net[k])
  <2>1. net[k] \in Link /\ net'[k] \in {ClosedByServer(net[k]), net[k]}
    BY DEF Exit, TypeOK
  <2> QED
    BY <2>1, LaterLinks
<1> QED
  BY <1>1, <1>2, OrderFrame

\* A connection accepted: a free descriptor has no message.
LEMMA AcceptedOrder ==
    ASSUME TypeOK, ArrayInv, pc = "scan", OrderOK, NEW k \in Conns,
           NEW f \in Fds, sock[f] = NoConn, sock' = [sock EXCEPT ![f] = k], d' = d,
           net' = [net EXCEPT ![k] = Accepted(@)]
    PROVE  OrderOK'
<1>1. rcv' = rcv /\ rcv[f] = NoMsg
  <2>1. EntriesOK /\ MessagesOK
    BY DEF ArrayInv
  <2> QED
    BY <2>1, PolledIsOpen DEF rcv, MessagesOK
<1>2. \A g \in Fds : sock'[g] # NoConn /\ rcv'[g] # NoMsg =>
                         sock'[g] = sock[g] /\ rcv'[g] = rcv[g]
  BY <1>1 DEF TypeOK
<1>3. ASSUME NEW j \in Conns PROVE Later(net'[j], net[j])
  <2>1. net[j] \in Link /\ net'[j] \in {Accepted(net[j]), net[j]}
    BY DEF TypeOK
  <2> QED
    BY <2>1, LaterLinks
<1> QED
  BY <1>2, <1>3, OrderFrame

\* A removal, or the failure in it.
LEMMA RemovedOrder ==
    ASSUME TypeOK, ArrayInv, OrderOK, NEW f \in Fds, NEW slots, RemoveClient(f, slots)
    PROVE  OrderOK'
<1>1. CASE \E how : Exit(how)
  BY <1>1, ExitOrder
<1>2. CASE ~(\E how : Exit(how))
  <2>1. /\ sock' = [sock EXCEPT ![f] = NoConn] /\ d' = RcvRemove(d, f)
        /\ net' = [net EXCEPT ![sock[f]] = ClosedByServer(@)]
    BY <1>2 DEF RemoveClient
  <2>2. rcv' = [rcv EXCEPT ![f] = NoMsg] /\ rcv \in [Fds -> Message \cup {NoMsg}]
    BY <2>1, RcvRemoved, RcvType DEF ArrayInv, MemoryOK, TypeOK
  <2>3. \A g \in Fds : sock'[g] # NoConn /\ rcv'[g] # NoMsg =>
                           sock'[g] = sock[g] /\ rcv'[g] = rcv[g]
    BY <2>1, <2>2 DEF TypeOK
  <2>4. ASSUME NEW j \in Conns PROVE Later(net'[j], net[j])
    <3>1. net[j] \in Link /\ net'[j] \in {ClosedByServer(net[j]), net[j]}
      BY <2>1 DEF TypeOK
    <3> QED
      BY <3>1, LaterLinks
  <2> QED
    BY <2>3, <2>4, OrderFrame
<1> QED
  BY <1>1, <1>2

----------------------------------------------------------------------------
(* The steps that move a division: a message stored, an answer, a request.  *)

\* A message read for a connection takes the place of the one kept, and moves the
\* division forward to the request it is.
LEMMA StoredOrder ==
    ASSUME TypeOK, ArrayInv, OrderOK, SockOK, NEW f \in Fds, StoresMessage(f)
    PROVE  OrderOK'
<1>0. PICK k \in Conns : sock[f] = k
  BY DEF StoresMessage, TypeOK
<1> DEFINE t == net[k]
           m == RecvMessage(t)
<1>1. /\ k \in Conns /\ t \in Link /\ RecvResult(t) = "full"
      /\ d' = RcvAdd(d, f, m) \/ d' = d
      /\ net' = [net EXCEPT ![k] = Received(@)] /\ sock' = sock
  BY <1>0 DEF StoresMessage, TypeOK
<1>2. Later(Received(t), t)
  BY <1>1, LaterLinks
<1> HIDE DEF t, m
<1>3. CASE d' = d
  <2>1. Later(Received(net[k]), net[k])
    BY <1>2 DEF t
  <2>2. net' = [net EXCEPT ![k] = Received(net[k])]
    BY <1>1
  <2> QED
    BY <1>1, <1>3, <2>1, <2>2, OrderUpdate
<1>4. CASE d' = RcvAdd(d, f, m)
  <2>1. rcv' = [rcv EXCEPT ![f] = m] /\ rcv \in [Fds -> Message \cup {NoMsg}]
    <3>1. m \in Message
      BY <1>1, RecvMessageType DEF m
    <3> QED
      BY <1>4, <3>1, RcvAdded, RcvType DEF ArrayInv, MemoryOK, TypeOK
  <2>2. ASSUME NEW j \in Conns, j # k
        PROVE  net'[j] = net[j] /\ Kept(j)' \subseteq Kept(j)
    <3>1. net'[j] = net[j]
      BY <1>1, <2>2 DEF TypeOK
    <3>2. \A g \in Fds : sock'[g] = j => sock[g] = j /\ rcv'[g] = rcv[g]
      BY <1>0, <1>1, <2>1, <2>2
    <3> QED
      BY <3>1, <3>2 DEF Kept
  <2>3. \A n \in Kept(k)' : n = m /\ Acceptable(m)
    <3>1. \A g \in Fds : sock'[g] = k => g = f
      BY <1>0, <1>1, Constants DEF SockOK
    <3>2. rcv'[f] = m
      BY <2>1
    <3> QED
      BY <3>1, <3>2 DEF Kept
  <2>4. net'[k] = Received(t)
    BY <1>1 DEF t, TypeOK
  <2> SUFFICES ASSUME NEW j \in Conns
               PROVE  \E q \in 0 .. Len(net'[j].asked) : DividedAt(j, q)'
    BY DEF OrderOK
  <2>5. PICK q \in 0 .. Len(net[j].asked) : DividedAt(j, q)
    BY DEF OrderOK
  <2>6. CASE j # k
    <3>1. Later(net'[j], net[j])
      BY <2>2, <2>6, LaterLinks DEF TypeOK
    <3> QED
      BY <2>2, <2>5, <2>6, <3>1, DividedStays
  <2>7. CASE j = k /\ ~Acceptable(m)
    <3>1. Kept(j)' \subseteq Kept(j)
      BY <2>3, <2>7
    <3>2. Later(net'[j], net[j])
      BY <1>2, <2>4, <2>7 DEF t
    <3> QED
      BY <2>5, <3>1, <3>2, DividedStays
  <2>8. CASE j = k /\ Acceptable(m)
    <3>1. net[j] = t /\ net'[j] = Received(t)
      BY <2>4, <2>8 DEF t
    <3>2. q \in 0 .. Len(t.asked) /\ ComingOK(t, q) /\ AnsweredOK(t, q)
      BY <2>5, <3>1 DEF DividedAt
    <3>3. Acceptable(RecvMessage(t))
      BY <2>8 DEF m
    <3>4. PICK p \in 0 .. Len(t.asked) :
              /\ AskedAt(Received(t), p, RecvMessage(t).block)
              /\ ComingOK(Received(t), p) /\ AnsweredOK(Received(t), p)
      BY <1>1, <3>2, <3>3, ReadOK
    <3>5. Received(t).asked = t.asked
      BY <1>2 DEF Later
    <3>6. \A n \in Kept(j)' : AskedAt(net'[j], p, n.block)
      BY <2>3, <2>8, <3>1, <3>4 DEF m
    <3>7. DividedAt(j, p)'
      BY <3>1, <3>4, <3>6 DEF DividedAt
    <3> QED
      BY <3>1, <3>5, <3>7
  <2> QED
    BY <2>6, <2>7, <2>8
<1> QED
  BY <1>1, <1>3, <1>4

\* The answer is to the message kept, the request at the division.
LEMMA RespondedOrder ==
    ASSUME TypeOK, OrderOK, NEW f \in Fds, rcv[f] # NoMsg, Acceptable(rcv[f]),
           sock[f] # NoConn, NEW units, Responds(f, units)
    PROVE  OrderOK'
<1>0. PICK k \in Conns : sock[f] = k
  BY DEF TypeOK
<1>1. PICK n : net' = [net EXCEPT ![k] = SendAll(@, units, n, rcv[f].block)]
  BY <1>0 DEF Responds
<1>2. sock' = sock /\ rcv' = rcv
  BY DEF Responds, rcv
<1> SUFFICES ASSUME NEW j \in Conns
             PROVE  \E q \in 0 .. Len(net'[j].asked) : DividedAt(j, q)'
  BY DEF OrderOK
<1>3. PICK q \in 0 .. Len(net[j].asked) : DividedAt(j, q)
  BY DEF OrderOK
<1>4. Kept(j)' = Kept(j)
  BY <1>2 DEF Kept
<1>5. CASE j # k
  <2>1. Later(net'[j], net[j])
    BY <1>1, <1>5, LaterLinks DEF TypeOK
  <2> QED
    BY <1>3, <1>4, <2>1, DividedStays
<1>6. CASE j = k
  <2> DEFINE t == net[j]
             b == rcv[f].block
             r == SendAll(t, units, n, b)
  <2>1. t \in Link /\ net'[j] = r
    BY <1>1, <1>6 DEF TypeOK
  <2>2. rcv[f] \in Kept(j)
    BY <1>0, <1>6 DEF Kept
  <2>3. /\ q \in 0 .. Len(t.asked) /\ AskedAt(t, q, b)
        /\ ComingOK(t, q) /\ AnsweredOK(t, q)
    BY <1>3, <2>2 DEF DividedAt
  <2> HIDE DEF t, b
  <2>4. r.asked = t.asked /\ ComingOK(r, q) /\ AnsweredOK(r, q)
    BY <2>1, <2>3, AnswerOK
  <2> HIDE DEF r
  <2>5. \A m \in Kept(j)' : AskedAt(r, q, m.block)
    BY <1>3, <1>4, <2>4 DEF DividedAt, AskedAt, t
  <2>6. DividedAt(j, q)'
    BY <2>1, <2>4, <2>5 DEF DividedAt
  <2> QED
    BY <2>1, <2>3, <2>4, <2>6
<1> QED
  BY <1>5, <1>6

\* A request sent.
LEMMA AskedOrder ==
    ASSUME TypeOK, OrderOK, NEW k \in Conns, NEW m \in Message, NEW r \in Sent(net[k], m),
           Update(k, r)
    PROVE  OrderOK'
<1>1. net' = [net EXCEPT ![k] = r] /\ sock' = sock /\ rcv' = rcv
  BY DEF Update, serverVars, rcv
<1> SUFFICES ASSUME NEW j \in Conns
             PROVE  \E q \in 0 .. Len(net'[j].asked) : DividedAt(j, q)'
  BY DEF OrderOK
<1>2. PICK q \in 0 .. Len(net[j].asked) : DividedAt(j, q)
  BY DEF OrderOK
<1>3. Kept(j)' = Kept(j)
  BY <1>1 DEF Kept
<1>4. CASE j # k
  <2>1. Later(net'[j], net[j])
    BY <1>1, <1>4, LaterLinks DEF TypeOK
  <2> QED
    BY <1>2, <1>3, <2>1, DividedStays
<1>5. CASE j = k
  <2> DEFINE t == net[j]
  <2>1. t \in Link /\ net'[j] = r /\ r \in Sent(t, m)
    BY <1>1, <1>5 DEF TypeOK
  <2>2. q \in 0 .. Len(t.asked) /\ ComingOK(t, q) /\ AnsweredOK(t, q)
    BY <1>2 DEF DividedAt
  <2>3. \A n \in Kept(j) : AskedAt(t, q, n.block)
    BY <1>2 DEF DividedAt
  <2> HIDE DEF t
  <2>4. /\ q \in 0 .. Len(r.asked) /\ ComingOK(r, q) /\ AnsweredOK(r, q)
        /\ \A b : AskedAt(t, q, b) => AskedAt(r, q, b)
    BY <2>1, <2>2, SentOK
  <2>5. \A n \in Kept(j)' : AskedAt(r, q, n.block)
    BY <1>3, <2>3, <2>4
  <2>6. DividedAt(j, q)'
    BY <2>1, <2>4, <2>5 DEF DividedAt
  <2> QED
    BY <2>1, <2>4, <2>6
<1> QED
  BY <1>4, <1>5

----------------------------------------------------------------------------

OrderInv == OrderOK /\ SockOK

\* Every iteration of the server keeps the order.
LEMMA ServerNextOrder == ASSUME TypeOK, ArrayInv, OrderInv, ServerNext PROVE OrderInv'
<1> USE DEF OrderInv
<1>1. ASSUME sock' = sock, d' = d, net' = net PROVE OrderInv'
  <2>1. rcv' = rcv
    BY <1>1 DEF rcv
  <2>2. \A k \in Conns : Later(net'[k], net[k])
    BY <1>1, LaterLinks DEF TypeOK
  <2>3. OrderOK'
    BY <1>1, <2>1, <2>2, OrderFrame
  <2>4. SockOK'
    BY <1>1, SockFrame DEF SockOK
  <2> QED
    BY <2>3, <2>4
<1>2. ASSUME NEW how, Exit(how) PROVE OrderInv'
  BY <1>2, ExitOrder, ExitSock
<1>3. ASSUME NEW f \in Fds, NEW slots, RemoveClient(f, slots) PROVE OrderInv'
  BY <1>3, RemovedOrder, RemovedSock
<1>4. ASSUME NEW k \in Conns, Accepts(k) \/ AcceptsUnwatched(k) PROVE OrderInv'
  <2>1. PICK f \in Fds : f = LowestFreeFd /\ sock[f] = NoConn
    BY <1>4, FreeFdType DEF Accepts, AcceptsUnwatched
  <2>2. /\ pc = "scan" /\ net[k].srv = "queued" /\ d' = d
        /\ sock' = [sock EXCEPT ![f] = k] /\ net' = [net EXCEPT ![k] = Accepted(@)]
    BY <1>4, <2>1 DEF Accepts, AcceptsUnwatched, Visits, Backlog
  <2> QED
    BY <2>1, <2>2, AcceptedOrder, AcceptedSock
<1>5. ASSUME NEW f \in Fds, NEW r, sock[f] # NoConn, sock' = sock,
             net' = [net EXCEPT ![sock[f]] = r],
             r = Received(net[sock[f]]) \/ \E units, n, b : r = SendAll(net[sock[f]], units, n, b)
      PROVE  SockOK'
  <2>1. PICK k \in Conns : sock[f] = k
    BY <1>5 DEF TypeOK
  <2>2. net[k] \in Link /\ (net[k].cli = "none" => net[k].srv = "none")
    BY DEF TypeOK, SockOK
  <2>3. r.srv = net[k].srv /\ (r.cli = "none" => r.srv = "none")
    BY <1>5, <2>1, <2>2, EndsKept
  <2> QED
    BY <1>5, <2>1, <2>3, SockUpdate
<1>6. ASSUME NEW f \in Fds, StoresMessage(f) PROVE OrderInv'
  <2>1. SockOK'
    <3>1. /\ sock[f] # NoConn /\ sock' = sock
          /\ net' = [net EXCEPT ![sock[f]] = Received(net[sock[f]])]
      BY <1>6 DEF StoresMessage
    <3> QED
      BY <1>5, <3>1
  <2> QED
    BY <1>6, <2>1, StoredOrder
<1>7. ASSUME NEW f \in Fds, ReadFails(f) PROVE OrderInv'
  <2>1. CASE net' = net
    BY <1>1, <1>7, <2>1 DEF ReadFails
  <2>2. CASE net' # net
    <3>1. /\ sock[f] # NoConn /\ sock' = sock /\ d' = d
          /\ net' = [net EXCEPT ![sock[f]] = Received(net[sock[f]])]
      BY <1>7, <2>2 DEF ReadFails
    <3>2. SockOK'
      BY <1>5, <3>1
    <3>3. Later(Received(net[sock[f]]), net[sock[f]])
      BY <3>1, LaterLinks DEF TypeOK
    <3>4. OrderOK'
      BY <3>1, <3>3, OrderUpdate
    <3> QED
      BY <3>2, <3>4
  <2> QED
    BY <2>1, <2>2
<1>8. ASSUME NEW f \in Fds, RefusesBlock(f) \/ SendsBlock(f) PROVE OrderInv'
  <2>1. PICK units : Responds(f, units)
    BY <1>8 DEF RefusesBlock, SendsBlock
  <2>2. pc = "scan" /\ rcv[f] # NoMsg /\ Acceptable(rcv[f])
    BY <1>8 DEF RefusesBlock, SendsBlock, WritesTo, Visits
  <2>3. sock[f] # NoConn
    BY <2>2, PolledIsOpen DEF ArrayInv, MessagesOK
  <2>4. /\ sock' = sock
        /\ \E n : net' = [net EXCEPT ![sock[f]] =
                             SendAll(net[sock[f]], units, n, rcv[f].block)]
    BY <2>1 DEF Responds
  <2>5. SockOK'
    BY <1>5, <2>3, <2>4
  <2> QED
    BY <2>1, <2>2, <2>3, <2>5, RespondedOrder
<1>9. CASE AcceptStep
  BY <1>1, <1>4, <1>9 DEF AcceptStep, AcceptFails
<1>10. CASE ReadStep
  BY <1>3, <1>6, <1>7, <1>10 DEF ReadStep, ClientLeft
<1>11. CASE WriteStep
  <2>1. PICK f \in Fds : \/ NothingToAnswer(f) \/ DropsClient(f) \/ RefusesBlock(f)
                        \/ SendsBlock(f) \/ SendsNothing(f)
    BY <1>11 DEF WriteStep
  <2>2. CASE NothingToAnswer(f) \/ SendsNothing(f)
    BY <1>1, <2>2 DEF NothingToAnswer, SendsNothing
  <2>3. CASE DropsClient(f)
    BY <1>3, <2>3 DEF DropsClient
  <2> QED
    BY <1>8, <2>1, <2>2, <2>3
<1>12. CASE PollReturns \/ SkipEntry
  BY <1>1, <1>12 DEF PollReturns, SkipEntry
<1>13. CASE PollFails
  BY <1>2, <1>13 DEF PollFails
<1> QED
  BY <1>9, <1>10, <1>11, <1>12, <1>13 DEF ServerNext

\* Everything the clients and the network do keeps the order.
LEMMA ClientsNextOrder == ASSUME TypeOK, ArrayInv, OrderInv, ClientsNext PROVE OrderInv'
<1> USE DEF OrderInv
<1>1. PICK k \in Conns : Connect(k) \/ Ask(k) \/ Arrive(k) \/ Consume(k) \/ Leave(k)
  BY DEF ClientsNext
<1>2. net[k] \in Link /\ (net[k].cli = "none" => net[k].srv = "none")
  BY DEF TypeOK, SockOK
<1>3. ASSUME NEW r, Update(k, r), Later(r, net[k]), r.srv = net[k].srv,
             r.cli = "none" => r.srv = "none"
      PROVE  OrderInv'
  <2>1. net' = [net EXCEPT ![k] = r] /\ sock' = sock /\ d' = d
    BY <1>3 DEF Update, serverVars
  <2> QED
    BY <1>3, <2>1, OrderUpdate, SockUpdate
<1>4. CASE Connect(k)
  <2>1. /\ net[k].cli = "none" /\ net' = [net EXCEPT ![k] = Connected(net[k])]
        /\ sock' = sock /\ d' = d
    BY <1>4 DEF Connect, Update, serverVars
  <2>2. Later(Connected(net[k]), net[k])
    BY <1>2, LaterLinks
  <2>3. OrderOK'
    BY <2>1, <2>2, OrderUpdate
  <2>4. Connected(net[k]).srv = "queued" /\ Connected(net[k]).cli = "open"
    BY <1>2 DEF Connected, Link
  <2>5. net'[k] = Connected(net[k]) /\ \A j \in Conns : j # k => net'[j] = net[j]
    BY <2>1 DEF TypeOK
  <2>6. SockOK'
    BY <1>2, <2>1, <2>4, <2>5, SockFrame DEF SockOK
  <2> QED
    BY <2>3, <2>6
<1>5. CASE Ask(k)
  <2>0. PICK m \in Message : \E r \in Sent(net[k], m) : Update(k, r)
    BY <1>5, OpenServerAssumption DEF Ask
  <2>1. PICK r \in Sent(net[k], m) : Update(k, r)
    BY <2>0
  <2>2. OrderOK'
    BY <2>1, AskedOrder
  <2>3. r.srv = net[k].srv /\ (r.cli = "none" => r.srv = "none")
    BY <1>2, <2>1, EndsKept
  <2>4. SockOK'
    BY <2>1, <2>3, SockUpdate DEF Update, serverVars
  <2> QED
    BY <2>2, <2>4
<1>6. CASE Arrive(k)
  <2>1. Update(k, Arrived(net[k])) /\ net[k].late # << >>
    BY <1>6 DEF Arrive
  <2>2. /\ Later(Arrived(net[k]), net[k]) /\ Arrived(net[k]).srv = net[k].srv
        /\ Arrived(net[k]).cli = "none" => net[k].srv = "none"
    BY <1>2, <2>1, LaterLinks, EndsKept
  <2> QED
    BY <1>3, <2>1, <2>2
<1>7. CASE Consume(k)
  <2> DEFINE r == [net[k] EXCEPT !.down = << >>]
  <2>1. Update(k, r)
    BY <1>7 DEF Consume
  <2>2. Later(r, net[k]) /\ r.srv = net[k].srv /\ (r.cli = "none" => r.srv = "none")
    BY <1>2, LaterLinks, EndsKept
  <2> HIDE DEF r
  <2> QED
    BY <1>3, <2>1, <2>2
<1>8. CASE Leave(k)
  <2> DEFINE r == ClosedByClient(net[k])
  <2>1. Update(k, r)
    BY <1>8 DEF Leave
  <2>2. Later(r, net[k]) /\ r.srv = net[k].srv /\ (r.cli = "none" => r.srv = "none")
    BY <1>2, LaterLinks, EndsKept
  <2> HIDE DEF r
  <2> QED
    BY <1>3, <2>1, <2>2
<1> QED
  BY <1>1, <1>4, <1>5, <1>6, <1>7, <1>8

\* A step that changes nothing.
LEMMA StutterOrder == ASSUME TypeOK, OrderInv, UNCHANGED vars PROVE OrderInv'
<1>1. sock' = sock /\ d' = d /\ net' = net /\ rcv' = rcv
  BY DEF vars, serverVars, rcv
<1>2. \A k \in Conns : Later(net'[k], net[k])
  BY <1>1, LaterLinks DEF TypeOK
<1>3. OrderOK'
  BY <1>1, <1>2, OrderFrame DEF OrderInv
<1>4. SockOK'
  BY <1>1 DEF OrderInv, SockOK
<1> QED
  BY <1>3, <1>4 DEF OrderInv

\* Nothing has been asked or answered at the start.
LEMMA InitOrder == Init => OrderInv
<1> SUFFICES ASSUME Init PROVE OrderInv
  OBVIOUS
<1>1. \A f \in Fds : sock[f] = NoConn
  BY DEF Init, ServerInit
<1>2. ASSUME NEW k \in Conns
      PROVE  /\ net[k].srv = "none"
             /\ net[k].up = << >> /\ net[k].late = << >>
             /\ net[k].asked = << >> /\ net[k].answered = << >>
  BY DEF Init, NetInit
<1>3. ASSUME NEW k \in Conns PROVE 0 \in 0 .. Len(net[k].asked) /\ DividedAt(k, 0)
  <2>1. Coming(net[k]) = << >>
    BY <1>2 DEF Coming
  <2>2. << >> \in [{} -> {}] /\ DOMAIN << >> = {} /\ Len(<< >>) = 0
    OBVIOUS
  <2>3. ComingOK(net[k], 0)
    BY <1>2, <2>1, <2>2 DEF ComingOK
  <2>4. AnsweredOK(net[k], 0)
    BY <1>2, <2>2 DEF AnsweredOK
  <2>5. Kept(k) = {}
    BY <1>1, Constants DEF Kept
  <2>6. 0 \in 0 .. Len(net[k].asked)
    BY <1>2, <2>2
  <2> QED
    BY <2>3, <2>4, <2>5, <2>6 DEF DividedAt
<1>4. OrderOK
  BY <1>3 DEF OrderOK
<1>5. SockOK
  BY <1>1, <1>2 DEF SockOK
<1> QED
  BY <1>4, <1>5 DEF OrderInv

\* Answers on a connection never go back: whatever messages replaced each other in the
\* one place a descriptor has, and however descriptors were reused, each answer is to
\* a request of that connection not older than the one answered before.
THEOREM AnswersNeverGoBack == Spec => []AnswersInOrder
<1>1. TypeOK /\ ArrayInv /\ OrderInv /\ [Next]_vars => OrderInv'
  BY ServerNextOrder, ClientsNextOrder, StutterOrder DEF Next
<1>2. TypeOK /\ OrderInv => AnswersInOrder
  <2> SUFFICES ASSUME TypeOK, OrderInv, NEW k \in Conns
               PROVE  \E of \in [DOMAIN net[k].answered -> DOMAIN net[k].asked] :
                          /\ \A n \in DOMAIN net[k].answered :
                                net[k].asked[of[n]] = net[k].answered[n]
                          /\ \A n \in DOMAIN net[k].answered :
                                n > 1 => of[n - 1] <= of[n]
    BY DEF AnswersInOrder
  <2>1. PICK q \in 0 .. Len(net[k].asked) : AnsweredOK(net[k], q)
    BY DEF OrderInv, OrderOK, DividedAt
  <2>2. PICK of \in [DOMAIN net[k].answered -> DOMAIN net[k].asked] :
            \A n \in DOMAIN net[k].answered :
                /\ of[n] <= q
                /\ \A h \in 1 .. n : of[h] <= of[n]
                /\ net[k].asked[of[n]] = net[k].answered[n]
    BY <2>1 DEF AnsweredOK
  <2>3. net[k] \in Link
    BY DEF TypeOK
  <2>4. DOMAIN net[k].answered \subseteq Nat
    BY <2>3, LinkFields
  <2>5. ASSUME NEW n \in DOMAIN net[k].answered, n > 1 PROVE of[n - 1] <= of[n]
    BY <2>2, <2>4, <2>5
  <2> QED
    BY <2>2, <2>5
<1> QED
  BY <1>1, <1>2, InitOrder, TypeCorrect, ArrayAgrees, PTL DEF Spec

----------------------------------------------------------------------------
(* Who loses its connection.  When clients send whole requests and the      *)
(* network cuts none of them, what comes is made of whole messages, and     *)
(* the blocks in them and in the messages kept were asked for.              *)

WholeRequests == /\ Fragmentation = FALSE
                 /\ \A m \in Inputs : m.magic = TRUE /\ m.code = MSG_REQUEST

OutOfRange(t) == \E j \in DOMAIN t.asked : t.asked[j] = BlockCount

Known(t, m) == /\ m.magic = TRUE /\ m.code = MSG_REQUEST
               /\ m.block = BlockCount => OutOfRange(t)

WholeOK(t) ==
    /\ t.late = << >>
    /\ \E l \in Nat : /\ Len(t.up) = 2 * l
                      /\ \A n \in 1 .. l : /\ t.up[2 * n - 1].half = "head"
                                           /\ Known(t, t.up[2 * n - 1].msg)

KnownOK == /\ \A k \in Conns : WholeOK(net[k])
           /\ \A f \in Fds : sock[f] # NoConn /\ rcv[f] # NoMsg =>
                                 Known(net[sock[f]], rcv[f])

Keeps(r, t) == WholeOK(r) /\ (OutOfRange(t) => OutOfRange(r))

\* What has no requests on its way has none that is not whole.
LEMMA NothingWhole == ASSUME NEW t, t.up = << >>, t.late = << >> PROVE WholeOK(t)
<1>1. Len(<< >>) = 2 * 0
  OBVIOUS
<1> QED
  BY <1>1 DEF WholeOK

\* The same requests on their way, or what a full read leaves of them.
LEMMA SameWhole ==
    ASSUME NEW t \in Link, WholeOK(t), NEW r, r.asked = t.asked, r.late = << >>,
           \/ r.up = t.up \/ r.up = << >>
           \/ Len(t.up) >= 2 /\ r.up = Tail(Tail(t.up))
    PROVE  Keeps(r, t)
<1>1. OutOfRange(r) <=> OutOfRange(t)
  BY DEF OutOfRange
<1>2. CASE r.up = t.up
  BY <1>1, <1>2 DEF Keeps, WholeOK, Known
<1>3. CASE r.up = << >>
  BY <1>1, <1>3, NothingWhole DEF Keeps
<1>4. CASE Len(t.up) >= 2 /\ r.up = Tail(Tail(t.up))
  <2> DEFINE up == t.up
             rest == Tail(Tail(up))
  <2>1. PICK l \in Nat :
            /\ Len(up) = 2 * l
            /\ \A n \in 1 .. l : up[2 * n - 1].half = "head" /\ Known(t, up[2 * n - 1].msg)
    BY DEF WholeOK
  <2>2. up \in Seq(Half) /\ Len(up) >= 2
    BY <1>4, LinkFields
  <2>3. r.up = rest
    BY <1>4
  <2> HIDE DEF up
  <2>4. Len(rest) = Len(up) - 2 /\ \A j \in 1 .. Len(up) - 2 : rest[j] = up[j + 2]
    BY <2>2, TwoFewer
  <2> HIDE DEF rest
  <2>5. l - 1 \in Nat /\ Len(rest) = 2 * (l - 1)
    BY <2>1, <2>2, <2>4
  <2>6. ASSUME NEW n \in 1 .. l - 1
        PROVE  rest[2 * n - 1].half = "head" /\ Known(r, rest[2 * n - 1].msg)
    <3>1. /\ 2 * n - 1 \in 1 .. Len(up) - 2 /\ (2 * n - 1) + 2 = 2 * (n + 1) - 1
          /\ n + 1 \in 1 .. l
      BY <2>1
    <3>2. rest[2 * n - 1] = up[2 * (n + 1) - 1]
      BY <2>4, <3>1
    <3> QED
      BY <1>1, <2>1, <3>1, <3>2 DEF Known
  <2>7. WholeOK(r)
    BY <2>3, <2>5, <2>6 DEF WholeOK
  <2> QED
    BY <1>1, <2>7 DEF Keeps
<1> QED
  BY <1>2, <1>3, <1>4

\* Every change of a connection but a request sent.
LEMMA WholeLinks ==
    ASSUME NEW t \in Link, WholeOK(t)
    PROVE  /\ Keeps(t, t)
           /\ Keeps(Connected(t), t) /\ Keeps(Accepted(t), t) /\ Keeps(ClosedByServer(t), t)
           /\ Keeps(ClosedByClient(t), t) /\ Keeps([t EXCEPT !.down = << >>], t)
           /\ Keeps(Received(t), t)
           /\ \A units, n, b : Keeps(SendAll(t, units, n, b), t)
<1>0. t.late = << >>
  BY DEF WholeOK
<1>1. /\ Keeps(t, t)
      /\ Keeps(Connected(t), t) /\ Keeps(Accepted(t), t) /\ Keeps(ClosedByServer(t), t)
  BY <1>0, SameWhole DEF Connected, Accepted, ClosedByServer, Link
<1>2. Keeps(ClosedByClient(t), t) /\ Keeps([t EXCEPT !.down = << >>], t)
  BY <1>0, SameWhole DEF ClosedByClient, Link
<1>3. Keeps(Received(t), t)
  <2> DEFINE r == Received(t)
  <2>1. /\ r.asked = t.asked /\ r.late = << >>
        /\ r.up = IF Len(t.up) >= 2 THEN Tail(Tail(t.up)) ELSE << >>
    BY <1>0 DEF Received, Link
  <2> HIDE DEF r
  <2>2. Keeps(r, t)
    BY <2>1, SameWhole
  <2> QED
    BY <2>2 DEF r
<1>4. ASSUME NEW units, NEW n, NEW b PROVE Keeps(SendAll(t, units, n, b), t)
  <2> DEFINE w == Written(t, SubSeq(units, 1, n))
             r == SendAll(t, units, n, b)
  <2>1. w.up = t.up /\ w.asked = t.asked /\ w.late = << >>
    BY <1>0 DEF Written, Link
  <2>2. r.up = w.up /\ r.asked = w.asked /\ r.late = w.late
    BY DEF SendAll, Written, Link
  <2> HIDE DEF w, r
  <2>3. Keeps(r, t)
    BY <2>1, <2>2, SameWhole
  <2> QED
    BY <2>3 DEF r
<1> QED
  BY <1>1, <1>2, <1>3, <1>4

\* A request sent is a whole message more, and its block has been asked for.
LEMMA SentWhole ==
    ASSUME WholeRequests, NEW t \in Link, WholeOK(t), NEW m \in Inputs,
           NEW r \in Sent(t, m)
    PROVE  Keeps(r, t)
<1>0. m \in Message /\ m.magic = TRUE /\ m.code = MSG_REQUEST
  BY OpenServerAssumption DEF WholeRequests
<1>1. CASE r = t
  BY <1>1, WholeLinks
<1>2. CASE r # t
  <2>1. /\ r.up = t.up \o Halves(m) /\ r.late = << >> /\ r.asked = Append(t.asked, m.block)
    BY <1>2 DEF Sent, WholeOK, WholeRequests, Link
  <2>2. OutOfRange(t) => OutOfRange(r)
    <3>1. t.asked \in Seq(0 .. BlockCount)
      BY LinkFields
    <3>2. \A j \in DOMAIN t.asked : j \in DOMAIN r.asked /\ r.asked[j] = t.asked[j]
      BY <2>1, <3>1, <1>0
    <3> QED
      BY <3>2 DEF OutOfRange
  <2>3. Known(r, m)
    <3>1. t.asked \in Seq(0 .. BlockCount) /\ m.block \in 0 .. BlockCount
      BY <1>0, LinkFields DEF Message
    <3>2. /\ Len(t.asked) + 1 \in DOMAIN r.asked
          /\ r.asked[Len(t.asked) + 1] = m.block
      BY <2>1, <3>1
    <3> QED
      BY <1>0, <3>2 DEF Known, OutOfRange
  <2>4. PICK l \in Nat :
            /\ Len(t.up) = 2 * l
            /\ \A n \in 1 .. l : /\ t.up[2 * n - 1].half = "head"
                                 /\ Known(t, t.up[2 * n - 1].msg)
    BY DEF WholeOK
  <2> DEFINE up == t.up
             halves == Halves(m)
  <2>5. up \in Seq(Half) /\ halves \in Seq(Half)
    BY <1>0, LinkFields, HalvesType
  <2>6. Len(halves) = 2 /\ halves[1].half = "head" /\ halves[1].msg = m
    BY DEF Halves
  <2>7. Len(up) = 2 * l
    BY <2>4
  <2>8. \A n \in 1 .. l : up[2 * n - 1].half = "head" /\ Known(t, up[2 * n - 1].msg)
    BY <2>4
  <2>9. r.up = up \o halves
    BY <2>1
  <2> HIDE DEF up, halves
  <2>10. /\ Len(r.up) = Len(up) + 2
         /\ \A j \in 1 .. Len(up) : r.up[j] = up[j]
         /\ r.up[Len(up) + 1] = halves[1]
    <3>1. /\ Len(up) \in Nat /\ Len(up \o halves) = Len(up) + Len(halves)
          /\ \A j \in 1 .. Len(up) : (up \o halves)[j] = up[j]
          /\ \A j \in 1 .. Len(halves) : (up \o halves)[Len(up) + j] = halves[j]
      BY <2>5, ConcatProperties, LenProperties
    <3> QED
      BY <2>6, <2>9, <3>1
  <2>11. ASSUME NEW n \in 1 .. l + 1
         PROVE  r.up[2 * n - 1].half = "head" /\ Known(r, r.up[2 * n - 1].msg)
    <3>1. CASE n = l + 1
      <4>1. 2 * n - 1 = Len(up) + 1
        BY <2>7, <3>1
      <4> QED
        BY <2>3, <2>6, <2>10, <4>1
    <3>2. CASE n # l + 1
      <4>1. n \in 1 .. l /\ 2 * n - 1 \in 1 .. Len(up)
        BY <2>7, <3>2
      <4> QED
        BY <2>2, <2>8, <2>10, <4>1 DEF Known
    <3> QED
      BY <3>1, <3>2
  <2>12. l + 1 \in Nat /\ Len(r.up) = 2 * (l + 1)
    BY <2>7, <2>10
  <2>13. WholeOK(r)
    BY <2>1, <2>11, <2>12 DEF WholeOK
  <2> QED
    BY <2>2, <2>13 DEF Keeps
<1> QED
  BY <1>1, <1>2

\* A full read returns a whole message, whose block was asked for.
LEMMA ReadKnown ==
    ASSUME NEW t \in Link, WholeOK(t), RecvResult(t) = "full"
    PROVE  Known(t, RecvMessage(t))
<1>1. Len(t.up) >= 2
  BY DEF RecvResult
<1>2. PICK l \in Nat :
          /\ Len(t.up) = 2 * l
          /\ \A n \in 1 .. l : /\ t.up[2 * n - 1].half = "head"
                               /\ Known(t, t.up[2 * n - 1].msg)
  BY DEF WholeOK
<1>3. 1 \in 1 .. l /\ 2 * 1 - 1 = 1
  BY <1>1, <1>2
<1>4. t.up[1].half = "head" /\ Known(t, t.up[1].msg)
  BY <1>2, <1>3
<1> QED
  BY <1>4 DEF RecvMessage

\* A step that keeps every connection, and every message it keeps for a descriptor was
\* kept already or was asked for.
LEMMA KnownFrame ==
    ASSUME TypeOK, KnownOK, \A k \in Conns : Keeps(net'[k], net[k]),
           \A g \in Fds : sock'[g] # NoConn /\ rcv'[g] # NoMsg =>
                             \/ sock'[g] = sock[g] /\ rcv'[g] = rcv[g]
                             \/ Known(net'[sock'[g]], rcv'[g])
    PROVE  KnownOK'
<1>1. \A k \in Conns : WholeOK(net'[k])
  BY DEF Keeps
<1>2. ASSUME NEW g \in Fds, sock'[g] # NoConn, rcv'[g] # NoMsg
      PROVE  Known(net'[sock'[g]], rcv'[g])
  <2>1. CASE sock'[g] = sock[g] /\ rcv'[g] = rcv[g]
    <3>1. sock[g] \in Conns /\ Known(net[sock[g]], rcv[g])
      BY <1>2, <2>1 DEF TypeOK, KnownOK
    <3> QED
      BY <2>1, <3>1 DEF Keeps, Known
  <2> QED
    BY <1>2, <2>1
<1> QED
  BY <1>1, <1>2 DEF KnownOK

\* One connection updated, the descriptors and messages left alone.
LEMMA KnownUpdate ==
    ASSUME TypeOK, KnownOK, sock' = sock, d' = d, NEW k, NEW link,
           net' = [net EXCEPT ![k] = link], k \in Conns => Keeps(link, net[k])
    PROVE  KnownOK'
<1>1. ASSUME NEW j \in Conns PROVE Keeps(net'[j], net[j])
  <2>1. net[j] \in Link /\ WholeOK(net[j])
    BY DEF TypeOK, KnownOK
  <2>2. CASE j = k
    BY <2>2 DEF TypeOK
  <2>3. CASE j # k
    <3>1. net'[j] = net[j]
      BY <2>3 DEF TypeOK
    <3> QED
      BY <2>1, <3>1, WholeLinks
  <2> QED
    BY <2>2, <2>3
<1>2. rcv' = rcv
  BY DEF rcv
<1> QED
  BY <1>1, <1>2, KnownFrame

\* The end of the process.
LEMMA ExitKnown == ASSUME TypeOK, KnownOK, NEW how, Exit(how) PROVE KnownOK'
<1>1. \A g \in Fds : sock'[g] = NoConn
  BY DEF Exit
<1>2. ASSUME NEW k \in Conns PROVE Keeps(net'[k], net[k])
  <2>1. /\ net[k] \in Link /\ WholeOK(net[k])
        /\ net'[k] \in {ClosedByServer(net[k]), net[k]}
    BY DEF Exit, TypeOK, KnownOK
  <2> QED
    BY <2>1, WholeLinks
<1> QED
  BY <1>1, <1>2, KnownFrame

\* A connection accepted: a free descriptor has no message.
LEMMA AcceptedKnown ==
    ASSUME TypeOK, ArrayInv, pc = "scan", KnownOK, NEW k \in Conns,
           NEW f \in Fds, sock[f] = NoConn, sock' = [sock EXCEPT ![f] = k], d' = d,
           net' = [net EXCEPT ![k] = Accepted(@)]
    PROVE  KnownOK'
<1>1. rcv' = rcv /\ rcv[f] = NoMsg
  <2>1. EntriesOK /\ MessagesOK
    BY DEF ArrayInv
  <2> QED
    BY <2>1, PolledIsOpen DEF rcv, MessagesOK
<1>2. \A g \in Fds : sock'[g] # NoConn /\ rcv'[g] # NoMsg =>
                         sock'[g] = sock[g] /\ rcv'[g] = rcv[g]
  BY <1>1 DEF TypeOK
<1>3. ASSUME NEW j \in Conns PROVE Keeps(net'[j], net[j])
  <2>1. net[j] \in Link /\ WholeOK(net[j]) /\ net'[j] \in {Accepted(net[j]), net[j]}
    BY DEF TypeOK, KnownOK
  <2> QED
    BY <2>1, WholeLinks
<1> QED
  BY <1>2, <1>3, KnownFrame

\* A removal, or the failure in it.
LEMMA RemovedKnown ==
    ASSUME TypeOK, ArrayInv, KnownOK, NEW f \in Fds, NEW slots, RemoveClient(f, slots)
    PROVE  KnownOK'
<1>1. CASE \E how : Exit(how)
  BY <1>1, ExitKnown
<1>2. CASE ~(\E how : Exit(how))
  <2>1. /\ sock' = [sock EXCEPT ![f] = NoConn] /\ d' = RcvRemove(d, f)
        /\ net' = [net EXCEPT ![sock[f]] = ClosedByServer(@)]
    BY <1>2 DEF RemoveClient
  <2>2. rcv' = [rcv EXCEPT ![f] = NoMsg] /\ rcv \in [Fds -> Message \cup {NoMsg}]
    BY <2>1, RcvRemoved, RcvType DEF ArrayInv, MemoryOK, TypeOK
  <2>3. \A g \in Fds : sock'[g] # NoConn /\ rcv'[g] # NoMsg =>
                           sock'[g] = sock[g] /\ rcv'[g] = rcv[g]
    BY <2>1, <2>2 DEF TypeOK
  <2>4. ASSUME NEW j \in Conns PROVE Keeps(net'[j], net[j])
    <3>1. /\ net[j] \in Link /\ WholeOK(net[j])
          /\ net'[j] \in {ClosedByServer(net[j]), net[j]}
      BY <2>1 DEF TypeOK, KnownOK
    <3> QED
      BY <3>1, WholeLinks
  <2> QED
    BY <2>3, <2>4, KnownFrame
<1> QED
  BY <1>1, <1>2

\* A message stored is one that was asked for; the others stay.
LEMMA StoredKnown ==
    ASSUME TypeOK, ArrayInv, KnownOK, NEW f \in Fds, StoresMessage(f)
    PROVE  KnownOK'
<1>1. PICK k \in Conns : sock[f] = k
  BY DEF TypeOK, StoresMessage
<1> DEFINE m == RecvMessage(net[k])
<1>2. /\ RecvResult(net[k]) = "full" /\ sock' = sock /\ net' = [net EXCEPT ![k] = Received(@)]
      /\ d' = d \/ d' = RcvAdd(d, f, m)
  BY <1>1 DEF StoresMessage
<1>3. net[k] \in Link /\ WholeOK(net[k])
  BY DEF TypeOK, KnownOK
<1>4. m \in Message /\ Known(net[k], m) /\ Keeps(Received(net[k]), net[k])
  BY <1>2, <1>3, RecvMessageType, ReadKnown, WholeLinks
<1> HIDE DEF m
<1>5. CASE d' = d
  BY <1>2, <1>4, <1>5, KnownUpdate
<1>6. CASE d' = RcvAdd(d, f, m)
  <2>1. rcv' = [rcv EXCEPT ![f] = m] /\ rcv \in [Fds -> Message \cup {NoMsg}]
    BY <1>4, <1>6, RcvAdded, RcvType DEF ArrayInv, MemoryOK, TypeOK
  <2>2. net'[k] = Received(net[k]) /\ \A j \in Conns : j # k => net'[j] = net[j]
    BY <1>2 DEF TypeOK
  <2>3. ASSUME NEW j \in Conns PROVE Keeps(net'[j], net[j])
    <3>1. net[j] \in Link /\ WholeOK(net[j])
      BY DEF TypeOK, KnownOK
    <3> QED
      BY <1>4, <2>2, <3>1, WholeLinks
  <2>4. Known(net'[k], m)
    BY <1>4, <2>2 DEF Known, Keeps
  <2>5. \A g \in Fds : \/ sock'[g] = sock[g] /\ rcv'[g] = rcv[g]
                       \/ Known(net'[sock'[g]], rcv'[g])
    BY <1>1, <1>2, <2>1, <2>4
  <2> QED
    BY <2>3, <2>5, KnownFrame
<1> QED
  BY <1>2, <1>5, <1>6

\* Every iteration of the server keeps the messages known.
LEMMA ServerNextKnown == ASSUME TypeOK, ArrayInv, KnownOK, ServerNext PROVE KnownOK'
<1>1. ASSUME sock' = sock, d' = d, net' = net PROVE KnownOK'
  <2>1. rcv' = rcv
    BY <1>1 DEF rcv
  <2>2. \A k \in Conns : Keeps(net'[k], net[k])
    BY <1>1, WholeLinks DEF TypeOK, KnownOK
  <2> QED
    BY <1>1, <2>1, <2>2, KnownFrame
<1>2. ASSUME NEW how, Exit(how) PROVE KnownOK'
  BY <1>2, ExitKnown
<1>3. ASSUME NEW f \in Fds, NEW slots, RemoveClient(f, slots) PROVE KnownOK'
  BY <1>3, RemovedKnown
<1>4. ASSUME NEW k \in Conns, Accepts(k) \/ AcceptsUnwatched(k) PROVE KnownOK'
  <2>1. PICK f \in Fds : f = LowestFreeFd /\ sock[f] = NoConn
    BY <1>4, FreeFdType DEF Accepts, AcceptsUnwatched
  <2>2. /\ pc = "scan" /\ d' = d
        /\ sock' = [sock EXCEPT ![f] = k] /\ net' = [net EXCEPT ![k] = Accepted(@)]
    BY <1>4, <2>1 DEF Accepts, AcceptsUnwatched, Visits
  <2> QED
    BY <2>1, <2>2, AcceptedKnown
<1>5. ASSUME NEW k, NEW r, sock' = sock, d' = d, net' = [net EXCEPT ![k] = r],
             r = Received(net[k]) \/ \E units, n, b : r = SendAll(net[k], units, n, b)
      PROVE  KnownOK'
  <2>1. ASSUME k \in Conns PROVE Keeps(r, net[k])
    <3>1. net[k] \in Link /\ WholeOK(net[k])
      BY <2>1 DEF TypeOK, KnownOK
    <3>2. /\ Keeps(Received(net[k]), net[k])
          /\ \A units, n, b : Keeps(SendAll(net[k], units, n, b), net[k])
      BY <3>1, WholeLinks
    <3> QED
      BY <1>5, <3>2
  <2> QED
    BY <1>5, <2>1, KnownUpdate
<1>6. ASSUME NEW f \in Fds, ReadFails(f) PROVE KnownOK'
  <2>1. /\ sock' = sock /\ d' = d
        /\ net' = net \/ net' = [net EXCEPT ![sock[f]] = Received(net[sock[f]])]
    BY <1>6 DEF ReadFails
  <2> QED
    BY <1>1, <1>5, <2>1
<1>7. ASSUME NEW f \in Fds, RefusesBlock(f) \/ SendsBlock(f) PROVE KnownOK'
  <2>1. PICK units : Responds(f, units)
    BY <1>7 DEF RefusesBlock, SendsBlock
  <2>2. /\ sock' = sock /\ d' = d
        /\ \E n : net' = [net EXCEPT ![sock[f]] =
                             SendAll(net[sock[f]], units, n, rcv[f].block)]
    BY <2>1 DEF Responds
  <2> QED
    BY <1>5, <2>2
<1>8. CASE AcceptStep
  BY <1>1, <1>4, <1>8 DEF AcceptStep, AcceptFails
<1>9. CASE ReadStep
  BY <1>3, <1>6, <1>9, StoredKnown DEF ReadStep, ClientLeft
<1>10. CASE WriteStep
  <2>1. PICK f \in Fds : \/ NothingToAnswer(f) \/ DropsClient(f) \/ RefusesBlock(f)
                        \/ SendsBlock(f) \/ SendsNothing(f)
    BY <1>10 DEF WriteStep
  <2>2. CASE NothingToAnswer(f) \/ SendsNothing(f)
    BY <1>1, <2>2 DEF NothingToAnswer, SendsNothing
  <2>3. CASE DropsClient(f)
    BY <1>3, <2>3 DEF DropsClient
  <2> QED
    BY <1>7, <2>1, <2>2, <2>3
<1>11. CASE PollReturns \/ SkipEntry
  BY <1>1, <1>11 DEF PollReturns, SkipEntry
<1>12. CASE PollFails
  BY <1>2, <1>12 DEF PollFails
<1> QED
  BY <1>8, <1>9, <1>10, <1>11, <1>12 DEF ServerNext

\* Clients that send whole requests keep the messages known.
LEMMA ClientsNextKnown ==
    ASSUME WholeRequests, TypeOK, KnownOK, ClientsNext PROVE KnownOK'
<1>1. PICK k \in Conns : Connect(k) \/ Ask(k) \/ Arrive(k) \/ Consume(k) \/ Leave(k)
  BY DEF ClientsNext
<1>2. net[k] \in Link /\ WholeOK(net[k]) /\ net[k].late = << >>
  BY DEF TypeOK, KnownOK, WholeOK
<1>3. \E r : Update(k, r) /\ Keeps(r, net[k])
  <2>1. CASE Ask(k)
    BY <1>2, <2>1, SentWhole DEF Ask
  <2>2. CASE ~Ask(k)
    BY <1>1, <1>2, <2>2, WholeLinks DEF Connect, Arrive, Consume, Leave
  <2> QED
    BY <2>1, <2>2
<1>4. PICK r : net' = [net EXCEPT ![k] = r] /\ sock' = sock /\ d' = d /\ Keeps(r, net[k])
  BY <1>3 DEF Update, serverVars
<1> QED
  BY <1>4, KnownUpdate

\* Every step keeps the messages known.
LEMMA NextKnown ==
    ASSUME WholeRequests, TypeOK, ArrayInv, KnownOK, [Next]_vars PROVE KnownOK'
<1>1. CASE UNCHANGED vars
  <2>1. sock' = sock /\ net' = net /\ rcv' = rcv
    BY <1>1 DEF vars, serverVars, rcv
  <2> QED
    BY <2>1 DEF KnownOK
<1> QED
  BY <1>1, ServerNextKnown, ClientsNextKnown DEF Next

\* Nothing is on its way and nothing kept at the start.
LEMMA InitKnown == Init => KnownOK
<1> SUFFICES ASSUME Init PROVE KnownOK
  OBVIOUS
<1>1. \A f \in Fds : sock[f] = NoConn
  BY DEF Init, ServerInit
<1>2. \A k \in Conns : net[k].up = << >> /\ net[k].late = << >>
  BY DEF Init, NetInit
<1> QED
  BY <1>1, <1>2, NothingWhole DEF KnownOK

\* An accepted connection stays one whatever is read, written or sent on it.
LEMMA StaysOpen ==
    ASSUME NEW t \in Link, t.srv = "open"
    PROVE  /\ Received(t).srv = "open" /\ ClosedByClient(t).srv = "open"
           /\ [t EXCEPT !.down = << >>].srv = "open" /\ Arrived(t).srv = "open"
           /\ Connected(t).srv # "closed" /\ Accepted(t).srv = "open"
           /\ \A units, n, b : SendAll(t, units, n, b).srv = "open"
           /\ \A m \in Message : \A r \in Sent(t, m) : r.srv = "open"
<1>2. Connected(t).srv # "closed" /\ Accepted(t).srv = "open"
  BY DEF Connected, Accepted, Link
<1>3. /\ Received(t).srv = "open" /\ ClosedByClient(t).srv = "open"
      /\ [t EXCEPT !.down = << >>].srv = "open" /\ Arrived(t).srv = "open"
  BY DEF Received, ClosedByClient, Arrived, Link
<1>4. ASSUME NEW units, NEW n, NEW b PROVE SendAll(t, units, n, b).srv = "open"
  <2> DEFINE w == Written(t, SubSeq(units, 1, n))
             r == SendAll(t, units, n, b)
  <2>1. w.srv = "open"
    BY DEF Written, Link
  <2>2. r.srv = w.srv
    BY DEF SendAll, Written, Link
  <2> HIDE DEF w, r
  <2>3. r.srv = "open"
    BY <2>1, <2>2
  <2> QED
    BY <2>3 DEF r
<1>5. ASSUME NEW m \in Message, NEW r \in Sent(t, m) PROVE r.srv = "open"
  BY DEF Sent, Link
<1> QED
  BY <1>2, <1>3, <1>4, <1>5

\* Without a failing close() or poll(), only server__remove_client closes a connection,
\* for an end of the stream or a message that is not acceptable.
LEMMA ClosedByRemoving ==
    ASSUME TypeOK, ArrayInv, Faults \cap {"close", "poll"} = {}, [Next]_vars,
           NEW k \in Conns, net[k].srv = "open", net'[k].srv = "closed"
    PROVE  \E f \in Fds : /\ sock[f] = k
                          /\ \/ RecvResult(net[k]) = "eof"
                             \/ rcv[f] # NoMsg /\ ~Acceptable(rcv[f])
<1>0. net[k] \in Link
  BY DEF TypeOK
<1>1. \A j, r : net' = [net EXCEPT ![j] = r] => j = k /\ r.srv = "closed"
  BY DEF TypeOK
<1>2. /\ Received(net[k]).srv = "open" /\ ClosedByClient(net[k]).srv = "open"
      /\ [net[k] EXCEPT !.down = << >>].srv = "open" /\ Arrived(net[k]).srv = "open"
      /\ Connected(net[k]).srv # "closed" /\ Accepted(net[k]).srv = "open"
      /\ \A units, n, b : SendAll(net[k], units, n, b).srv = "open"
      /\ \A m \in Message : \A r \in Sent(net[k], m) : r.srv = "open"
  BY <1>0, StaysOpen
<1>3. ASSUME NEW f \in Fds, NEW slots, Polled(f), RemoveClient(f, slots)
      PROVE  sock[f] = k
  <2>1. net' = [net EXCEPT ![sock[f]] = ClosedByServer(net[sock[f]])]
    BY <1>3 DEF RemoveClient
  <2> QED
    BY <1>1, <2>1
<1>4. CASE ReadStep
  <2>1. PICK f \in Fds : StoresMessage(f) \/ ReadFails(f) \/ ClientLeft(f)
    BY <1>4 DEF ReadStep
  <2>2. ClientLeft(f)
    <3>1. ASSUME StoresMessage(f) \/ ReadFails(f) PROVE FALSE
      <4>1. net' = net \/ net' = [net EXCEPT ![sock[f]] = Received(net[sock[f]])]
        BY <3>1 DEF StoresMessage, ReadFails
      <4> QED
        BY <1>1, <1>2, <4>1
    <3> QED
      BY <2>1, <3>1
  <2>3. /\ pc = "scan" /\ pfd[i].fd = f /\ sock[f] # NoConn
        /\ RecvResult(net[sock[f]]) = "eof" /\ RemoveClient(f, Marked("out"))
    BY <2>2 DEF ClientLeft, ReadsFrom, Visits
  <2>4. Polled(f)
    BY <2>3, VisitedSlot
  <2> QED
    BY <1>3, <2>3, <2>4
<1>5. CASE WriteStep
  <2>1. PICK f \in Fds : \/ NothingToAnswer(f) \/ DropsClient(f) \/ RefusesBlock(f)
                        \/ SendsBlock(f) \/ SendsNothing(f)
    BY <1>5 DEF WriteStep
  <2>2. DropsClient(f)
    <3>1. ASSUME NothingToAnswer(f) \/ SendsNothing(f) PROVE FALSE
      BY <3>1 DEF NothingToAnswer, SendsNothing
    <3>2. ASSUME RefusesBlock(f) \/ SendsBlock(f) PROVE FALSE
      <4>1. PICK units : Responds(f, units)
        BY <3>2 DEF RefusesBlock, SendsBlock
      <4>2. PICK n : net' = [net EXCEPT ![sock[f]] =
                                SendAll(net[sock[f]], units, n, rcv[f].block)]
        BY <4>1 DEF Responds
      <4> QED
        BY <1>1, <1>2, <4>2
    <3> QED
      BY <2>1, <3>1, <3>2
  <2>3. /\ pc = "scan" /\ rcv[f] # NoMsg /\ ~Acceptable(rcv[f])
        /\ RemoveClient(f, Marked("in"))
    BY <2>2 DEF DropsClient, WritesTo, Visits
  <2>4. Polled(f)
    BY <2>3 DEF ArrayInv, MessagesOK
  <2> QED
    BY <1>3, <2>3, <2>4
<1>6. CASE AcceptStep
  <2>1. net' = net \/ \E j \in Conns : net' = [net EXCEPT ![j] = Accepted(net[j])]
    BY <1>6 DEF AcceptStep, Accepts, AcceptsUnwatched, AcceptFails
  <2> QED
    BY <1>1, <1>2, <2>1
<1>7. CASE PollReturns \/ PollFails \/ SkipEntry \/ UNCHANGED vars
  BY <1>7 DEF PollReturns, PollFails, SkipEntry, vars
<1>8. CASE ClientsNext
  <2>1. PICK j \in Conns : Connect(j) \/ Ask(j) \/ Arrive(j) \/ Consume(j) \/ Leave(j)
    BY <1>8 DEF ClientsNext
  <2>2. CASE Ask(j)
    <3>1. PICK m \in Message : \E r \in Sent(net[j], m) : Update(j, r)
      BY <2>2, OpenServerAssumption DEF Ask
    <3>2. PICK r \in Sent(net[j], m) : net' = [net EXCEPT ![j] = r]
      BY <3>1 DEF Update
    <3> QED
      BY <1>1, <1>2, <3>2
  <2>3. CASE ~Ask(j)
    <3>1. ASSUME NEW r, net' = [net EXCEPT ![j] = r],
                 \/ r = Connected(net[j]) \/ r = Arrived(net[j])
                 \/ r = ClosedByClient(net[j]) \/ r = [net[j] EXCEPT !.down = << >>]
          PROVE  FALSE
      <4>1. j = k /\ r.srv = "closed"
        BY <1>1, <3>1
      <4> QED
        BY <1>2, <3>1, <4>1
    <3>2. \/ net' = [net EXCEPT ![j] = Connected(net[j])]
          \/ net' = [net EXCEPT ![j] = Arrived(net[j])]
          \/ net' = [net EXCEPT ![j] = ClosedByClient(net[j])]
          \/ net' = [net EXCEPT ![j] = [net[j] EXCEPT !.down = << >>]]
      BY <2>1, <2>3 DEF Connect, Arrive, Consume, Leave, Update
    <3> QED
      BY <3>1, <3>2
  <2> QED
    BY <2>2, <2>3
<1> QED
  BY <1>4, <1>5, <1>6, <1>7, <1>8 DEF Next, ServerNext

\* A client that stays and asks for blocks of the torrent keeps its connection, whoever
\* is removed from the array before or after it.  Requests are well formed and arrive
\* whole: of one read in part that part is lost, the next 13 bytes are then no message
\* and the client is rightly removed.  When close() or poll() fails the server exits.
THEOREM GoodClientsStay ==
    ASSUME WholeRequests, Faults \cap {"close", "poll"} = {}
    PROVE  Spec => OnlyBadClientsDropped
<1>1. TypeOK /\ ArrayInv /\ KnownOK /\ [Next]_vars => KnownOK'
  BY NextKnown
<1>2. TypeOK /\ ArrayInv /\ KnownOK /\ [Next]_vars =>
          [\A k \in Conns :
               (net[k].srv = "open" /\ net'[k].srv = "closed") =>
                   \/ net[k].cli # "open"
                   \/ \E j \in DOMAIN net[k].asked : net[k].asked[j] = BlockCount]_vars
  <2> SUFFICES ASSUME TypeOK, ArrayInv, KnownOK, [Next]_vars, NEW k \in Conns,
                      net[k].srv = "open", net'[k].srv = "closed"
               PROVE  \/ net[k].cli # "open"
                      \/ \E j \in DOMAIN net[k].asked : net[k].asked[j] = BlockCount
    OBVIOUS
  <2>1. PICK f \in Fds : /\ sock[f] = k
                         /\ \/ RecvResult(net[k]) = "eof"
                            \/ rcv[f] # NoMsg /\ ~Acceptable(rcv[f])
    BY ClosedByRemoving
  <2>2. CASE RecvResult(net[k]) = "eof"
    BY <2>2 DEF RecvResult, HungUp, Left
  <2>3. CASE rcv[f] # NoMsg /\ ~Acceptable(rcv[f])
    <3>1. rcv[f] \in Message /\ k # NoConn
      BY <2>3, RcvType, Constants DEF TypeOK
    <3>2. Known(net[k], rcv[f])
      BY <2>1, <2>3, <3>1 DEF KnownOK
    <3>3. rcv[f].block \in 0 .. BlockCount /\ ~(rcv[f].block < BlockCount)
      BY <2>3, <3>1, <3>2 DEF Message, Known, Acceptable
    <3>4. rcv[f].block = BlockCount
      BY <3>3, WireAssumption
    <3> QED
      BY <3>2, <3>4 DEF Known, OutOfRange
  <2> QED
    BY <2>1, <2>2, <2>3
<1> QED
  BY <1>1, <1>2, InitKnown, TypeCorrect, ArrayAgrees, PTL DEF Spec, OnlyBadClientsDropped
=============================================================================

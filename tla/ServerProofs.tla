---------------------------- MODULE ServerProofs ----------------------------
(***************************************************************************)
(* The array of descriptors under the loop that shifts it: whatever arrives *)
(* on the connections, and whichever calls fail, every step of the server   *)
(* keeps its types and the invariant ArrayInv.                              *)
(***************************************************************************)
EXTENDS Server, TcpProofs, ArraysProofs

\* What the assumptions on the constants say of the bounds, in a form to cite.
LEMMA Constants ==
    /\ ListenFd \notin Fds /\ ListenFd = 0
    /\ MaxSlots \in Nat /\ MaxSlots >= 1
    /\ Slots = 0 .. MaxSlots - 1 /\ 0 \in Slots
    /\ NoConn \notin Conns /\ NoMsg \notin Message
  BY ServerAssumption DEF ListenFd, Slots

\* The messages found in the array, as a function of the descriptor.
LEMMA RcvType == ASSUME d \in RcvArray(Fds, Message)
                 PROVE  rcv \in [Fds -> Message \cup {NoMsg}]
  BY RcvFindType DEF rcv

\* A message stored: the array acts on the function as the code that calls
\* utils_array_rcv_add expects.
LEMMA RcvAdded ==
    ASSUME TypeOK, WellFormed(d), NEW f \in Fds, NEW m \in Message, d' = RcvAdd(d, f, m)
    PROVE  /\ d' \in RcvArray(Fds, Message) /\ WellFormed(d')
           /\ rcv' = [rcv EXCEPT ![f] = m]
<1>1. /\ d' \in RcvArray(Fds, Message) /\ WellFormed(d')
      /\ \A g : RcvFind(d', g, NoMsg) = IF g = f THEN m ELSE RcvFind(d, g, NoMsg)
  BY RcvAddOK DEF TypeOK
<1> QED
  BY <1>1 DEF rcv

\* The message of a client removed: the array acts on the function as the code that
\* calls utils_array_rcv_remove expects.
LEMMA RcvRemoved ==
    ASSUME TypeOK, WellFormed(d), NEW f \in Fds, d' = RcvRemove(d, f)
    PROVE  /\ d' \in RcvArray(Fds, Message) /\ WellFormed(d')
           /\ rcv' = [rcv EXCEPT ![f] = NoMsg]
<1>1. /\ d' \in RcvArray(Fds, Message) /\ WellFormed(d')
      /\ \A g : RcvFind(d', g, NoMsg) = IF g = f THEN NoMsg ELSE RcvFind(d, g, NoMsg)
  BY RcvRemoveOK DEF TypeOK
<1> QED
  BY <1>1 DEF rcv

\* A slot of the copied array marked for reading or writing is still an entry.
LEMMA MarkedType == ASSUME TypeOK, NEW e \in {"in", "out"}
                    PROVE  /\ Marked(e) \in [Slots -> Entry]
                           /\ \A j \in Slots : Marked(e)[j].fd = pfd[j].fd
<1>1. pfd \in [Slots -> Entry]
  BY DEF TypeOK
<1>2. ASSUME NEW s \in Entry
      PROVE  [s EXCEPT !.events = e] \in Entry /\ [s EXCEPT !.events = e].fd = s.fd
  BY DEF Entry
<1>3. i \in Slots => pfd[i] \in Entry
  BY <1>1
<1> QED
  BY <1>1, <1>2, <1>3 DEF Marked

----------------------------------------------------------------------------
(* The type invariant.                                                      *)

\* The step to the next slot, or back to poll, keeps the types of the position.
LEMMA EndIterationType == ASSUME TypeOK, EndIteration
                          PROVE  /\ pc' \in {"poll", "scan", "died", "stopped"}
                                 /\ i' \in Nat /\ c' \in 0 .. MaxSlots
  BY Constants DEF TypeOK, EndIteration

\* The end of the process keeps the types.
LEMMA ExitType == ASSUME TypeOK, NEW how \in {"died", "stopped"}, Exit(how)
                  PROVE  TypeOK'
<1>1. net' \in [Conns -> Link]
  BY ClosedByServerType DEF Exit, TypeOK
<1> QED
  BY <1>1, Constants DEF Exit, TypeOK

\* The array after utils_array_pollfd_remove is an array of entries.
LEMMA ShiftedType == ASSUME TypeOK, NEW f \in Fds, NEW slots \in [Slots -> Entry]
                     PROVE  Shifted(slots, f) \in [Slots -> Entry]
<1> DEFINE at == CHOOSE j \in 0 .. psize - 1 :
                     slots[j].fd = f /\ \A h \in 0 .. j - 1 : slots[h].fd # f
<1> HIDE DEF at
<1>1. ASSUME NEW j \in Slots
      PROVE  (IF at <= j /\ j < psize - 1 THEN slots[j + 1] ELSE slots[j]) \in Entry
  <2>1. j < psize - 1 => j + 1 \in Slots
    BY Constants DEF TypeOK
  <2> QED
    BY <2>1
<1> QED
  BY <1>1 DEF Shifted, at

\* Replacing one connection by a connection keeps the network's type.
LEMMA NetUpdateType == ASSUME TypeOK, NEW k, NEW link,
                              k \in Conns => link \in Link,
                              net' = [net EXCEPT ![k] = link]
                       PROVE  net' \in [Conns -> Link]
  BY DEF TypeOK

\* server_remove_client, failures included, keeps the types.
LEMMA RemoveClientType ==
    ASSUME TypeOK, NEW f \in Fds, NEW slots \in [Slots -> Entry], psize >= 2,
           RemoveClient(f, slots)
    PROVE  TypeOK'
<1>1. CASE Exit("died") \/ Exit("stopped")
  BY <1>1, ExitType
<1>2. CASE /\ d' = RcvRemove(d, f) /\ room' = room
           /\ pfd' = Shifted(slots, f)
           /\ psize' = psize - 1
           /\ sock' = [sock EXCEPT ![f] = NoConn]
           /\ net' = [net EXCEPT ![sock[f]] = ClosedByServer(@)]
           /\ EndIteration
  <2>1. net' \in [Conns -> Link]
    BY <1>2, ClosedByServerType, NetUpdateType DEF TypeOK
  <2>2. pfd' \in [Slots -> Entry]
    BY <1>2, ShiftedType
  <2>3. psize' \in 1 .. MaxSlots
    BY <1>2, Constants DEF TypeOK
  <2>4. d' \in RcvArray(Fds, Message) /\ sock' \in [Fds -> Conns \cup {NoConn}]
    BY <1>2, RcvTypes DEF TypeOK
  <2> QED
    BY <1>2, <2>1, <2>2, <2>3, <2>4, EndIterationType DEF TypeOK
<1> QED
  BY <1>1, <1>2 DEF RemoveClient

\* An answer, sent whole or cut off, keeps the types.
LEMMA RespondsType ==
    ASSUME TypeOK, NEW f \in Fds, NEW units \in Seq(Unit), units # << >>,
           rcv[f] # NoMsg, sock[f] # NoConn, Responds(f, units)
    PROVE  TypeOK'
<1>1. PICK n \in Takes(units) :
          net' = [net EXCEPT ![sock[f]] = SendAll(@, units, n, rcv[f].block)]
  BY DEF Responds
<1>2. rcv[f].block \in 0 .. BlockCount
  BY RcvType DEF TypeOK, Message
<1>3. sock[f] \in Conns => net[sock[f]] \in Link
  BY DEF TypeOK
<1>4. sock[f] \in Conns
  BY DEF TypeOK
<1>5. CASE n \in 1 .. Len(units)
  <2>1. SendAll(net[sock[f]], units, n, rcv[f].block) \in Link
    BY <1>2, <1>3, <1>4, <1>5, SendAllType
  <2> QED
    BY <1>1, <2>1, NetUpdateType, EndIterationType, MarkedType DEF Responds, TypeOK
<1> QED
  BY <1>5, LenProperties DEF Takes

----------------------------------------------------------------------------
(* What ArrayInv says of the slot the loop visits.                          *)

\* A descriptor that has a slot is open, and its slot is not the listening one.
LEMMA PolledIsOpen ==
    ASSUME TypeOK, EntriesOK, NEW f \in Fds, Polled(f)
    PROVE  sock[f] # NoConn /\ psize >= 2
<1>1. PICK j \in 0 .. psize - 1 : pfd[j].fd = f
  BY DEF Polled
<1>2. j # 0
  BY <1>1, Constants DEF EntriesOK
<1>3. psize \in Nat
  BY Constants DEF TypeOK
<1> QED
  BY <1>1, <1>2, <1>3 DEF EntriesOK

\* What the invariant says of the slot the loop stands at.
LEMMA VisitedSlot ==
    ASSUME TypeOK, ArrayInv, pc = "scan"
    PROVE  /\ i \in Slots /\ i < c /\ EntriesOK /\ MessagesOK /\ VisitsOK
           /\ pfd[i].fd = ListenFd => i = 0 /\ c = psize
           /\ pfd[i].fd \in Fds => /\ i >= 1
                                   /\ sock[pfd[i].fd] # NoConn => Polled(pfd[i].fd)
<1>1. EntriesOK /\ MessagesOK /\ VisitsOK
  BY DEF ArrayInv
<1>2. i \in Nat /\ c \in 0 .. MaxSlots /\ i < c
  BY <1>1 DEF VisitsOK, TypeOK
<1>3. i \in Slots /\ i \in i .. c - 1
  BY <1>2, Constants
<1>4. i > 0 => /\ pfd[i].fd \in Fds
               /\ sock[pfd[i].fd] # NoConn => Polled(pfd[i].fd)
  BY <1>1, <1>3 DEF VisitsOK
<1>5. i = 0 => pfd[i].fd = ListenFd /\ c = psize
  BY <1>1 DEF EntriesOK, VisitsOK
<1> QED
  BY <1>1, <1>2, <1>3, <1>4, <1>5, Constants

\* An iteration ends at poll or at the next slot of the same round.
LEMMA EndedIteration ==
    ASSUME TypeOK, ArrayInv, pc = "scan", EndIteration
    PROVE  /\ pc' \in {"poll", "scan"}
           /\ pc' = "scan" => i' = i + 1 /\ c' = c /\ i' < c' /\ i' > 0
  BY VisitedSlot DEF EndIteration, TypeOK

\* The slots left to visit stay within the memory of the array.
LEMMA SlotsAllocated == ASSUME TypeOK, ArrayInv, EndIteration PROVE c' <= room
  BY Constants DEF TypeOK, ArrayInv, MemoryOK, EndIteration

\* An iteration that leaves the messages alone.
LEMMA UnchangedMessages ==
    ASSUME ArrayInv, pc = "scan", d' = d
    PROVE  /\ WellFormed(d') /\ rcv' = rcv
           /\ \A g \in Fds : rcv'[g] # NoMsg => Polled(g)
<1>1. rcv' = rcv
  BY DEF rcv
<1> QED
  BY <1>1 DEF ArrayInv, MemoryOK, MessagesOK

\* An iteration that adds and removes no entry.
LEMMA SameEntries ==
    ASSUME TypeOK, ArrayInv, pc = "scan", EndIteration,
           psize' = psize, sock' = sock, \A j \in Slots : pfd'[j].fd = pfd[j].fd,
           \A g \in Fds : rcv'[g] # NoMsg => Polled(g), WellFormed(d'), room' = room
    PROVE  ArrayInv'
<1>1. /\ EntriesOK /\ VisitsOK /\ 0 .. psize - 1 \subseteq Slots
      /\ 0 .. c - 1 \subseteq Slots /\ i \in Nat /\ c \in Nat
  BY VisitedSlot, Constants DEF TypeOK
<1>2. \A g : Polled(g)' <=> Polled(g)
  BY <1>1 DEF Polled
<1>3. EntriesOK'
  BY <1>1, Constants DEF EntriesOK, TypeOK
<1>4. MessagesOK'
  BY <1>2 DEF MessagesOK
<1>5. pc' = "scan" => VisitsOK'
  <2> SUFFICES ASSUME pc' = "scan" PROVE VisitsOK'
    OBVIOUS
  <2>1. i' = i + 1 /\ c' = c /\ i' < c' /\ i' > 0
    BY EndedIteration
  <2>2. \A j \in i' .. c' - 1 : j \in i .. c - 1 /\ j \in Slots
    BY <1>1, <2>1
  <2> QED
    BY <1>1, <1>2, <2>1, <2>2 DEF VisitsOK
<1>6. NoLeak'
  BY <1>2, EndedIteration DEF NoLeak, ArrayInv
<1>7. MemoryOK'
  BY SlotsAllocated DEF MemoryOK, ArrayInv
<1> QED
  BY <1>3, <1>4, <1>5, <1>6, <1>7, EndedIteration DEF ArrayInv

\* A server stopped by a failing call satisfies the invariant.
LEMMA StoppedInv ==
    ASSUME TypeOK, ArrayInv, Exit("stopped")
    PROVE  ArrayInv'
<1>1. 0 <= room
  BY DEF TypeOK
<1>2. MemoryOK'
  BY <1>1 DEF Exit, MemoryOK, ArrayInv
<1> QED
  BY <1>2 DEF Exit, ArrayInv, NoLeak

----------------------------------------------------------------------------
(* The removal of the entry of f from slots that have the descriptors of    *)
(* pfd, in the iteration that visits a slot of f.                           *)

\* Every entry but the one of f stays, one slot lower or where it was.
LEMMA ShiftedSlots ==
    ASSUME TypeOK, EntriesOK, NEW f \in Fds, Polled(f), NEW slots \in [Slots -> Entry],
           \A j \in Slots : slots[j].fd = pfd[j].fd
    PROVE  \E at \in 1 .. psize - 1 :
              /\ pfd[at].fd = f
              /\ \A j \in Slots :
                    Shifted(slots, f)[j].fd =
                        IF at <= j /\ j < psize - 1 THEN pfd[j + 1].fd ELSE pfd[j].fd
<1> DEFINE First(j) == slots[j].fd = f /\ \A h \in 0 .. j - 1 : slots[h].fd # f
           at == CHOOSE j \in 0 .. psize - 1 : First(j)
<1>1. psize \in Nat /\ 0 .. psize - 1 \subseteq Slots
  BY Constants DEF TypeOK
<1>2. PICK j \in 0 .. psize - 1 : pfd[j].fd = f
  BY DEF Polled
<1>3. First(j)
  <2>1. slots[j].fd = f
    BY <1>1, <1>2
  <2>2. ASSUME NEW h \in 0 .. j - 1 PROVE slots[h].fd # f
    <3>1. h \in 0 .. psize - 1 /\ h # j
      BY <1>1
    <3> QED
      BY <1>1, <1>2, <3>1 DEF EntriesOK
  <2> QED
    BY <2>1, <2>2
<1>4. at \in 0 .. psize - 1 /\ First(at)
  BY <1>3
<1>5. Shifted(slots, f) =
          [n \in Slots |-> IF at <= n /\ n < psize - 1 THEN slots[n + 1] ELSE slots[n]]
  BY DEF Shifted
<1>6. slots[at].fd = f
  BY <1>4
<1> HIDE DEF at, First
<1>7. pfd[at].fd = f
  BY <1>1, <1>4, <1>6
<1>8. at # 0
  BY <1>7, Constants DEF EntriesOK
<1>9. at \in 1 .. psize - 1
  BY <1>1, <1>4, <1>8
<1>10. ASSUME NEW n \in Slots
      PROVE  Shifted(slots, f)[n].fd =
                 IF at <= n /\ n < psize - 1 THEN pfd[n + 1].fd ELSE pfd[n].fd
  <2>1. n < psize - 1 => n + 1 \in Slots
    BY <1>1, Constants
  <2> QED
    BY <1>5, <2>1
<1> QED
  BY <1>7, <1>9, <1>10

\* The heart of the argument: after the shift each open descriptor still has one slot,
\* and the slots left to visit are those of open descriptors or copies of the removed.
LEMMA RemovedInv ==
    ASSUME TypeOK, ArrayInv, pc = "scan", NEW f \in Fds, pfd[i].fd = f, Polled(f),
           NEW slots \in [Slots -> Entry], \A j \in Slots : slots[j].fd = pfd[j].fd,
           d' = RcvRemove(d, f), pfd' = Shifted(slots, f), room' = room,
           psize' = psize - 1, sock' = [sock EXCEPT ![f] = NoConn], EndIteration
    PROVE  ArrayInv'
<1>1. /\ EntriesOK /\ MessagesOK /\ VisitsOK /\ i >= 1 /\ i \in Slots
      /\ psize \in 1 .. MaxSlots /\ c \in 0 .. MaxSlots
  <2>1. psize \in 1 .. MaxSlots /\ c \in 0 .. MaxSlots
    BY DEF TypeOK
  <2>2. pfd[i].fd \in Fds
    OBVIOUS
  <2>3. /\ i \in Slots /\ i < c /\ EntriesOK /\ MessagesOK /\ VisitsOK
        /\ pfd[i].fd \in Fds => /\ i >= 1
                                /\ sock[pfd[i].fd] # NoConn => Polled(pfd[i].fd)
    BY VisitedSlot
  <2> QED
    BY <2>1, <2>2, <2>3
<1>2. PICK at \in 1 .. psize - 1 :
          /\ pfd[at].fd = f
          /\ \A j \in Slots :
                pfd'[j].fd = IF at <= j /\ j < psize - 1 THEN pfd[j + 1].fd ELSE pfd[j].fd
  BY <1>1, ShiftedSlots
<1> DEFINE old(j) == IF at <= j THEN j + 1 ELSE j
           Stays(g) == \E n \in 0 .. psize' - 1 : pfd'[n].fd = g
<1>3. ASSUME NEW j \in 0 .. psize' - 1
      PROVE  /\ old(j) \in 0 .. psize - 1 /\ old(j) # at
             /\ j >= 1 => old(j) >= 1
             /\ pfd'[j].fd = pfd[old(j)].fd
  <2>1. psize \in Nat /\ psize' = psize - 1 /\ at \in 1 .. psize - 1
    BY <1>1, Constants
  <2>2. j \in Slots /\ j < psize - 1
    BY <1>1, Constants
  <2>3. old(j) \in 0 .. psize - 1 /\ old(j) # at /\ (j >= 1 => old(j) >= 1)
    BY <2>1, <2>2, Constants
  <2> QED
    BY <1>2, <2>2, <2>3
<1>4. ASSUME NEW n \in 0 .. psize - 1, n # at
      PROVE  pfd[n].fd # f
  BY <1>1, <1>2, <1>4 DEF EntriesOK
<1>5. ASSUME NEW g \in Fds, g # f, Polled(g) PROVE Stays(g)
  <2>1. PICK n \in 0 .. psize - 1 : pfd[n].fd = g
    BY <1>5 DEF Polled
  <2>2. n # at
    BY <1>2, <1>5, <2>1
  <2>3. CASE n < at
    <3>1. n \in 0 .. psize' - 1 /\ n \in Slots /\ ~(at <= n)
      BY <1>1, <2>3, Constants
    <3> QED
      BY <1>2, <2>1, <3>1
  <2>4. CASE n > at
    <3> DEFINE m == n - 1
    <3>1. /\ m \in 0 .. psize' - 1 /\ m \in Slots
          /\ at <= m /\ m < psize - 1 /\ m + 1 = n
      BY <1>1, <2>4, Constants
    <3> HIDE DEF m
    <3>2. pfd'[m].fd = pfd[m + 1].fd
      BY <1>2, <3>1
    <3>3. pfd'[m].fd = g
      BY <2>1, <3>1, <3>2
    <3> QED
      BY <3>1, <3>3
  <2> QED
    BY <1>1, <2>1, <2>2, <2>3, <2>4
<1>6. \A g \in Fds : sock'[g] # NoConn => g # f /\ sock[g] # NoConn
  BY DEF TypeOK
<1>7. EntriesOK'
  <2>1. pfd'[0].fd = ListenFd
    BY <1>1, <1>2, Constants DEF EntriesOK
  <2>2. ASSUME NEW j \in 1 .. psize' - 1
        PROVE  pfd'[j].fd \in Fds /\ sock'[pfd'[j].fd] # NoConn
    <3>1. /\ old(j) \in 1 .. psize - 1 /\ pfd'[j].fd = pfd[old(j)].fd
          /\ pfd[old(j)].fd # f
      BY <1>1, <1>3, <1>4
    <3> QED
      BY <1>1, <3>1 DEF EntriesOK, TypeOK
  <2>3. ASSUME NEW j \in 0 .. psize' - 1, NEW h \in 0 .. psize' - 1,
               pfd'[j].fd = pfd'[h].fd
        PROVE  j = h
    <3>1. old(j) = old(h)
      BY <1>1, <1>3, <2>3 DEF EntriesOK
    <3> QED
      BY <1>1, <3>1
  <2> QED
    BY <2>1, <2>2, <2>3 DEF EntriesOK
<1>11. WellFormed(d') /\ rcv' = [rcv EXCEPT ![f] = NoMsg]
  BY RcvRemoved DEF ArrayInv, MemoryOK
<1>8. MessagesOK'
  <2>1. ASSUME NEW g \in Fds, rcv'[g] # NoMsg PROVE Polled(g)'
    <3>1. g # f /\ rcv[g] # NoMsg
      BY <1>11, <2>1, RcvType DEF TypeOK
    <3> QED
      BY <1>1, <1>5, <3>1 DEF MessagesOK, Polled
  <2> QED
    BY <2>1 DEF MessagesOK
<1>9. ASSUME pc' = "scan" PROVE VisitsOK'
  <2>1. i' = i + 1 /\ c' = c /\ i' < c' /\ i' > 0
    BY <1>9, EndedIteration
  <2>2. ASSUME NEW j \in i' .. c' - 1, j > 0
        PROVE  /\ pfd'[j].fd \in Fds
               /\ sock'[pfd'[j].fd] # NoConn => Stays(pfd'[j].fd)
    <3>1. j \in Slots /\ j \in i .. c - 1
      BY <1>1, <2>1, <2>2, Constants
    <3>2. CASE at <= j /\ j < psize - 1
      <4>1. j + 1 \in 1 .. psize - 1 /\ pfd'[j].fd = pfd[j + 1].fd
        BY <1>1, <1>2, <3>1, <3>2, Constants
      <4>2. pfd'[j].fd \in Fds /\ Polled(pfd'[j].fd)
        BY <1>1, <4>1 DEF EntriesOK, Polled
      <4> QED
        BY <1>5, <1>6, <4>2
    <3>3. CASE ~(at <= j /\ j < psize - 1)
      <4>1. pfd'[j].fd = pfd[j].fd
        BY <1>2, <3>1, <3>3
      <4>2. pfd[j].fd \in Fds /\ (sock[pfd[j].fd] # NoConn => Polled(pfd[j].fd))
        BY <1>1, <2>2, <3>1 DEF VisitsOK
      <4> QED
        BY <1>5, <1>6, <4>1, <4>2
    <3> QED
      BY <3>2, <3>3
  <2> QED
    BY <2>1, <2>2 DEF VisitsOK, Polled
<1>10. NoLeak'
  BY <1>5, <1>6, EndedIteration DEF NoLeak, ArrayInv, Polled
<1>12. MemoryOK'
  <2>1. psize - 1 <= room
    BY <1>1 DEF ArrayInv, MemoryOK, TypeOK
  <2> QED
    BY <1>11, <2>1, SlotsAllocated DEF MemoryOK
<1> QED
  BY <1>7, <1>8, <1>9, <1>10, <1>12, EndedIteration DEF ArrayInv

----------------------------------------------------------------------------
(* The other steps that change the entries or start the loop.               *)

\* poll's results keep the invariant.
LEMMA PollReturnsInv == ASSUME TypeOK, ArrayInv, PollReturns
                        PROVE  TypeOK' /\ ArrayInv'
<1>1. /\ EntriesOK /\ MessagesOK /\ psize \in 1 .. MaxSlots
      /\ 0 .. psize - 1 \subseteq Slots /\ NoLeak
  BY Constants DEF PollReturns, ArrayInv, TypeOK
<1>2. PICK full \in SUBSET Clogged :
          pfd' = [j \in Slots |->
                     IF j < psize
                     THEN [pfd[j] EXCEPT !.revents = Revents(pfd[j], full)]
                     ELSE Unused]
  BY DEF PollReturns
<1>11. \A e : Revents(e, full) \in {"none", "in", "out"}
  BY DEF Revents
<1>3. pfd' \in [Slots -> Entry]
  <2>1. Unused \in Entry
    BY DEF Unused, Entry
  <2>2. ASSUME NEW j \in Slots
        PROVE  [pfd[j] EXCEPT !.revents = Revents(pfd[j], full)] \in Entry
    BY <1>11 DEF TypeOK, Entry
  <2> QED
    BY <1>2, <2>1, <2>2
<1>4. TypeOK'
  BY <1>1, <1>3, Constants DEF PollReturns, TypeOK
<1>5. \A j \in 0 .. psize - 1 : pfd'[j].fd = pfd[j].fd
  BY <1>1, <1>2 DEF TypeOK, Entry
<1>6. \A g : Polled(g) => Polled(g)'
  BY <1>5 DEF Polled, PollReturns
<1>7. EntriesOK'
  BY <1>1, <1>5 DEF EntriesOK, PollReturns
<1>8. MessagesOK'
  BY <1>1, <1>6 DEF MessagesOK, PollReturns, rcv
<1>9. VisitsOK'
  <2>1. ASSUME NEW j \in 0 .. psize - 1, j > 0
        PROVE  pfd'[j].fd \in Fds /\ Polled(pfd[j].fd)
    BY <1>1, <1>5, <2>1 DEF EntriesOK, Polled
  <2> QED
    BY <1>1, <1>5, <1>6, <2>1 DEF VisitsOK, PollReturns, Polled
<1>10. NoLeak'
  BY <1>1, <1>6 DEF NoLeak, PollReturns
<1>12. MemoryOK'
  BY DEF MemoryOK, ArrayInv, PollReturns
<1> QED
  BY <1>4, <1>7, <1>8, <1>9, <1>10, <1>12 DEF ArrayInv, PollReturns

\* accept() returns the lowest free descriptor: there is one.
LEMMA FreeFdType == ASSUME FreeFds # {}
                    PROVE  LowestFreeFd \in Fds /\ sock[LowestFreeFd] = NoConn
<1>1. FreeFds \subseteq Nat
  BY ServerAssumption DEF FreeFds
<1>2. PICK f \in FreeFds : \A g \in FreeFds : << g, f >> \notin OpToRel(<, Nat)
  BY <1>1, WFMin, NatLessThanWellFounded, Zenon
<1>3. ASSUME NEW g \in FreeFds PROVE f <= g
  <2>1. f \in Nat /\ g \in Nat
    BY <1>1
  <2>2. << g, f >> \in Nat \X Nat /\ << g, f >>[1] = g /\ << g, f >>[2] = f
    BY <2>1
  <2>3. ~(g < f)
    BY <1>2, <2>2, Zenon DEF OpToRel
  <2> QED
    BY <2>1, <2>3
<1> QED
  BY <1>3 DEF LowestFreeFd, FreeFds

\* accept() hands out a free descriptor: its entry comes last, where no slot that
\* is still to be visited has it.
LEMMA AcceptsInv == ASSUME TypeOK, ArrayInv, NEW k \in Conns, Accepts(k)
                    PROVE  TypeOK' /\ ArrayInv'
<1>1. PICK f \in Fds : f = LowestFreeFd /\ sock[f] = NoConn
  BY FreeFdType DEF Accepts
<1>2. /\ pc = "scan" /\ pfd[i].fd = ListenFd /\ EndIteration
      /\ psize < MaxSlots /\ psize' = psize + 1 /\ d' = d /\ room' = Grown(psize, room)
      /\ sock' = [sock EXCEPT ![f] = k]
      /\ net' = [net EXCEPT ![k] = Accepted(@)]
      /\ pfd' = [pfd EXCEPT ![psize] = [fd |-> f, events |-> "in", revents |-> "uninit"]]
  BY <1>1 DEF Accepts, Visits, NewEntry
<1>3. /\ EntriesOK /\ MessagesOK /\ VisitsOK /\ i = 0 /\ c = psize
      /\ psize \in 1 .. MaxSlots /\ psize \in Slots /\ 0 .. psize - 1 \subseteq Slots
  <2>1. psize \in 1 .. MaxSlots
    BY DEF TypeOK
  <2> QED
    BY <1>2, <2>1, VisitedSlot, Constants
<1>4. TypeOK'
  <2>1. net' \in [Conns -> Link]
    BY <1>2, AcceptedType, NetUpdateType DEF TypeOK
  <2>2. pfd' \in [Slots -> Entry]
    BY <1>1, <1>2 DEF TypeOK, Entry
  <2>3. sock' \in [Fds -> Conns \cup {NoConn}]
    BY <1>2 DEF TypeOK
  <2>4. psize' \in 1 .. MaxSlots /\ room' \in Nat \ {0}
    BY <1>2, <1>3, Constants DEF Grown, TypeOK
  <2> QED
    BY <1>2, <2>1, <2>2, <2>3, <2>4, EndIterationType DEF TypeOK
<1>5. /\ \A j \in 0 .. psize - 1 : pfd'[j].fd = pfd[j].fd
      /\ pfd'[psize].fd = f
  BY <1>2, <1>3 DEF TypeOK
<1>6. \A j \in 0 .. psize - 1 : pfd[j].fd # f
  BY <1>1, <1>3, Constants DEF EntriesOK
<1>7. /\ \A g \in Fds : g # f => sock'[g] = sock[g]
      /\ sock'[f] # NoConn
  BY <1>1, <1>2, Constants DEF TypeOK
<1>8. \A g : Polled(g) => Polled(g)'
  BY <1>2, <1>3, <1>5 DEF Polled
<1>9. Polled(f)'
  <2>1. psize \in 0 .. psize' - 1
    BY <1>2, <1>3
  <2> QED
    BY <1>5, <2>1 DEF Polled
<1>10. EntriesOK'
  <2>1. pfd'[0].fd = ListenFd
    BY <1>3, <1>5 DEF EntriesOK
  <2>2. ASSUME NEW j \in 1 .. psize' - 1
        PROVE  pfd'[j].fd \in Fds /\ sock'[pfd'[j].fd] # NoConn
    <3>1. CASE j = psize
      BY <1>1, <1>5, <1>7, <3>1
    <3>2. CASE j # psize
      <4>1. j \in 1 .. psize - 1 /\ j \in 0 .. psize - 1
        BY <1>2, <1>3, <3>2
      <4>2. pfd'[j].fd = pfd[j].fd /\ pfd[j].fd # f /\ pfd[j].fd \in Fds
            /\ sock[pfd[j].fd] # NoConn
        BY <1>3, <1>5, <1>6, <4>1 DEF EntriesOK
      <4> QED
        BY <1>7, <4>2
    <3> QED
      BY <3>1, <3>2
  <2>3. ASSUME NEW j \in 0 .. psize' - 1, NEW h \in 0 .. psize' - 1,
               pfd'[j].fd = pfd'[h].fd
        PROVE  j = h
    <3>1. \A n \in 0 .. psize' - 1 : n \in 0 .. psize - 1 \/ n = psize
      BY <1>2, <1>3
    <3> QED
      BY <1>3, <1>5, <1>6, <2>3, <3>1 DEF EntriesOK
  <2> QED
    BY <2>1, <2>2, <2>3 DEF EntriesOK
<1>11. MessagesOK'
  BY <1>2, <1>3, <1>8, UnchangedMessages DEF MessagesOK
<1>12. ASSUME pc' = "scan" PROVE VisitsOK'
  <2>1. i' = 1 /\ c' = psize /\ i' < c'
    BY <1>2, <1>3, <1>12, EndedIteration
  <2>2. ASSUME NEW j \in 1 .. psize - 1
        PROVE  pfd'[j].fd \in Fds /\ Polled(pfd[j].fd) /\ pfd'[j].fd = pfd[j].fd
    BY <1>3, <1>5 DEF EntriesOK, Polled
  <2> QED
    BY <1>8, <2>1, <2>2 DEF VisitsOK, Polled
<1>13. NoLeak'
  <2>1. NoLeak
    BY DEF ArrayInv
  <2> QED
    BY <1>2, <1>7, <1>8, <1>9, <2>1, EndedIteration DEF NoLeak
<1>14. MemoryOK'
  <2>1. psize <= room /\ c <= room /\ room \in Nat \ {0} /\ psize \in Nat
    BY <1>3 DEF ArrayInv, MemoryOK, TypeOK
  <2>2. psize + 1 <= Grown(psize, room) /\ room <= Grown(psize, room)
    BY <2>1 DEF Grown
  <2>3. c' <= room /\ c' \in Nat /\ Grown(psize, room) \in Nat
    BY <1>2, <2>1, SlotsAllocated, EndIterationType, Constants DEF Grown
  <2> QED
    BY <1>2, <2>1, <2>2, <2>3, UnchangedMessages DEF MemoryOK
<1> QED
  BY <1>2, <1>4, <1>10, <1>11, <1>12, <1>13, <1>14, EndedIteration DEF ArrayInv

\* accept() took a connection that no entry will watch: some call failed.
LEMMA AcceptsUnwatchedInv ==
    ASSUME TypeOK, ArrayInv, NEW k \in Conns, AcceptsUnwatched(k)
    PROVE  TypeOK' /\ ArrayInv'
<1>1. PICK f \in Fds : f = LowestFreeFd /\ sock[f] = NoConn
  BY FreeFdType DEF AcceptsUnwatched
<1>2. /\ pc = "scan" /\ pfd[i].fd = ListenFd /\ EndIteration
      /\ pfd' = pfd /\ psize' = psize /\ d' = d /\ room' = room
      /\ Faults \cap {"fcntl", "realloc"} # {}
      /\ sock' = [sock EXCEPT ![f] = k]
      /\ net' = [net EXCEPT ![k] = Accepted(@)]
  BY <1>1 DEF AcceptsUnwatched, Visits
<1>3. /\ EntriesOK /\ MessagesOK /\ VisitsOK /\ i = 0 /\ c = psize
      /\ psize \in 1 .. MaxSlots
  <2>1. psize \in 1 .. MaxSlots
    BY DEF TypeOK
  <2> QED
    BY <1>2, <2>1, VisitedSlot
<1>4. TypeOK'
  <2>1. net' \in [Conns -> Link]
    BY <1>2, AcceptedType, NetUpdateType DEF TypeOK
  <2>2. sock' \in [Fds -> Conns \cup {NoConn}]
    BY <1>2 DEF TypeOK
  <2> QED
    BY <1>2, <2>1, <2>2, EndIterationType DEF TypeOK
<1>5. /\ \A g \in Fds : g # f => sock'[g] = sock[g]
      /\ sock'[f] # NoConn
  BY <1>1, <1>2, Constants DEF TypeOK
<1>6. \A g : Polled(g)' <=> Polled(g)
  BY <1>2 DEF Polled
<1>7. EntriesOK'
  BY <1>2, <1>3, <1>5 DEF EntriesOK
<1>8. MessagesOK' /\ MemoryOK'
  BY <1>2, <1>3, <1>6, UnchangedMessages, SlotsAllocated DEF MessagesOK, MemoryOK, ArrayInv
<1>9. ASSUME pc' = "scan" PROVE VisitsOK'
  <2>1. i' = 1 /\ c' = psize /\ i' < c'
    BY <1>2, <1>3, <1>9, EndedIteration
  <2>2. ASSUME NEW j \in 1 .. psize - 1
        PROVE  pfd[j].fd \in Fds /\ Polled(pfd[j].fd)
    BY <1>3 DEF EntriesOK, Polled
  <2> QED
    BY <1>2, <1>3, <1>6, <2>1, <2>2 DEF VisitsOK, Polled
<1> QED
  BY <1>2, <1>4, <1>7, <1>8, <1>9, EndedIteration DEF ArrayInv, NoLeak

----------------------------------------------------------------------------
(* Iterations that read and write.                                          *)

\* Marking the visited slot touches no descriptor.
LEMMA MarkedInv ==
    ASSUME TypeOK, ArrayInv, pc = "scan", EndIteration, NEW e \in {"in", "out"},
           pfd' = Marked(e), psize' = psize, sock' = sock, room' = room,
           \A g \in Fds : rcv'[g] # NoMsg => Polled(g), WellFormed(d')
    PROVE  ArrayInv'
  BY MarkedType, SameEntries

\* Every way out of server_remove_client keeps the invariant.
LEMMA RemoveClientInv ==
    ASSUME TypeOK, ArrayInv, pc = "scan", NEW f \in Fds, pfd[i].fd = f, Polled(f),
           NEW e \in {"in", "out"}, RemoveClient(f, Marked(e))
    PROVE  TypeOK' /\ ArrayInv'
<1>1. EntriesOK
  BY DEF ArrayInv
<1>2. psize >= 2
  BY <1>1, PolledIsOpen
<1>3. Marked(e) \in [Slots -> Entry] /\ \A j \in Slots : Marked(e)[j].fd = pfd[j].fd
  BY MarkedType
<1>4. TypeOK'
  BY <1>2, <1>3, RemoveClientType
<1>5. CASE "close" \in Faults /\ Exit("stopped")
  BY <1>4, <1>5, StoppedInv
<1>6. CASE /\ d' = RcvRemove(d, f) /\ pfd' = Shifted(Marked(e), f)
           /\ room' = room /\ psize' = psize - 1 /\ sock' = [sock EXCEPT ![f] = NoConn]
           /\ EndIteration
  BY <1>3, <1>4, <1>6, RemovedInv
<1> QED
  BY <1>5, <1>6 DEF RemoveClient

\* A request read, kept or not, keeps the invariant.
LEMMA StoresMessageInv == ASSUME TypeOK, ArrayInv, NEW f \in Fds, StoresMessage(f)
                          PROVE  TypeOK' /\ ArrayInv'
<1>1. /\ pc = "scan" /\ pfd[i].fd = f /\ sock[f] # NoConn /\ EndIteration
      /\ RecvResult(net[sock[f]]) = "full" /\ pfd' = Marked("out")
      /\ d' = RcvAdd(d, f, RecvMessage(net[sock[f]])) \/ d' = d
      /\ net' = [net EXCEPT ![sock[f]] = Received(@)]
      /\ psize' = psize /\ sock' = sock /\ room' = room
  BY DEF StoresMessage, ReadsFrom, Visits
<1>2. Polled(f) /\ MessagesOK /\ WellFormed(d)
  BY <1>1, VisitedSlot DEF ArrayInv, MemoryOK
<1>3. net[sock[f]] \in Link
  BY <1>1 DEF TypeOK
<1>4. /\ d' \in RcvArray(Fds, Message) /\ WellFormed(d')
      /\ \A g \in Fds : g # f => rcv'[g] = rcv[g]
  <2>1. CASE d' = d
    BY <1>2, <2>1 DEF TypeOK, rcv
  <2>2. CASE d' = RcvAdd(d, f, RecvMessage(net[sock[f]]))
    <3>1. RecvMessage(net[sock[f]]) \in Message
      BY <1>1, <1>3, RecvMessageType
    <3> QED
      BY <1>2, <2>2, <3>1, RcvAdded, RcvType DEF TypeOK
  <2> QED
    BY <1>1, <2>1, <2>2
<1>5. net' \in [Conns -> Link]
  BY <1>1, <1>3, ReceivedType, NetUpdateType
<1>6. TypeOK'
  BY <1>1, <1>4, <1>5, MarkedType, EndIterationType DEF TypeOK
<1>7. \A g \in Fds : rcv'[g] # NoMsg => Polled(g)
  BY <1>2, <1>4 DEF MessagesOK
<1> QED
  BY <1>1, <1>4, <1>6, <1>7, MarkedInv

\* A read that fails without an end of the stream keeps the invariant.
LEMMA ReadFailsInv == ASSUME TypeOK, ArrayInv, NEW f \in Fds, ReadFails(f)
                      PROVE  TypeOK' /\ ArrayInv'
<1>1. /\ pc = "scan" /\ pfd[i].fd = f /\ EndIteration /\ pfd' = Marked("out")
      /\ psize' = psize /\ sock' = sock /\ d' = d /\ room' = room
      /\ net' = net \/ (sock[f] # NoConn /\ net' = [net EXCEPT ![sock[f]] = Received(@)])
  BY DEF ReadFails, ReadsFrom, Visits
<1>2. net' \in [Conns -> Link]
  BY <1>1, ReceivedType, NetUpdateType DEF TypeOK
<1>3. TypeOK'
  BY <1>1, <1>2, MarkedType, EndIterationType DEF TypeOK
<1> QED
  BY <1>1, <1>3, UnchangedMessages, MarkedInv

\* An answer, sent or failed, keeps the invariant.
LEMMA RespondsInv ==
    ASSUME TypeOK, ArrayInv, pc = "scan", NEW f \in Fds, rcv[f] # NoMsg,
           NEW units \in Seq(Unit), units # << >>, Responds(f, units)
    PROVE  TypeOK' /\ ArrayInv'
<1>1. EntriesOK /\ MessagesOK
  BY DEF ArrayInv
<1>2. sock[f] # NoConn
  BY <1>1, PolledIsOpen DEF MessagesOK
<1>3. TypeOK'
  BY <1>2, RespondsType
<1>4. /\ pfd' = Marked("in") /\ EndIteration
      /\ psize' = psize /\ sock' = sock /\ d' = d /\ room' = room
  BY DEF Responds
<1> QED
  BY <1>3, <1>4, UnchangedMessages, MarkedInv

\* An iteration that writes nothing and only marks the slot.
LEMMA OnlyMarksInv ==
    ASSUME TypeOK, ArrayInv, pc = "scan", pfd' = Marked("in"), EndIteration,
           psize' = psize, sock' = sock, d' = d, room' = room, net' = net
    PROVE  TypeOK' /\ ArrayInv'
<1>1. TypeOK'
  BY MarkedType, EndIterationType DEF TypeOK
<1> QED
  BY <1>1, UnchangedMessages, MarkedInv

\* The POLLOUT branch keeps the invariant.
LEMMA WriteStepInv == ASSUME TypeOK, ArrayInv, WriteStep
                      PROVE  TypeOK' /\ ArrayInv'
<1> PICK f \in Fds : \/ NothingToAnswer(f) \/ DropsClient(f) \/ RefusesBlock(f)
                     \/ SendsBlock(f) \/ SendsNothing(f)
  BY DEF WriteStep
<1>1. pc = "scan" /\ pfd[i].fd = f
  BY DEF NothingToAnswer, DropsClient, RefusesBlock, SendsBlock, SendsNothing,
         WritesTo, Visits
<1>2. CASE NothingToAnswer(f) \/ SendsNothing(f)
  BY <1>1, <1>2, OnlyMarksInv DEF NothingToAnswer, SendsNothing
<1>3. CASE DropsClient(f)
  <2>1. Polled(f)
    BY <1>1, <1>3 DEF DropsClient, ArrayInv, MessagesOK
  <2> QED
    BY <1>1, <1>3, <2>1, RemoveClientInv DEF DropsClient
<1>4. CASE RefusesBlock(f)
  <2>1. PICK g \in BOOLEAN, b \in {rcv[f].block, BlockCount} :
            Responds(f, << [magic |-> g, code |-> MSG_RESPONSE_NA, block |-> b] >>)
    BY <1>4 DEF RefusesBlock
  <2>2. rcv[f] # NoMsg /\ rcv[f] \in Message
    BY <1>4, RcvType DEF RefusesBlock, TypeOK
  <2>3. b \in 0 .. BlockCount
    BY <2>2, WireAssumption DEF Message
  <2> DEFINE refusal == [magic |-> g, code |-> MSG_RESPONSE_NA, block |-> b]
  <2>4. refusal \in Unit /\ Responds(f, << refusal >>)
    BY <2>1, <2>3 DEF Unit, Message
  <2> HIDE DEF refusal
  <2>5. << refusal >> \in Seq(Unit) /\ << refusal >> # << >>
    BY <2>4
  <2> QED
    BY <1>1, <2>2, <2>4, <2>5, RespondsInv
<1>5. CASE SendsBlock(f)
  <2> DEFINE b == rcv[f].block
             units == << Ok(b) >> \o Data(b)
  <2>1. rcv[f] # NoMsg /\ b \in Blocks /\ Responds(f, units)
    BY <1>5, ServerAssumption DEF SendsBlock, Response
  <2>2. Ok(b) \in Unit /\ Data(b) \in Seq(Unit)
    BY <2>1, RequestType, DataType DEF Unit
  <2>3. units \in Seq(Unit) /\ units # << >>
    BY <2>2
  <2> QED
    BY <1>1, <2>1, <2>3, RespondsInv
<1> QED
  BY <1>2, <1>3, <1>4, <1>5

\* The POLLIN branch keeps the invariant.
LEMMA ReadStepInv == ASSUME TypeOK, ArrayInv, ReadStep
                     PROVE  TypeOK' /\ ArrayInv'
<1> PICK f \in Fds : StoresMessage(f) \/ ReadFails(f) \/ ClientLeft(f)
  BY DEF ReadStep
<1>1. CASE ClientLeft(f)
  <2>1. pc = "scan" /\ pfd[i].fd = f /\ sock[f] # NoConn /\ RemoveClient(f, Marked("out"))
    BY <1>1 DEF ClientLeft, ReadsFrom, Visits
  <2>2. Polled(f)
    BY <2>1, VisitedSlot
  <2> QED
    BY <2>1, <2>2, RemoveClientInv
<1> QED
  BY <1>1, StoresMessageInv, ReadFailsInv

\* A visit of the listening slot, with or without a client accepted, keeps the invariant.
LEMMA AcceptStepInv == ASSUME TypeOK, ArrayInv, AcceptStep
                       PROVE  TypeOK' /\ ArrayInv'
<1>1. CASE AcceptFails
  <2>1. /\ pc = "scan" /\ EndIteration
        /\ pfd' = pfd /\ psize' = psize /\ sock' = sock /\ net' = net
        /\ d' = d /\ room' = room
    BY <1>1 DEF AcceptFails, Visits
  <2>2. TypeOK'
    BY <2>1, EndIterationType DEF TypeOK
  <2> QED
    BY <2>1, <2>2, UnchangedMessages, SameEntries
<1> QED
  BY <1>1, AcceptsInv, AcceptsUnwatchedInv DEF AcceptStep

\* Passing over a slot with no event keeps the invariant.
LEMMA SkipEntryInv == ASSUME TypeOK, ArrayInv, SkipEntry
                      PROVE  TypeOK' /\ ArrayInv'
<1>1. /\ pc = "scan" /\ EndIteration
      /\ pfd' = pfd /\ psize' = psize /\ sock' = sock /\ net' = net
      /\ d' = d /\ room' = room
  BY DEF SkipEntry, Visits
<1>2. TypeOK'
  BY <1>1, EndIterationType DEF TypeOK
<1> QED
  BY <1>1, <1>2, UnchangedMessages, SameEntries

\* The listening socket alone in slot 0 satisfies both invariants.
LEMMA ServerInitInv == ServerInit /\ NetInit => TypeOK /\ ArrayInv
<1> SUFFICES ASSUME ServerInit, NetInit PROVE TypeOK /\ ArrayInv
  OBVIOUS
<1>1. /\ pc = "poll" /\ psize = 1 /\ i = 0 /\ c = 0
      /\ pfd = [j \in Slots |-> Unused]
      /\ d = RcvInit /\ room = InitialSize /\ sock = [f \in Fds |-> NoConn]
      /\ NetInit
  BY DEF ServerInit
<1>2. net \in [Conns -> Link]
  BY <1>1 DEF NetInit, Link
<1>3. Unused \in Entry /\ Unused.fd = ListenFd
  BY DEF Unused, Entry
<1>6. /\ d \in RcvArray(Fds, Message) /\ WellFormed(d)
      /\ \A f \in Fds : rcv[f] = NoMsg
  BY <1>1, RcvInitOK DEF rcv
<1>4. TypeOK
  BY <1>1, <1>2, <1>3, <1>6, ArraysAssumption, Constants DEF TypeOK
<1>7. MemoryOK
  BY <1>1, <1>6, ArraysAssumption DEF MemoryOK
<1>5. EntriesOK /\ MessagesOK /\ NoLeak
  BY <1>1, <1>3, <1>6, Constants DEF EntriesOK, MessagesOK, NoLeak
<1> QED
  BY <1>1, <1>4, <1>5, <1>7 DEF ArrayInv

\* Every step of the server keeps both invariants.
LEMMA ServerNextInv == ASSUME TypeOK, ArrayInv, ServerNext
                       PROVE  TypeOK' /\ ArrayInv'
<1>1. CASE PollFails
  <2>1. Exit("stopped")
    BY <1>1 DEF PollFails
  <2> QED
    BY <2>1, ExitType, StoppedInv
<1> QED
  BY <1>1, PollReturnsInv, SkipEntryInv, AcceptStepInv, ReadStepInv, WriteStepInv
  DEF ServerNext

\* What others do to connections leaves the server's arrays alone.
LEMMA OthersInv ==
    ASSUME TypeOK, ArrayInv, UNCHANGED serverVars, net' \in [Conns -> Link]
    PROVE  TypeOK' /\ ArrayInv'
<1>1. TypeOK'
  BY DEF TypeOK, serverVars
<1> QED
  BY <1>1 DEF ArrayInv, EntriesOK, MessagesOK, VisitsOK, NoLeak, MemoryOK,
              Polled, rcv, serverVars
=============================================================================

------------------------------- MODULE Arrays -------------------------------
(***************************************************************************)
(* The growing array of utils.c, as the server keeps messages in it: the   *)
(* elements up to size, in order, and the allocated size.  A search stops  *)
(* at the first element of a descriptor; a removal shifts the later ones   *)
(* down; a full array is moved to twice the memory.                        *)
(***************************************************************************)
EXTENDS Naturals, Sequences

CONSTANT InitialSize   \* elements an array is created with: 4

ASSUME ArraysAssumption == InitialSize \in Nat \ {0}

RcvArray(Socks, Messages) ==
    [content : Seq([from : Socks, data : Messages]), allocated : Nat \ {0}]

RcvInit == [content |-> << >>, allocated |-> InitialSize]

Size(a) == Len(a.content)

HasFrom(a, sockd) == \E j \in 1 .. Size(a) : a.content[j].from = sockd

\* The loop of all the functions: the first element of sockd.
FirstFrom(a, sockd) ==
    CHOOSE j \in 1 .. Size(a) :
        /\ a.content[j].from = sockd
        /\ \A h \in 1 .. j - 1 : a.content[h].from # sockd

\* utils_array_rcv_find, which returns NULL for what is not there.
RcvFind(a, sockd, null) ==
    IF HasFrom(a, sockd) THEN a.content[FirstFrom(a, sockd)].data ELSE null

\* Bug: the array is moved when it is full already, after the element is written.
GrownLate(size, allocated) == IF size > allocated THEN 2 * allocated ELSE allocated

\* The allocated size once there is room for one more element.
Grown(size, allocated) == IF size = allocated THEN 2 * allocated ELSE allocated

\* Bug: the message is written to the first element there is.
RcvAddFirst(a, sockd, m) ==
    IF a.content # << >> THEN [a EXCEPT !.content[1].data = m]
    ELSE [a EXCEPT !.content = << [from |-> sockd, data |-> m] >>]

\* utils_array_rcv_add
RcvAdd(a, sockd, m) ==
    IF HasFrom(a, sockd) THEN [a EXCEPT !.content[FirstFrom(a, sockd)].data = m]
    ELSE [content   |-> Append(a.content, [from |-> sockd, data |-> m]),
          allocated |-> Grown(Size(a), a.allocated)]

\* realloc is only called, and can only fail, for a new element of a full array.
MustGrow(a, sockd) == ~HasFrom(a, sockd) /\ Size(a) = a.allocated

\* Bug: nothing is removed.
RcvKeep(a, sockd) == a

\* Bug: the last element takes the place of the one before the removed element.
RcvRemoveBefore(a, sockd) ==
    IF ~HasFrom(a, sockd) THEN a
    ELSE [a EXCEPT !.content = [j \in 1 .. Size(a) - 1 |->
              IF j < FirstFrom(a, sockd) - 1 THEN a.content[j] ELSE a.content[j + 1]]]

\* utils_array_rcv_remove
RcvRemove(a, sockd) ==
    IF ~HasFrom(a, sockd) THEN a
    ELSE [a EXCEPT !.content = [j \in 1 .. Size(a) - 1 |->
              IF j < FirstFrom(a, sockd) THEN a.content[j] ELSE a.content[j + 1]]]

----------------------------------------------------------------------------

\* Between two calls an array holds a descriptor once and is not larger than its
\* memory, which every function asserts or takes for granted (utils.c:71, 110).
WellFormed(a) ==
    /\ Size(a) <= a.allocated
    /\ \A j, h \in 1 .. Size(a) : a.content[j].from = a.content[h].from => j = h
=============================================================================

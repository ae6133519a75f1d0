---------------------------- MODULE ArraysProofs ----------------------------
(***************************************************************************)
(* The functions of utils.c on an array of any length: the array behaves   *)
(* as a function from descriptors to messages, and stays well formed.      *)
(***************************************************************************)
EXTENDS Arrays, TLAPS, SequenceTheorems, WellFoundedInduction

\* The parts of an array and the length of its content.
LEMMA ArrayParts ==
    ASSUME NEW S, NEW M, NEW a \in RcvArray(S, M)
    PROVE  /\ a.content \in Seq([from : S, data : M]) /\ a.allocated \in Nat \ {0}
           /\ Size(a) \in Nat /\ DOMAIN a.content = 1 .. Size(a)
           /\ \A j \in 1 .. Size(a) : a.content[j] \in [from : S, data : M]
<1>1. a.content \in Seq([from : S, data : M]) /\ a.allocated \in Nat \ {0}
  BY DEF RcvArray
<1>2. /\ Len(a.content) \in Nat /\ DOMAIN a.content = 1 .. Len(a.content)
      /\ \A j \in 1 .. Len(a.content) : a.content[j] \in [from : S, data : M]
  BY <1>1, LenProperties, ElementOfSeq
<1> QED
  BY <1>1, <1>2 DEF Size

\* A search that finds anything finds the first element of the descriptor.
LEMMA FirstFromIsFirst ==
    ASSUME NEW S, NEW M, NEW a \in RcvArray(S, M), NEW f, HasFrom(a, f)
    PROVE  /\ FirstFrom(a, f) \in 1 .. Size(a)
           /\ a.content[FirstFrom(a, f)].from = f
           /\ \A h \in 1 .. FirstFrom(a, f) - 1 : a.content[h].from # f
<1> DEFINE At == {j \in 1 .. Size(a) : a.content[j].from = f}
<1>0. Size(a) \in Nat
  BY ArrayParts
<1>1. At \subseteq Nat /\ At # {}
  BY <1>0 DEF HasFrom
<1>2. PICK j \in At : \A h \in At : << h, j >> \notin OpToRel(<, Nat)
  BY <1>1, WFMin, NatLessThanWellFounded, Zenon
<1>3. ASSUME NEW h \in 1 .. j - 1 PROVE a.content[h].from # f
  <2>1. h \in 1 .. Size(a) /\ h \in Nat /\ h < j
    <3>1. j \in 1 .. Size(a)
      OBVIOUS
    <3> QED
      BY <1>0, <3>1
  <2>2. j \in Nat /\ << h, j >>[1] = h /\ << h, j >>[2] = j
    BY <1>1
  <2>3. << h, j >> \in Nat \X Nat
    BY <2>1, <2>2
  <2>4. h \notin At
    BY <1>2, <2>1, <2>2, <2>3, Zenon DEF OpToRel
  <2> QED
    BY <2>1, <2>4
<1>4. j \in 1 .. Size(a) /\ a.content[j].from = f
  OBVIOUS
<1> QED
  BY <1>3, <1>4 DEF FirstFrom

\* A well-formed array has no other element of the descriptor.
LEMMA FirstFromIsOnly ==
    ASSUME NEW S, NEW M, NEW a \in RcvArray(S, M), WellFormed(a),
           NEW f, NEW j \in 1 .. Size(a), a.content[j].from = f
    PROVE  HasFrom(a, f) /\ FirstFrom(a, f) = j
<1>1. HasFrom(a, f)
  BY DEF HasFrom
<1>2. FirstFrom(a, f) \in 1 .. Size(a) /\ a.content[FirstFrom(a, f)].from = f
  BY <1>1, FirstFromIsFirst
<1> QED
  BY <1>1, <1>2 DEF WellFormed

\* What a search finds in a well-formed array, without naming the first element.
LEMMA RcvFindIs ==
    ASSUME NEW S, NEW M, NEW a \in RcvArray(S, M), WellFormed(a), NEW f, NEW null
    PROVE  /\ \A j \in 1 .. Size(a) :
                  a.content[j].from = f => RcvFind(a, f, null) = a.content[j].data
           /\ ~HasFrom(a, f) => RcvFind(a, f, null) = null
  BY FirstFromIsOnly DEF RcvFind

\* A search finds a message or null.
LEMMA RcvFindType ==
    ASSUME NEW S, NEW M, NEW a \in RcvArray(S, M), NEW f, NEW null
    PROVE  RcvFind(a, f, null) \in M \cup {null}
<1>1. CASE HasFrom(a, f)
  <2>1. a.content[FirstFrom(a, f)] \in [from : S, data : M]
    BY <1>1, FirstFromIsFirst, ArrayParts
  <2> QED
    BY <1>1, <2>1 DEF RcvFind
<1> QED
  BY <1>1 DEF RcvFind

----------------------------------------------------------------------------
(* utils_array_rcv_init and utils_array_rcv_add.                            *)

\* The array a server starts with.
LEMMA RcvInitOK ==
    ASSUME NEW S, NEW M, NEW f, NEW null
    PROVE  /\ RcvInit \in RcvArray(S, M) /\ WellFormed(RcvInit)
           /\ RcvFind(RcvInit, f, null) = null
<1>1. RcvInit.content = << >> /\ RcvInit.allocated = InitialSize
  BY DEF RcvInit
<1>2. Size(RcvInit) = 0
  BY <1>1 DEF Size
<1>3. ~HasFrom(RcvInit, f) /\ WellFormed(RcvInit)
  BY <1>1, <1>2, ArraysAssumption DEF HasFrom, WellFormed
<1>4. RcvInit \in RcvArray(S, M)
  BY ArraysAssumption DEF RcvInit, RcvArray
<1> QED
  BY <1>3, <1>4 DEF RcvFind

\* A message added to an array that has one of the descriptor replaces it.
LEMMA RcvAddUpdates ==
    ASSUME NEW S, NEW M, NEW a \in RcvArray(S, M), NEW f, NEW m \in M,
           HasFrom(a, f)
    PROVE  LET new == RcvAdd(a, f, m)
               at  == FirstFrom(a, f)
           IN  /\ new \in RcvArray(S, M)
               /\ Size(new) = Size(a) /\ new.allocated = a.allocated
               /\ \A j \in 1 .. Size(a) :
                     /\ new.content[j].from = a.content[j].from
                     /\ new.content[j].data = IF j = at THEN m ELSE a.content[j].data
<1> DEFINE at == FirstFrom(a, f)
           new == RcvAdd(a, f, m)
           e == [a.content[at] EXCEPT !.data = m]
<1>0. DOMAIN a.content = 1 .. Size(a)
  BY ArrayParts
<1>1. at \in 1 .. Size(a) /\ Size(a) = Len(a.content)
  BY FirstFromIsFirst DEF Size
<1> HIDE DEF at
<1>2. a.content[at] \in [from : S, data : M] /\ a.content \in Seq([from : S, data : M])
  BY <1>1, ArrayParts
<1>3. e \in [from : S, data : M] /\ e.from = a.content[at].from /\ e.data = m
  BY <1>2
<1>4. new = [a EXCEPT !.content = [a.content EXCEPT ![at] = e]]
  BY DEF RcvAdd, at
<1> HIDE DEF e, new
<1>5. new.content = [a.content EXCEPT ![at] = e] /\ new.allocated = a.allocated
  BY <1>4 DEF RcvArray
<1>6. new.content \in Seq([from : S, data : M]) /\ Len(new.content) = Len(a.content)
  BY <1>1, <1>2, <1>3, <1>5, ExceptSeq
<1>7. new \in RcvArray(S, M)
  BY <1>4, <1>5, <1>6 DEF RcvArray
<1>8. ASSUME NEW j \in 1 .. Size(a)
      PROVE  new.content[j] = IF j = at THEN e ELSE a.content[j]
  BY <1>0, <1>5 DEF Size
<1> QED
  BY <1>3, <1>5, <1>6, <1>7, <1>8 DEF Size, at, new

\* A message of another descriptor is appended, in memory that has room for it.
LEMMA RcvAddAppends ==
    ASSUME NEW S, NEW M, NEW a \in RcvArray(S, M), NEW f \in S, NEW m \in M,
           ~HasFrom(a, f)
    PROVE  LET new == RcvAdd(a, f, m)
           IN  /\ new \in RcvArray(S, M)
               /\ Size(new) = Size(a) + 1
               /\ new.allocated = Grown(Size(a), a.allocated)
               /\ \A j \in 1 .. Size(a) : new.content[j] = a.content[j]
               /\ new.content[Size(a) + 1] = [from |-> f, data |-> m]
<1> DEFINE e == [from |-> f, data |-> m]
           new == RcvAdd(a, f, m)
<1>1. /\ a.content \in Seq([from : S, data : M]) /\ Size(a) = Len(a.content)
      /\ Size(a) \in Nat /\ a.allocated \in Nat \ {0}
  BY ArrayParts DEF Size
<1>2. e \in [from : S, data : M]
  OBVIOUS
<1>3. new = [content |-> Append(a.content, e), allocated |-> Grown(Size(a), a.allocated)]
  BY DEF RcvAdd
<1>4. ASSUME NEW T, NEW s \in Seq(T), NEW x \in T
      PROVE  /\ Append(s, x) \in Seq(T) /\ Len(Append(s, x)) = Len(s) + 1
             /\ \A j \in 1 .. Len(s) : Append(s, x)[j] = s[j]
             /\ Append(s, x)[Len(s) + 1] = x
  OBVIOUS
<1>5. Grown(Size(a), a.allocated) \in Nat \ {0}
  BY <1>1 DEF Grown
<1> HIDE DEF e
<1>6. /\ Append(a.content, e) \in Seq([from : S, data : M])
      /\ Len(Append(a.content, e)) = Size(a) + 1
      /\ \A j \in 1 .. Size(a) : Append(a.content, e)[j] = a.content[j]
      /\ Append(a.content, e)[Size(a) + 1] = e
  BY <1>1, <1>2, <1>4
<1>7. new.content = Append(a.content, e) /\ new.allocated = Grown(Size(a), a.allocated)
  BY <1>3
<1>8. new \in RcvArray(S, M)
  BY <1>3, <1>5, <1>6 DEF RcvArray
<1> QED
  BY <1>6, <1>7, <1>8 DEF Size, e

\* Adding keeps the array well formed, growth included: the asserts at utils.c:71
\* and 110 hold.  The message is found again, and those of others as before.
LEMMA RcvAddOK ==
    ASSUME NEW S, NEW M, NEW a \in RcvArray(S, M), WellFormed(a),
           NEW f \in S, NEW m \in M
    PROVE  /\ RcvAdd(a, f, m) \in RcvArray(S, M)
           /\ WellFormed(RcvAdd(a, f, m))
           /\ \A g, null : RcvFind(RcvAdd(a, f, m), g, null) =
                               IF g = f THEN m ELSE RcvFind(a, g, null)
<1> DEFINE new == RcvAdd(a, f, m)
           n == Size(a)
<1>1. n \in Nat /\ a.allocated \in Nat \ {0} /\ n <= a.allocated
  BY ArrayParts DEF WellFormed
<1>2. \A j, h \in 1 .. n : a.content[j].from = a.content[h].from => j = h
  BY DEF WellFormed
<1>3. CASE HasFrom(a, f)
  <2> DEFINE at == FirstFrom(a, f)
  <2>1. at \in 1 .. n /\ a.content[at].from = f
    BY <1>3, FirstFromIsFirst
  <2>2. /\ new \in RcvArray(S, M) /\ Size(new) = n /\ new.allocated = a.allocated
        /\ \A j \in 1 .. n :
              /\ new.content[j].from = a.content[j].from
              /\ new.content[j].data = IF j = at THEN m ELSE a.content[j].data
    BY <1>3, RcvAddUpdates
  <2> HIDE DEF at, new
  <2>3. WellFormed(new)
    BY <1>1, <1>2, <2>2 DEF WellFormed
  <2>4. ASSUME NEW g, NEW null
        PROVE  RcvFind(new, g, null) = IF g = f THEN m ELSE RcvFind(a, g, null)
    <3>1. CASE \E j \in 1 .. n : a.content[j].from = g
      <4>1. PICK j \in 1 .. n : a.content[j].from = g
        BY <3>1
      <4>2. RcvFind(new, g, null) = new.content[j].data
        BY <2>2, <2>3, <4>1, RcvFindIs
      <4>3. RcvFind(a, g, null) = a.content[j].data
        BY <4>1, RcvFindIs
      <4>4. j = at <=> g = f
        BY <1>2, <2>1, <4>1
      <4> QED
        BY <2>2, <4>2, <4>3, <4>4
    <3>2. CASE ~ \E j \in 1 .. n : a.content[j].from = g
      <4>1. ~HasFrom(a, g) /\ ~HasFrom(new, g) /\ g # f
        BY <2>1, <2>2, <3>2 DEF HasFrom
      <4> QED
        BY <2>2, <2>3, <4>1, RcvFindIs
    <3> QED
      BY <3>1, <3>2
  <2> QED
    BY <2>2, <2>3, <2>4 DEF new
<1>4. CASE ~HasFrom(a, f)
  <2>1. /\ new \in RcvArray(S, M) /\ Size(new) = n + 1
        /\ new.allocated = Grown(n, a.allocated)
        /\ \A j \in 1 .. n : new.content[j] = a.content[j]
        /\ new.content[n + 1] = [from |-> f, data |-> m]
    BY <1>4, RcvAddAppends
  <2>2. \A j \in 1 .. n : a.content[j].from # f
    BY <1>4 DEF HasFrom
  <2>3. new.content[n + 1].from = f /\ new.content[n + 1].data = m
    BY <2>1
  <2>4. new.allocated >= n + 1
    BY <1>1, <2>1 DEF Grown
  <2> HIDE DEF new, n
  <2>5. \A j, h \in 1 .. n + 1 : new.content[j].from = new.content[h].from => j = h
    <3>1. \A j \in 1 .. n + 1 : j \in 1 .. n \/ j = n + 1
      BY <1>1
    <3> QED
      BY <1>2, <2>1, <2>2, <2>3, <3>1
  <2>6. WellFormed(new)
    BY <2>1, <2>4, <2>5 DEF WellFormed
  <2>7. ASSUME NEW g, NEW null
        PROVE  RcvFind(new, g, null) = IF g = f THEN m ELSE RcvFind(a, g, null)
    <3>0. n + 1 \in 1 .. Size(new) /\ 1 .. n \subseteq 1 .. Size(new)
      BY <1>1, <2>1
    <3>1. CASE g = f
      BY <2>1, <2>3, <2>6, <3>0, <3>1, RcvFindIs
    <3>2. CASE g # f /\ HasFrom(a, g)
      <4>1. PICK j \in 1 .. n : a.content[j].from = g
        BY <3>2 DEF HasFrom, n
      <4>2. RcvFind(new, g, null) = new.content[j].data
        BY <2>1, <2>6, <3>0, <4>1, RcvFindIs
      <4>3. RcvFind(a, g, null) = a.content[j].data
        BY <4>1, RcvFindIs DEF n
      <4> QED
        BY <2>1, <3>2, <4>2, <4>3
    <3>3. CASE g # f /\ ~HasFrom(a, g)
      <4>1. \A j \in 1 .. n : a.content[j].from # g
        BY <3>3 DEF HasFrom, n
      <4>2. \A j \in 1 .. Size(new) : j \in 1 .. n \/ j = n + 1
        BY <1>1, <2>1
      <4>3. ~HasFrom(new, g)
        BY <2>1, <2>3, <3>3, <4>1, <4>2 DEF HasFrom
      <4> QED
        BY <2>1, <2>6, <3>3, <4>3, RcvFindIs
    <3> QED
      BY <3>1, <3>2, <3>3
  <2> QED
    BY <2>1, <2>6, <2>7 DEF new
<1> QED
  BY <1>3, <1>4

----------------------------------------------------------------------------
(* utils_array_rcv_remove.                                                  *)

\* The shift moves the elements after the removed one a place down.
LEMMA RcvRemoveShifts ==
    ASSUME NEW S, NEW M, NEW a \in RcvArray(S, M), NEW f, HasFrom(a, f)
    PROVE  LET new == RcvRemove(a, f)
               at  == FirstFrom(a, f)
           IN  /\ new \in RcvArray(S, M)
               /\ Size(new) = Size(a) - 1 /\ new.allocated = a.allocated
               /\ \A j \in 1 .. Size(a) - 1 :
                     new.content[j] = IF j < at THEN a.content[j] ELSE a.content[j + 1]
<1> DEFINE at == FirstFrom(a, f)
           new == RcvRemove(a, f)
           s == [j \in 1 .. Size(a) - 1 |-> IF j < at THEN a.content[j] ELSE a.content[j + 1]]
<1>1. at \in 1 .. Size(a) /\ Size(a) \in Nat
  BY FirstFromIsFirst, ArrayParts
<1>2. \A j \in 1 .. Size(a) : a.content[j] \in [from : S, data : M]
  BY ArrayParts
<1>3. new = [a EXCEPT !.content = s]
  BY DEF RcvRemove
<1> HIDE DEF at
<1>4. ASSUME NEW j \in 1 .. Size(a) - 1
      PROVE  (IF j < at THEN a.content[j] ELSE a.content[j + 1]) \in [from : S, data : M]
  <2>1. j \in 1 .. Size(a) /\ j + 1 \in 1 .. Size(a)
    BY <1>1
  <2> QED
    BY <1>2, <2>1
<1>5. Size(a) - 1 \in Nat
  BY <1>1
<1>6. s \in Seq([from : S, data : M]) /\ Len(s) = Size(a) - 1
  <2>1. s \in [1 .. Size(a) - 1 -> [from : S, data : M]]
    BY <1>4
  <2> HIDE DEF s
  <2>2. s \in Seq([from : S, data : M])
    <3>1. s \in UNION {[1 .. n -> [from : S, data : M]] : n \in Nat}
      BY <1>5, <2>1
    <3> QED
      BY <3>1, SeqDef, Zenon
  <2>3. DOMAIN s = 1 .. Size(a) - 1 /\ DOMAIN s = 1 .. Len(s) /\ Len(s) \in Nat
    BY <2>1, <2>2, LenProperties
  <2>4. Len(s) = Size(a) - 1
    BY <1>5, <2>3
  <2> QED
    BY <2>2, <2>4
<1>7. \A j \in 1 .. Size(a) - 1 :
          s[j] = IF j < at THEN a.content[j] ELSE a.content[j + 1]
  OBVIOUS
<1> HIDE DEF s, new
<1>8. new.content = s /\ new.allocated = a.allocated /\ new \in RcvArray(S, M)
  BY <1>3, <1>6 DEF RcvArray
<1> QED
  BY <1>6, <1>7, <1>8 DEF Size, at, new

\* Removing keeps the array well formed; no message of the descriptor is found
\* any more, and those of others are found as before, shifted or not.
LEMMA RcvRemoveOK ==
    ASSUME NEW S, NEW M, NEW a \in RcvArray(S, M), WellFormed(a), NEW f
    PROVE  /\ RcvRemove(a, f) \in RcvArray(S, M)
           /\ WellFormed(RcvRemove(a, f))
           /\ \A g, null : RcvFind(RcvRemove(a, f), g, null) =
                               IF g = f THEN null ELSE RcvFind(a, g, null)
<1> DEFINE new == RcvRemove(a, f)
           n == Size(a)
           at == FirstFrom(a, f)
           old(j) == IF j < at THEN j ELSE j + 1
<1>1. n \in Nat /\ a.allocated \in Nat \ {0} /\ n <= a.allocated
  BY ArrayParts DEF WellFormed
<1>2. \A j, h \in 1 .. n : a.content[j].from = a.content[h].from => j = h
  BY DEF WellFormed
<1>3. CASE ~HasFrom(a, f)
  BY <1>3, RcvFindIs DEF RcvRemove
<1>4. CASE HasFrom(a, f)
  <2>1. at \in 1 .. n /\ a.content[at].from = f
    BY <1>4, FirstFromIsFirst
  <2>2. /\ new \in RcvArray(S, M) /\ Size(new) = n - 1 /\ new.allocated = a.allocated
        /\ \A j \in 1 .. n - 1 :
              new.content[j] = IF j < at THEN a.content[j] ELSE a.content[j + 1]
    BY <1>4, RcvRemoveShifts
  <2> HIDE DEF at, new, n
  <2>3. ASSUME NEW j \in 1 .. n - 1
        PROVE  /\ old(j) \in 1 .. n /\ old(j) # at
               /\ new.content[j] = a.content[old(j)]
    BY <1>1, <2>1, <2>2
  <2>4. ASSUME NEW j \in 1 .. n - 1, NEW h \in 1 .. n - 1,
               new.content[j].from = new.content[h].from
        PROVE  j = h
    <3>1. old(j) = old(h)
      BY <1>2, <2>3, <2>4
    <3> QED
      BY <1>1, <2>1, <3>1
  <2>5. WellFormed(new)
    BY <1>1, <2>2, <2>4 DEF WellFormed
  <2>6. ASSUME NEW g, NEW null
        PROVE  RcvFind(new, g, null) = IF g = f THEN null ELSE RcvFind(a, g, null)
    <3>1. CASE \E j \in 1 .. n - 1 : new.content[j].from = g
      <4>1. PICK j \in 1 .. n - 1 : new.content[j].from = g
        BY <3>1
      <4>2. RcvFind(new, g, null) = new.content[j].data
        BY <2>2, <2>5, <4>1, RcvFindIs
      <4>3. old(j) \in 1 .. n /\ a.content[old(j)].from = g /\ old(j) # at
        BY <2>3, <4>1
      <4>4. RcvFind(a, g, null) = a.content[old(j)].data
        BY <4>3, RcvFindIs DEF n
      <4>5. g # f
        BY <1>2, <2>1, <4>3
      <4> QED
        BY <2>3, <4>2, <4>4, <4>5
    <3>2. CASE ~ \E j \in 1 .. n - 1 : new.content[j].from = g
      <4>1. RcvFind(new, g, null) = null
        <5>1. ~HasFrom(new, g)
          BY <2>2, <3>2 DEF HasFrom
        <5> QED
          BY <2>2, <2>5, <5>1, RcvFindIs
      <4>2. ASSUME g # f, NEW j \in 1 .. n, a.content[j].from = g PROVE FALSE
        <5>1. j # at
          BY <2>1, <4>2
        <5>2. CASE j < at
          <6>1. j \in 1 .. n - 1 /\ old(j) = j
            BY <1>1, <2>1, <5>2
          <6> QED
            BY <2>3, <3>2, <4>2, <6>1
        <5>3. CASE j > at
          <6>1. j - 1 \in 1 .. n - 1 /\ old(j - 1) = j
            BY <1>1, <2>1, <5>3
          <6> QED
            BY <2>3, <3>2, <4>2, <6>1
        <5> QED
          BY <1>1, <2>1, <5>1, <5>2, <5>3
      <4>3. g # f => ~HasFrom(a, g)
        BY <4>2 DEF HasFrom, n
      <4>4. g # f => RcvFind(a, g, null) = null
        BY <4>3, RcvFindIs
      <4> QED
        BY <4>1, <4>4
    <3> QED
      BY <3>1, <3>2
  <2> QED
    BY <2>2, <2>5, <2>6 DEF new
<1> QED
  BY <1>3, <1>4

----------------------------------------------------------------------------

\* Adding and removing yield arrays, also from an array that is not well formed.
LEMMA RcvTypes ==
    ASSUME NEW S, NEW M, NEW a \in RcvArray(S, M), NEW f \in S
    PROVE  /\ \A m \in M : RcvAdd(a, f, m) \in RcvArray(S, M)
           /\ RcvRemove(a, f) \in RcvArray(S, M)
<1>1. \A m \in M : RcvAdd(a, f, m) \in RcvArray(S, M)
  BY RcvAddUpdates, RcvAddAppends
<1>2. RcvRemove(a, f) \in RcvArray(S, M)
  BY RcvRemoveShifts DEF RcvRemove
<1> QED
  BY <1>1, <1>2
=============================================================================

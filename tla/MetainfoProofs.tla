--------------------------- MODULE MetainfoProofs ---------------------------
(***************************************************************************)
(* Loading a metainfo file, for every text the program, a cut or an added  *)
(* comment can have left and all those of OtherTexts: the blocks cover the *)
(* file exactly, the file the text was made from is not damaged, a cut     *)
(* text is noticed, a whole one is accepted and every block judged by the  *)
(* bytes of that file, and what is loaded is what the text says, item by   *)
(* item, with comments and blank lines anywhere.                           *)
(***************************************************************************)
EXTENDS Metainfo, TLAPS, SequenceTheorems, FiniteSetTheorems

Torrent == [hash : Digest, size : Nat, peer_count : Nat, block_count : Nat,
            hashes : Seq(Digest), peers : Seq(Nat)]

IsNumber(line) == line.kind = "number"

\* No number before line j.
NoneBefore(lines, j) == \A h \in 1 .. Len(lines) : h < j => ~IsNumber(lines[h])

\* The first number, if there is one, is n; with cut, or it is all that is left of it.
SaysSize(lines, n, cut) ==
    \A j \in 1 .. Len(lines) :
        IsNumber(lines[j]) /\ NoneBefore(lines, j) =>
            lines[j].value = n \/ (cut /\ j = Len(lines))

TextOK == /\ text \in Seq(Line) /\ name \in Names /\ shared \in Contents \cup {Absent}
          /\ shared # Absent => SaysSize(text, Len(shared), TRUE)

\* What holds at each item.
Reading  == at \in {"name", "hash", "size", "peer_count", "hashes", "peers", "open"}
SizeRead == at \in {"peer_count", "hashes", "peers", "open", "verify", "loaded"}
Counted  == at \in {"hashes", "peers", "open", "verify", "loaded"}
HasFile  == at \in {"verify", "loaded"}

LoadInv ==
    /\ TextOK
    /\ t \in Torrent /\ pos \in 1 .. Len(text) + 1
    /\ at \in {"name", "hash", "size"} => NoneBefore(text, pos)
    /\ SizeRead /\ shared # Absent =>
          t.size = Len(shared) \/ (at = "peer_count" /\ pos = Len(text) + 1)
    /\ Counted => t.block_count = BlockCountOf(t.size)
    /\ HasFile => Len(disk) = t.size /\ t.size <= MaxOff
    /\ Reading => block = 0
    /\ at = "verify" => block \in 0 .. t.block_count - 1
    /\ at = "loaded" => t.block_count = 0 \/ t.size % MaxBlockSize # 0

----------------------------------------------------------------------------
(* The text.                                                                *)

\* The elements of two sequences, one after the other.
LEMMA Concat ==
    ASSUME NEW S, NEW x \in Seq(S), NEW y \in Seq(S)
    PROVE  /\ x \o y \in Seq(S) /\ Len(x \o y) = Len(x) + Len(y)
           /\ \A i \in 1 .. Len(x) : (x \o y)[i] = x[i]
           /\ \A i \in 1 .. Len(y) : (x \o y)[Len(x) + i] = y[i]
<1>1. /\ x \o y \in Seq(S) /\ Len(x \o y) = Len(x) + Len(y)
      /\ Len(x) \in Nat /\ Len(y) \in Nat
      /\ \A i \in 1 .. Len(x) + Len(y) :
            (x \o y)[i] = IF i <= Len(x) THEN x[i] ELSE y[i - Len(x)]
  BY ConcatProperties
<1>2. ASSUME NEW i \in 1 .. Len(x) PROVE (x \o y)[i] = x[i]
  BY <1>1
<1>3. ASSUME NEW i \in 1 .. Len(y) PROVE (x \o y)[Len(x) + i] = y[i]
  <2>1. Len(x) + i \in 1 .. Len(x) + Len(y) /\ ~(Len(x) + i <= Len(x)) /\ (Len(x) + i) - Len(x) = i
    BY <1>1
  <2> QED
    BY <1>1, <2>1
<1> QED
  BY <1>1, <1>2, <1>3

\* A line has the kind it is made with.
LEMMA LineTypes ==
    /\ Comment \in Line /\ Blank \in Line /\ Word \in Line
    /\ \A h \in Digest : HashLine(h) \in Line /\ HashLine(h).kind = "hash"
    /\ \A n \in Nat : /\ NumberLine(n) \in Line /\ NumberLine(n).kind = "number"
                      /\ NumberLine(n).value = n
                      /\ PeerLine(n) \in Line /\ PeerLine(n).kind = "peer"
    /\ Comment.kind = "comment" /\ Word.kind = "word"
  BY DEF Comment, Blank, Word, HashLine, NumberLine, PeerLine, Line

\* The lesser of two numbers.
LEMMA MinOfTwo == ASSUME NEW x \in Nat, NEW y \in Nat
                  PROVE  /\ Min({x, y}) \in {x, y} /\ Min({x, y}) <= x /\ Min({x, y}) <= y
                         /\ x <= y => Min({x, y}) = x
                         /\ y <= x => Min({x, y}) = y
<1>1. \E m \in {x, y} : \A z \in {x, y} : m <= z
  OBVIOUS
<1>2. Min({x, y}) \in {x, y} /\ Min({x, y}) <= x /\ Min({x, y}) <= y
  BY <1>1 DEF Min
<1> QED
  BY <1>2

\* A chunk of a file is a digest.
LEMMA ChunkType == ASSUME NEW bytes \in Seq({0, 1}), NEW j \in Nat \ {0}
                   PROVE  Chunk(bytes, j) \in Digest
<1> DEFINE from == (j - 1) * MaxBlockSize + 1
           to == Min({j * MaxBlockSize, Len(bytes)})
<1>1. MaxBlockSize \in Nat
  BY MetainfoAssumption, PowersOfTwo
<1>2. j * MaxBlockSize \in Nat /\ (j - 1) * MaxBlockSize \in Nat
  BY <1>1
<1>3. from \in Nat \ {0} /\ to \in Nat /\ to <= Len(bytes)
  BY <1>2, MinOfTwo
<1> HIDE DEF from, to
<1>4. SubSeq(bytes, from, to) \in Seq({0, 1})
  BY <1>3
<1> QED
  BY <1>4 DEF Chunk, Digest, from, to

\* The block count of a size is a number.
LEMMA BlockCountType == ASSUME NEW size \in Nat PROVE BlockCountOf(size) \in Nat
<1> DEFINE W == 2 ^ Width
           n == (size + MaxBlockSize - 1) % W
<1>1. MaxBlockSize \in Nat /\ MaxBlockSize > 0 /\ W \in Nat /\ W > 0
  BY MetainfoAssumption, PowersOfTwo
<1> HIDE DEF W
<1>2. size + MaxBlockSize - 1 \in Nat
  BY <1>1
<1>3. n \in Nat
  BY <1>1, <1>2
<1> HIDE DEF n
<1>4. n \div MaxBlockSize \in Nat
  BY <1>1, <1>3
<1> QED
  BY <1>4 DEF BlockCountOf, n, W

\* The lines of a new metainfo file that come after its numbers.
LEMMA ListsType ==
    /\ \A bytes \in Contents : HashLines(bytes) \in Seq(Line)
    /\ \A n \in Nat : PeerLines(n) \in Seq(Line)
<1>1. ASSUME NEW bytes \in Contents PROVE HashLines(bytes) \in Seq(Line)
  <2>1. bytes \in Seq({0, 1}) /\ Len(bytes) \in Nat
    BY MetainfoAssumption
  <2>2. BlockCountOf(Len(bytes)) \in Nat
    BY <2>1, BlockCountType
  <2>3. \A j \in 1 .. BlockCountOf(Len(bytes)) : HashLine(Chunk(bytes, j)) \in Line
    BY <2>1, <2>2, ChunkType, LineTypes
  <2> QED
    BY <2>2, <2>3 DEF HashLines
<1>2. ASSUME NEW n \in Nat PROVE PeerLines(n) \in Seq(Line)
  <2>1. \A p \in 1 .. n : PeerLine(p) \in Line
    BY LineTypes
  <2> QED
    BY <2>1 DEF PeerLines
<1> QED
  BY <1>1, <1>2

\* The lines of a new metainfo file.
LEMMA CreatedLines ==
    ASSUME NEW bytes \in Contents, NEW q, q = CreatedText(bytes),
           NEW count, count = BlockCountOf(Len(bytes))
    PROVE  /\ q \in Seq(Line) /\ count \in Nat /\ Len(q) = 8 + count + PeerCount
           /\ \A i \in {1, 3, 5, 7, 8 + count} : q[i] = Comment
           /\ q[2] = HashLine(bytes) /\ q[4] = NumberLine(Len(bytes))
           /\ q[6] = NumberLine(PeerCount)
           /\ \A j \in 1 .. count : q[7 + j] = HashLine(Chunk(bytes, j))
           /\ \A p \in 1 .. PeerCount : q[8 + count + p] = PeerLine(p)
<1> DEFINE head == << Comment, HashLine(bytes), Comment, NumberLine(Len(bytes)), Comment,
                      NumberLine(PeerCount), Comment >>
           hashes == HashLines(bytes)
           peers == PeerLines(PeerCount)
           gap == << Comment >>
           pre == head \o hashes
           more == pre \o gap
<1>1. q = more \o peers
  BY DEF CreatedText, Written, FileHash
<1>2. bytes \in Digest /\ Len(bytes) \in Nat /\ PeerCount \in Nat /\ count \in Nat
  BY MetainfoAssumption, BlockCountType DEF Digest
<1>3. /\ HashLine(bytes) \in Line /\ NumberLine(Len(bytes)) \in Line
      /\ NumberLine(PeerCount) \in Line /\ Comment \in Line
  BY <1>2, LineTypes
<1>4. head \in Seq(Line) /\ Len(head) = 7 /\ gap \in Seq(Line) /\ Len(gap) = 1
  BY <1>3
<1>5. /\ \A i \in {1, 3, 5, 7} : head[i] = Comment
      /\ head[2] = HashLine(bytes) /\ head[4] = NumberLine(Len(bytes))
      /\ head[6] = NumberLine(PeerCount) /\ gap[1] = Comment
  OBVIOUS
<1>6. /\ hashes \in Seq(Line) /\ Len(hashes) = count
      /\ \A j \in 1 .. count : hashes[j] = HashLine(Chunk(bytes, j))
  BY <1>2, ListsType DEF HashLines
<1>7. /\ peers \in Seq(Line) /\ Len(peers) = PeerCount
      /\ \A p \in 1 .. PeerCount : peers[p] = PeerLine(p)
  BY <1>2, ListsType DEF PeerLines
<1> HIDE DEF head, hashes, gap, peers
<1>8. /\ pre \in Seq(Line) /\ Len(pre) = 7 + count
      /\ \A i \in 1 .. 7 : pre[i] = head[i]
      /\ \A j \in 1 .. count : pre[7 + j] = hashes[j]
  <2>1. head \in Seq(Line) /\ hashes \in Seq(Line)
    BY <1>4, <1>6
  <2>2. /\ head \o hashes \in Seq(Line) /\ Len(head \o hashes) = Len(head) + Len(hashes)
        /\ \A i \in 1 .. Len(head) : (head \o hashes)[i] = head[i]
        /\ \A i \in 1 .. Len(hashes) : (head \o hashes)[Len(head) + i] = hashes[i]
    BY <2>1, Concat
  <2>3. Len(head) = 7 /\ Len(hashes) = count
    BY <1>4, <1>6
  <2> QED
    BY <2>2, <2>3
<1> HIDE DEF pre
<1>9. /\ more \in Seq(Line) /\ Len(more) = 8 + count
      /\ \A i \in 1 .. 7 + count : more[i] = pre[i]
      /\ more[8 + count] = Comment
  <2>1. pre \in Seq(Line) /\ gap \in Seq(Line)
    BY <1>4, <1>8
  <2>2. /\ pre \o gap \in Seq(Line) /\ Len(pre \o gap) = Len(pre) + Len(gap)
        /\ \A i \in 1 .. Len(pre) : (pre \o gap)[i] = pre[i]
        /\ \A i \in 1 .. Len(gap) : (pre \o gap)[Len(pre) + i] = gap[i]
    BY <2>1, Concat
  <2>3. Len(pre) = 7 + count /\ Len(gap) = 1
    BY <1>4, <1>8
  <2>4. (7 + count) + 1 = 8 + count /\ 1 \in 1 .. 1
    BY <1>2
  <2>5. more[8 + count] = gap[1]
    BY <2>2, <2>3, <2>4
  <2> QED
    BY <1>5, <2>2, <2>3, <2>4, <2>5
<1> HIDE DEF more
<1>10. /\ q \in Seq(Line) /\ Len(q) = 8 + count + PeerCount
       /\ \A i \in 1 .. 8 + count : q[i] = more[i]
       /\ \A p \in 1 .. PeerCount : q[8 + count + p] = peers[p]
  <2>1. more \in Seq(Line) /\ peers \in Seq(Line)
    BY <1>7, <1>9
  <2>2. /\ more \o peers \in Seq(Line) /\ Len(more \o peers) = Len(more) + Len(peers)
        /\ \A i \in 1 .. Len(more) : (more \o peers)[i] = more[i]
        /\ \A i \in 1 .. Len(peers) : (more \o peers)[Len(more) + i] = peers[i]
    BY <2>1, Concat
  <2>3. Len(more) = 8 + count /\ Len(peers) = PeerCount
    BY <1>7, <1>9
  <2> QED
    BY <1>1, <2>2, <2>3
<1>11. ASSUME NEW i \in 1 .. 7 PROVE q[i] = head[i]
  <2>1. i \in 1 .. 7 + count /\ i \in 1 .. 8 + count
    BY <1>2
  <2> QED
    BY <1>8, <1>9, <1>10, <2>1
<1>12. ASSUME NEW j \in 1 .. count PROVE q[7 + j] = HashLine(Chunk(bytes, j))
  <2>1. 7 + j \in 1 .. 7 + count /\ 7 + j \in 1 .. 8 + count
    BY <1>2
  <2> QED
    BY <1>6, <1>8, <1>9, <1>10, <2>1
<1>13. q[8 + count] = Comment
  BY <1>2, <1>9, <1>10
<1>14. \A i \in {1, 3, 5, 7} : q[i] = Comment
  BY <1>5, <1>11
<1>15. q[2] = HashLine(bytes) /\ q[4] = NumberLine(Len(bytes)) /\ q[6] = NumberLine(PeerCount)
  BY <1>5, <1>11
<1>16. \A p \in 1 .. PeerCount : q[8 + count + p] = PeerLine(p)
  BY <1>7, <1>10
<1>17. \A i \in {1, 3, 5, 7, 8 + count} : q[i] = Comment
  BY <1>13, <1>14
<1> QED
  BY <1>2, <1>10, <1>12, <1>15, <1>16, <1>17

\* A new metainfo file gives the size of the file it is made from.
LEMMA CreatedSays ==
    ASSUME NEW bytes \in Contents
    PROVE  /\ CreatedText(bytes) \in Seq(Line)
           /\ SaysSize(CreatedText(bytes), Len(bytes), FALSE)
<1> DEFINE q == CreatedText(bytes)
           count == BlockCountOf(Len(bytes))
<1>1. /\ q \in Seq(Line) /\ count \in Nat /\ Len(q) = 8 + count + PeerCount
      /\ q[1] = Comment /\ q[2] = HashLine(bytes) /\ q[3] = Comment
      /\ q[4] = NumberLine(Len(bytes))
  BY CreatedLines
<1>2. bytes \in Digest /\ Len(bytes) \in Nat /\ PeerCount \in Nat
  BY MetainfoAssumption DEF Digest
<1>3. /\ HashLine(bytes).kind = "hash" /\ NumberLine(Len(bytes)).kind = "number"
      /\ NumberLine(Len(bytes)).value = Len(bytes) /\ Comment.kind = "comment"
  BY <1>2, LineTypes
<1> HIDE DEF q, count
<1> SUFFICES ASSUME NEW j \in 1 .. Len(q), IsNumber(q[j]), NoneBefore(q, j)
             PROVE  q[j].value = Len(bytes)
  BY <1>1 DEF SaysSize, q
<1>4. ~IsNumber(q[1]) /\ ~IsNumber(q[2]) /\ ~IsNumber(q[3]) /\ IsNumber(q[4])
  BY <1>1, <1>3 DEF IsNumber
<1>5. 4 \in 1 .. Len(q) /\ j >= 4
  BY <1>1, <1>2, <1>4
<1>6. ~(4 < j)
  BY <1>4, <1>5 DEF NoneBefore
<1>7. j = 4
  BY <1>5, <1>6
<1> QED
  BY <1>1, <1>3, <1>7

\* The lines of a text with a comment added.
LEMMA CommentedLines ==
    ASSUME NEW lines \in Seq(Line), NEW q \in WithLine(lines, Comment)
    PROVE  /\ q \in Seq(Line) /\ Len(q) = Len(lines) + 1
           /\ \E j \in 0 .. Len(lines) :
                 /\ \A i \in 1 .. j : q[i] = lines[i]
                 /\ q[j + 1] = Comment
                 /\ \A i \in j + 2 .. Len(lines) + 1 : q[i] = lines[i - 1]
<1>1. PICK j \in 0 .. Len(lines) :
          q = SubSeq(lines, 1, j) \o << Comment >> \o SubSeq(lines, j + 1, Len(lines))
  BY DEF WithLine
<1>2. Comment \in Line /\ Comment.kind = "comment"
  BY LineTypes
<1> DEFINE front == SubSeq(lines, 1, j)
           back == SubSeq(lines, j + 1, Len(lines))
           mid == << Comment >>
<1>3. /\ front \in Seq(Line) /\ Len(front) = j /\ \A i \in 1 .. j : front[i] = lines[i]
      /\ back \in Seq(Line) /\ Len(back) = Len(lines) - j
      /\ \A i \in 1 .. Len(lines) - j : back[i] = lines[j + i]
  OBVIOUS
<1>4. mid \in Seq(Line) /\ Len(mid) = 1 /\ mid[1] = Comment
  BY <1>2
<1>5. q = front \o mid \o back
  BY <1>1
<1> HIDE DEF front, back, mid
<1>6. /\ q \in Seq(Line) /\ Len(q) = Len(lines) + 1
      /\ \A i \in 1 .. j : q[i] = lines[i]
      /\ q[j + 1] = Comment
      /\ \A i \in j + 2 .. Len(lines) + 1 : q[i] = lines[i - 1]
  <2> DEFINE pre == front \o mid
  <2>1. /\ pre \in Seq(Line) /\ Len(pre) = j + 1
        /\ \A i \in 1 .. j : pre[i] = lines[i]
        /\ pre[j + 1] = Comment
    <3>1. front \in Seq(Line) /\ mid \in Seq(Line)
      BY <1>3, <1>4
    <3>2. /\ front \o mid \in Seq(Line) /\ Len(front \o mid) = Len(front) + Len(mid)
          /\ \A i \in 1 .. Len(front) : (front \o mid)[i] = front[i]
          /\ \A i \in 1 .. Len(mid) : (front \o mid)[Len(front) + i] = mid[i]
      BY <3>1, Concat
    <3> QED
      BY <1>3, <1>4, <3>2
  <2> HIDE DEF pre
  <2>2. q = pre \o back
    BY <1>5 DEF pre
  <2>3. /\ q \in Seq(Line) /\ Len(q) = Len(lines) + 1
        /\ \A i \in 1 .. j + 1 : q[i] = pre[i]
        /\ \A i \in 1 .. Len(lines) - j : q[j + 1 + i] = back[i]
    <3>1. /\ pre \o back \in Seq(Line) /\ Len(pre \o back) = Len(pre) + Len(back)
          /\ \A i \in 1 .. Len(pre) : (pre \o back)[i] = pre[i]
          /\ \A i \in 1 .. Len(back) : (pre \o back)[Len(pre) + i] = back[i]
      <4>1. pre \in Seq(Line) /\ back \in Seq(Line)
        BY <1>3, <2>1
      <4> QED
        BY <4>1, Concat
    <3>2. Len(pre) = j + 1 /\ Len(back) = Len(lines) - j /\ Len(pre) + Len(back) = Len(lines) + 1
      BY <1>3, <2>1
    <3> QED
      BY <2>2, <3>1, <3>2
  <2>4. ASSUME NEW i \in j + 2 .. Len(lines) + 1 PROVE q[i] = lines[i - 1]
    <3> DEFINE h == i - (j + 1)
    <3>1. h \in 1 .. Len(lines) - j /\ j + 1 + h = i /\ j + h = i - 1
      OBVIOUS
    <3> HIDE DEF h
    <3>2. q[j + 1 + h] = back[h]
      BY <2>3, <3>1
    <3>3. back[h] = lines[j + h]
      BY <1>3, <3>1
    <3>4. q[i] = q[j + 1 + h] /\ lines[j + h] = lines[i - 1]
      BY <3>1
    <3> QED
      BY <3>2, <3>3, <3>4
  <2>5. \A i \in 1 .. j : q[i] = lines[i] /\ q[j + 1] = Comment
    BY <2>1, <2>3
  <2>6. q[j + 1] = Comment
    BY <2>1, <2>3
  <2> QED
    BY <2>3, <2>4, <2>5, <2>6
<1> QED
  BY <1>6

\* A comment anywhere in a text leaves its first number.
LEMMA CommentedSays ==
    ASSUME NEW lines \in Seq(Line), NEW n, SaysSize(lines, n, FALSE),
           NEW q \in WithLine(lines, Comment)
    PROVE  q \in Seq(Line) /\ SaysSize(q, n, FALSE)
<1>2. Comment \in Line /\ Comment.kind = "comment"
  BY LineTypes
<1>5. q \in Seq(Line) /\ Len(q) = Len(lines) + 1
  BY CommentedLines
<1>1. PICK j \in 0 .. Len(lines) :
          /\ \A i \in 1 .. j : q[i] = lines[i]
          /\ q[j + 1] = Comment
          /\ \A i \in j + 2 .. Len(lines) + 1 : q[i] = lines[i - 1]
  BY CommentedLines
<1>6. /\ q \in Seq(Line) /\ Len(q) = Len(lines) + 1
      /\ \A i \in 1 .. j : q[i] = lines[i]
      /\ q[j + 1] = Comment
      /\ \A i \in j + 2 .. Len(lines) + 1 : q[i] = lines[i - 1]
  BY <1>1, <1>5
<1>7. ASSUME NEW i \in 1 .. Len(q), IsNumber(q[i]), NoneBefore(q, i)
      PROVE  q[i].value = n
  <2>1. i # j + 1
    BY <1>2, <1>6, <1>7 DEF IsNumber
  <2>2. CASE i <= j
    <3>1. i \in 1 .. Len(lines) /\ q[i] = lines[i]
      BY <1>6, <2>2
    <3>2. NoneBefore(lines, i)
      BY <1>6, <1>7, <2>2 DEF NoneBefore
    <3> QED
      BY <1>7, <3>1, <3>2 DEF SaysSize
  <2>3. CASE i > j + 1
    <3>1. i - 1 \in 1 .. Len(lines) /\ q[i] = lines[i - 1]
      BY <1>6, <2>3
    <3>2. NoneBefore(lines, i - 1)
      <4> SUFFICES ASSUME NEW h \in 1 .. Len(lines), h < i - 1 PROVE ~IsNumber(lines[h])
        BY DEF NoneBefore
      <4>1. CASE h <= j
        <5>1. h \in 1 .. Len(q) /\ h < i /\ q[h] = lines[h]
          BY <1>6, <2>3, <4>1
        <5> QED
          BY <1>7, <5>1 DEF NoneBefore
      <4>2. CASE h > j
        <5>1. /\ h + 1 \in 1 .. Len(q) /\ h + 1 < i /\ h + 1 \in j + 2 .. Len(lines) + 1
              /\ (h + 1) - 1 = h
          BY <1>6, <2>3, <4>2
        <5>2. q[h + 1] = lines[h]
          BY <1>6, <5>1
        <5> QED
          BY <1>7, <5>1, <5>2 DEF NoneBefore
      <4> QED
        BY <4>1, <4>2
    <3> QED
      BY <1>7, <3>1, <3>2 DEF SaysSize
  <2> QED
    BY <2>1, <2>2, <2>3
<1> QED
  BY <1>6, <1>7 DEF SaysSize

\* What is left of a line is a line.
LEMMA CutLineType == ASSUME NEW line \in Line, NEW l \in CutLine(line) PROVE l \in Line
<1>1. CASE l = line
  BY <1>1
<1>2. CASE line.kind = "number" /\ l \in {NumberLine(n) : n \in 1 .. line.value}
  <2>1. line.value \in Nat
    BY <1>2 DEF Line
  <2> QED
    BY <1>2, <2>1, LineTypes
<1>3. CASE line.kind = "hash" /\ l = HashLine(Null)
  BY <1>3, LineTypes DEF Digest
<1>4. CASE line.kind = "peer" /\ l \in {Word, PeerLine(0)}
  BY <1>4, LineTypes
<1> QED
  BY <1>1, <1>2, <1>3, <1>4 DEF CutLine

\* The lines of a text that ends too early.
LEMMA CutLines ==
    ASSUME NEW lines \in Seq(Line), NEW q \in CutText(lines)
    PROVE  /\ q \in Seq(Line)
           /\ \E j \in 1 .. Len(lines) :
                 /\ Len(q) \in {j - 1, j} /\ \A i \in 1 .. j - 1 : q[i] = lines[i]
                 /\ Len(q) = j => q[j] \in CutLine(lines[j])
<1>1. PICK j \in 1 .. Len(lines) :
          \/ q = SubSeq(lines, 1, j - 1)
          \/ \E l \in CutLine(lines[j]) : q = Append(SubSeq(lines, 1, j - 1), l)
  BY DEF CutText
<1> DEFINE front == SubSeq(lines, 1, j - 1)
<1>2. /\ front \in Seq(Line) /\ Len(front) = j - 1
      /\ \A i \in 1 .. j - 1 : front[i] = lines[i]
  OBVIOUS
<1>3. lines[j] \in Line
  BY ElementOfSeq
<1> HIDE DEF front
<1>4. CASE q = front
  BY <1>2, <1>4
<1>5. ASSUME NEW l \in CutLine(lines[j]), q = Append(front, l)
      PROVE  /\ q \in Seq(Line) /\ Len(q) = j /\ \A i \in 1 .. j - 1 : q[i] = lines[i]
             /\ q[j] = l
  <2>1. l \in Line
    BY <1>3, <1>5, CutLineType
  <2> QED
    BY <1>2, <1>5, <2>1, AppendProperties
<1> QED
  BY <1>1, <1>4, <1>5 DEF front

\* In a text that ends too early the first number is right, or nothing follows it.
LEMMA CutSays ==
    ASSUME NEW lines \in Seq(Line), NEW n, SaysSize(lines, n, FALSE),
           NEW q \in CutText(lines)
    PROVE  q \in Seq(Line) /\ SaysSize(q, n, TRUE)
<1>1. PICK j \in 1 .. Len(lines) :
          Len(q) \in {j - 1, j} /\ \A i \in 1 .. j - 1 : q[i] = lines[i]
  BY CutLines
<1>4. /\ q \in Seq(Line) /\ Len(q) \in {j - 1, j} /\ \A i \in 1 .. j - 1 : q[i] = lines[i]
  BY <1>1, CutLines
<1>5. ASSUME NEW i \in 1 .. Len(q), IsNumber(q[i]), NoneBefore(q, i), i # Len(q)
      PROVE  q[i].value = n
  <2>1. i \in 1 .. j - 1 /\ i \in 1 .. Len(lines) /\ q[i] = lines[i]
    BY <1>4, <1>5
  <2>2. NoneBefore(lines, i)
    BY <1>4, <1>5, <2>1 DEF NoneBefore
  <2> QED
    BY <1>5, <2>1, <2>2 DEF SaysSize
<1> QED
  BY <1>4, <1>5 DEF SaysSize

\* Nothing is read yet, and the text is one of those.
LEMMA LoadInit == Init => LoadInv
<1> SUFFICES ASSUME Init PROVE LoadInv
  OBVIOUS
<1>1. TextOK
  <2>5. name \in Names /\ shared \in Contents \cup {Absent}
    BY MetainfoAssumption DEF Init, Names, PlainName
  <2>1. CASE shared \in Contents /\ text = CreatedText(shared)
    <3>1. text \in Seq(Line) /\ SaysSize(text, Len(shared), FALSE)
      BY <2>1, CreatedSays
    <3> QED
      BY <2>5, <3>1 DEF TextOK, SaysSize
  <2>2. CASE shared \in Contents /\ text \in WithLine(CreatedText(shared), Comment)
    <3>1. text \in Seq(Line) /\ SaysSize(text, Len(shared), FALSE)
      BY <2>2, CreatedSays, CommentedSays
    <3> QED
      BY <2>5, <3>1 DEF TextOK, SaysSize
  <2>3. CASE shared \in Contents /\ text \in CutText(CreatedText(shared))
    BY <2>3, <2>5, CreatedSays, CutSays DEF TextOK
  <2>4. CASE shared = Absent /\ text \in OtherTexts
    BY <2>4, <2>5, OtherTextsAssumption DEF TextOK
  <2> QED
    BY <2>1, <2>2, <2>3, <2>4, <2>5 DEF Init
<1>2. t \in Torrent
  BY DEF Init, Fresh, Torrent, Digest
<1>3. pos = 1 /\ 1 \in 1 .. Len(text) + 1 /\ at = "name" /\ block = 0
  BY <1>1 DEF Init, TextOK
<1>4. NoneBefore(text, pos)
  BY <1>1, <1>3 DEF NoneBefore, TextOK
<1> QED
  BY <1>1, <1>2, <1>3, <1>4 DEF LoadInv, Reading, SizeRead, Counted, HasFile

----------------------------------------------------------------------------
(* Reading.                                                                 *)

\* The first line that is not of a kind, the end of the file at the latest.
LEMMA PastOK ==
    ASSUME TextOK, NEW kind \in {"comment", "blank"}, NEW p \in 1 .. Len(text) + 1
    PROVE  /\ Past(kind, p) \in p .. Len(text) + 1
           /\ \A h \in p .. Past(kind, p) - 1 : LineAt(h).kind = kind
           /\ LineAt(Past(kind, p)).kind # kind
<1> DEFINE S == {j \in p .. Len(text) + 1 : LineAt(j).kind # kind}
           end == Len(text) + 1
<1>1. Len(text) \in Nat /\ p \in Nat /\ end \in p .. Len(text) + 1
  BY DEF TextOK
<1>2. end \in S
  <2>1. LineAt(end) = EndOfFile
    BY <1>1 DEF LineAt
  <2> QED
    BY <1>1, <2>1 DEF EndOfFile
<1>3. S \subseteq Nat /\ S # {}
  BY <1>1, <1>2
<1> HIDE DEF S
<1>4. PICK b \in S : \A other \in S : << other, b >> \notin OpToRel(<, Nat)
  BY <1>3, WFMin, NatLessThanWellFounded, Zenon
<1>5. ASSUME NEW other \in S PROVE b <= other
  <2>1. /\ << other, b >> \in Nat \X Nat
        /\ << other, b >>[1] = other /\ << other, b >>[2] = b
    BY <1>3
  <2>2. ~(other < b)
    BY <1>4, <2>1, Zenon DEF OpToRel
  <2> QED
    BY <1>3, <2>2
<1>6. Min(S) \in S /\ \A other \in S : Min(S) <= other
  BY <1>5 DEF Min
<1>7. Past(kind, p) = Min(S)
  BY DEF Past, S
<1>8. Min(S) \in p .. Len(text) + 1
  BY <1>6 DEF S
<1>9. ASSUME NEW h \in p .. Min(S) - 1 PROVE LineAt(h).kind = kind
  <2>1. h \notin S
    BY <1>1, <1>6, <1>8
  <2>2. h \in p .. Len(text) + 1
    BY <1>1, <1>8
  <2> QED
    BY <2>1, <2>2 DEF S
<1>10. LineAt(Min(S)).kind # kind
  BY <1>6 DEF S
<1> QED
  BY <1>7, <1>8, <1>9, <1>10

\* Comments and blank lines are no numbers.
LEMMA PastNone ==
    ASSUME TextOK, NEW kind \in {"comment", "blank"}, NEW p \in 1 .. Len(text) + 1,
           NoneBefore(text, p)
    PROVE  NoneBefore(text, Past(kind, p))
<1> SUFFICES ASSUME NEW h \in 1 .. Len(text), h < Past(kind, p) PROVE ~IsNumber(text[h])
  BY DEF NoneBefore
<1>1. CASE h < p
  BY <1>1 DEF NoneBefore
<1>2. CASE h >= p
  <2>1. h \in p .. Past(kind, p) - 1
    <3>1. Past(kind, p) \in p .. Len(text) + 1
      BY PastOK
    <3> QED
      BY <1>2, <3>1
  <2>2. LineAt(h).kind = kind
    BY <2>1, PastOK
  <2>3. LineAt(h) = text[h]
    BY DEF LineAt, TextOK
  <2> QED
    BY <2>2, <2>3 DEF IsNumber
<1> QED
  BY <1>1, <1>2, PastOK DEF TextOK

\* An item that is read is a line of the text, with a value of its kind.
LEMMA ItemRead ==
    ASSUME TextOK, NEW d \in 1 .. Len(text) + 1,
           LineAt(d).kind \in {"hash", "number", "peer"}
    PROVE  /\ d \in 1 .. Len(text) /\ LineAt(d) = text[d] /\ d + 1 \in 1 .. Len(text) + 1
           /\ LineAt(d).kind = "hash" => LineAt(d).value \in Digest
           /\ LineAt(d).kind \in {"number", "peer"} => LineAt(d).value \in Nat
<1>1. Len(text) \in Nat
  BY DEF TextOK
<1>2. d \in 1 .. Len(text)
  BY <1>1 DEF LineAt, EndOfFile
<1>3. LineAt(d) = text[d]
  BY <1>1, <1>2 DEF LineAt
<1>4. text[d] \in Line
  BY <1>2, ElementOfSeq DEF TextOK
<1>5. /\ text[d].kind = "hash" => text[d].value \in Digest
      /\ text[d].kind \in {"number", "peer"} => text[d].value \in Nat
  BY <1>4 DEF Line
<1> QED
  BY <1>1, <1>2, <1>3, <1>5

\* The text and how far it is read.
LEMMA Loading == ASSUME LoadInv
                 PROVE  /\ TextOK /\ Len(text) \in Nat
                        /\ t \in Torrent /\ pos \in 1 .. Len(text) + 1
                        /\ at \in {"name", "hash", "size"} => NoneBefore(text, pos)
                        /\ Reading => block = 0
<1>1. /\ TextOK /\ t \in Torrent /\ pos \in 1 .. Len(text) + 1
      /\ at \in {"name", "hash", "size"} => NoneBefore(text, pos)
      /\ Reading => block = 0
  BY DEF LoadInv
<1>2. text \in Seq(Line)
  BY <1>1 DEF TextOK
<1> QED
  BY <1>1, <1>2, LenProperties

\* The two places where an item can be.
LEMMA DueOK ==
    ASSUME LoadInv
    PROVE  /\ Due \in pos .. Len(text) + 1 /\ DueNumber \in Due .. Len(text) + 1
           /\ Due \in 1 .. Len(text) + 1 /\ DueNumber \in 1 .. Len(text) + 1
           /\ NoneBefore(text, pos) => NoneBefore(text, Due) /\ NoneBefore(text, DueNumber)
<1>1. TextOK /\ pos \in 1 .. Len(text) + 1 /\ Len(text) \in Nat
  BY Loading
<1>2. Past("comment", pos) \in pos .. Len(text) + 1
  BY <1>1, PastOK
<1>3. Due \in 1 .. Len(text) + 1
  BY <1>1, <1>2 DEF Due
<1>4. Past("blank", Due) \in Due .. Len(text) + 1
  BY <1>1, <1>3, PastOK
<1>5. DueNumber \in 1 .. Len(text) + 1
  BY <1>1, <1>3, <1>4 DEF DueNumber
<1>6. ASSUME NoneBefore(text, pos)
      PROVE  NoneBefore(text, Due) /\ NoneBefore(text, DueNumber)
  <2>1. NoneBefore(text, Due)
    BY <1>1, <1>6, PastNone DEF Due
  <2>2. NoneBefore(text, DueNumber)
    BY <1>1, <1>3, <2>1, PastNone DEF DueNumber
  <2> QED
    BY <2>1, <2>2
<1>7. Due \in pos .. Len(text) + 1 /\ DueNumber \in Due .. Len(text) + 1
  BY <1>2, <1>4 DEF Due, DueNumber
<1> QED
  BY <1>3, <1>5, <1>6, <1>7

\* After an item come blank lines, to the end of the text at most.
LEMMA AfterItem ==
    ASSUME TextOK, NEW d \in 1 .. Len(text)
    PROVE  /\ Past("blank", d + 1) \in 1 .. Len(text) + 1
           /\ d = Len(text) => Past("blank", d + 1) = Len(text) + 1
<1>1. Len(text) \in Nat
  BY DEF TextOK
<1>2. d + 1 \in 1 .. Len(text) + 1
  BY <1>1
<1>3. Past("blank", d + 1) \in d + 1 .. Len(text) + 1
  BY <1>2, PastOK
<1> QED
  BY <1>1, <1>3

\* After a step the text is the same, and the rest of the invariant has to be shown.
LEMMA LoadOn ==
    ASSUME LoadInv, UNCHANGED history, t' \in Torrent, pos' \in 1 .. Len(text) + 1,
           at' \in {"name", "hash", "size"} => NoneBefore(text, pos'),
           SizeRead' /\ shared # Absent =>
              t'.size = Len(shared) \/ (at' = "peer_count" /\ pos' = Len(text) + 1),
           Counted' => t'.block_count = BlockCountOf(t'.size),
           Reading' => block' = 0,
           HasFile' => Len(disk') = t'.size /\ t'.size <= MaxOff,
           at' = "verify" => block' \in 0 .. t'.block_count - 1,
           at' = "loaded" => t'.block_count = 0 \/ t'.size % MaxBlockSize # 0
    PROVE  LoadInv'
<1>1. text' = text /\ shared' = shared /\ name' = name
  BY DEF history
<1>2. TextOK'
  <2>1. TextOK
    BY DEF LoadInv
  <2>2. Names' = Names
    BY DEF Names
  <2> QED
    BY <1>1, <2>1, <2>2 DEF TextOK, SaysSize, NoneBefore, IsNumber
<1> QED
  BY <1>1, <1>2 DEF LoadInv

\* The load ends without a file, or has not begun.
LEMMA LoadEnds ==
    ASSUME LoadInv, UNCHANGED <<pos, t, block, history>> \/ ~Reading',
           UNCHANGED <<pos, t, history>>,
           \/ at' \in {"refused", "failed", "aborted", "crashed"}
           \/ at = "name" /\ at' = "hash"
    PROVE  LoadInv'
<1>1. UNCHANGED history /\ t' = t /\ pos' = pos
  OBVIOUS
<1>2. /\ t' \in Torrent /\ pos' \in 1 .. Len(text) + 1
      /\ at' \in {"name", "hash", "size"} => NoneBefore(text, pos')
  BY <1>1 DEF LoadInv
<1>3. /\ ~SizeRead' /\ ~Counted' /\ ~HasFile' /\ at' \notin {"verify", "loaded"}
      /\ Reading' => block' = 0
  BY DEF SizeRead, Counted, HasFile, Reading, LoadInv
<1> QED
  BY <1>1, <1>2, <1>3, LoadOn

\* The hash of the file, before any number.
LEMMA ReadFileHashInv == ASSUME LoadInv, ReadFileHash PROVE LoadInv'
<1>1. CASE Refuse
  BY <1>1, LoadEnds DEF Refuse, Reading
<1>2. CASE /\ ReadsHash /\ t' = [t EXCEPT !.hash = LineAt(Due).value]
           /\ pos' = Past("blank", Due + 1) /\ at' = "size" /\ UNCHANGED <<block, history>>
  <2>1. TextOK /\ t \in Torrent /\ Len(text) \in Nat /\ NoneBefore(text, pos) /\ block = 0
    BY Loading DEF ReadFileHash, Reading
  <2>2. Due \in 1 .. Len(text) + 1 /\ NoneBefore(text, Due) /\ LineAt(Due).kind = "hash"
    BY <1>2, <2>1, DueOK DEF ReadsHash
  <2>3. /\ LineAt(Due).value \in Digest /\ LineAt(Due) = text[Due]
        /\ Due + 1 \in 1 .. Len(text) + 1 /\ Due \in 1 .. Len(text)
    BY <2>1, <2>2, ItemRead
  <2>4. t' \in Torrent
    BY <1>2, <2>1, <2>3 DEF Torrent
  <2>5. NoneBefore(text, Due + 1)
    <3>1. ~IsNumber(text[Due])
      BY <2>2, <2>3 DEF IsNumber
    <3>2. \A h \in 1 .. Len(text) : h < Due + 1 => h < Due \/ h = Due
      BY <2>3
    <3> QED
      BY <2>2, <3>1, <3>2 DEF NoneBefore
  <2>6. pos' \in 1 .. Len(text) + 1 /\ NoneBefore(text, pos')
    <3>1. Past("blank", Due + 1) \in 1 .. Len(text) + 1
      BY <2>1, <2>3, AfterItem
    <3>2. NoneBefore(text, Past("blank", Due + 1))
      BY <2>1, <2>3, <2>5, PastNone
    <3> QED
      BY <1>2, <3>1, <3>2
  <2>7. ~SizeRead' /\ ~Counted' /\ ~HasFile' /\ at' \notin {"verify", "loaded"}
    BY <1>2 DEF SizeRead, Counted, HasFile
  <2> QED
    BY <1>2, <2>1, <2>4, <2>6, <2>7, LoadOn
<1> QED
  BY <1>1, <1>2 DEF ReadFileHash

\* The size is the first number: that of the file, or the last thing in the text.
LEMMA ReadSizeInv == ASSUME LoadInv, ReadSize PROVE LoadInv'
<1>1. CASE Refuse
  BY <1>1, LoadEnds DEF Refuse, Reading
<1>2. CASE /\ ReadsNumber /\ t' = [t EXCEPT !.size = LineAt(DueNumber).value]
           /\ pos' = Past("blank", DueNumber + 1) /\ at' = "peer_count"
           /\ UNCHANGED <<block, history>>
  <2>1. TextOK /\ t \in Torrent /\ Len(text) \in Nat /\ NoneBefore(text, pos) /\ block = 0
    BY Loading DEF ReadSize, Reading
  <2>2. /\ DueNumber \in 1 .. Len(text) + 1 /\ NoneBefore(text, DueNumber)
        /\ LineAt(DueNumber).kind = "number"
    BY <1>2, <2>1, DueOK DEF ReadsNumber
  <2>3. /\ LineAt(DueNumber).value \in Nat /\ LineAt(DueNumber) = text[DueNumber]
        /\ DueNumber + 1 \in 1 .. Len(text) + 1 /\ DueNumber \in 1 .. Len(text)
    BY <2>1, <2>2, ItemRead
  <2>4. t' \in Torrent /\ t'.size = text[DueNumber].value
    BY <1>2, <2>1, <2>3 DEF Torrent
  <2>5. /\ Past("blank", DueNumber + 1) \in 1 .. Len(text) + 1
        /\ DueNumber = Len(text) => Past("blank", DueNumber + 1) = Len(text) + 1
    BY <2>1, <2>3, AfterItem
  <2>6. pos' \in 1 .. Len(text) + 1
    BY <1>2, <2>5
  <2>7. ASSUME shared # Absent
        PROVE  t'.size = Len(shared) \/ (at' = "peer_count" /\ pos' = Len(text) + 1)
    <3>1. text[DueNumber].value = Len(shared) \/ DueNumber = Len(text)
      BY <2>1, <2>2, <2>3, <2>7 DEF TextOK, SaysSize, IsNumber
    <3>2. DueNumber = Len(text) => pos' = Len(text) + 1
      BY <1>2, <2>5
    <3> QED
      BY <1>2, <2>4, <3>1, <3>2
  <2>8. ~Counted' /\ ~HasFile' /\ at' \notin {"verify", "loaded", "name", "hash", "size"}
    BY <1>2 DEF Counted, HasFile
  <2> QED
    BY <1>2, <2>1, <2>4, <2>6, <2>7, <2>8, LoadOn
<1> QED
  BY <1>1, <1>2 DEF ReadSize

\* A text that ends with its size has no count of peers.
LEMMA ReadPeerCountInv == ASSUME LoadInv, ReadPeerCount PROVE LoadInv'
<1> DEFINE n == LineAt(DueNumber).value
           count == BlockCountOf(t.size)
<1>1. CASE Refuse
  BY <1>1, LoadEnds DEF Refuse, Reading
<1>2. CASE /\ ReadsNumber /\ t' = [t EXCEPT !.peer_count = n, !.block_count = count]
           /\ pos' = Past("blank", DueNumber + 1)
           /\ at' = (IF count = 0 THEN "peers" ELSE "hashes") /\ UNCHANGED <<block, history>>
  <2>1. TextOK /\ t \in Torrent /\ Len(text) \in Nat /\ at = "peer_count" /\ block = 0
    BY Loading DEF ReadPeerCount, Reading
  <2>2. DueNumber \in 1 .. Len(text) + 1 /\ LineAt(DueNumber).kind = "number"
    BY <1>2, <2>1, DueOK DEF ReadsNumber
  <2>3. n \in Nat /\ DueNumber + 1 \in 1 .. Len(text) + 1 /\ DueNumber \in 1 .. Len(text)
    BY <2>1, <2>2, ItemRead
  <2>4. t.size \in Nat /\ count \in Nat
    BY <2>1, BlockCountType DEF Torrent
  <2> HIDE DEF n, count
  <2>5. t' \in Torrent /\ t'.size = t.size /\ t'.block_count = count
    BY <1>2, <2>1, <2>3, <2>4 DEF Torrent
  <2>6. pos' \in 1 .. Len(text) + 1
    <3>1. Past("blank", DueNumber + 1) \in 1 .. Len(text) + 1
      BY <2>1, <2>3, AfterItem
    <3> QED
      BY <1>2, <3>1
  <2>7. ASSUME shared # Absent PROVE t'.size = Len(shared)
    <3>1. t.size = Len(shared) \/ pos = Len(text) + 1
      BY <2>1, <2>7 DEF LoadInv, SizeRead
    <3>2. pos \in 1 .. Len(text) + 1
      BY DEF LoadInv
    <3>3. Due \in pos .. Len(text) + 1 /\ DueNumber \in Due .. Len(text) + 1
      BY DueOK
    <3>4. pos # Len(text) + 1
      <4> DEFINE d == DueNumber
                 e == Due
                 len == Len(text)
      <4>1. len \in Nat /\ d \in 1 .. len
        BY <2>1, <2>3
      <4>2. pos \in 1 .. len + 1 /\ e \in pos .. len + 1 /\ d \in e .. len + 1
        BY <3>2, <3>3
      <4> HIDE DEF d, e, len
      <4>3. pos # len + 1
        BY <4>1, <4>2
      <4> QED
        BY <4>3 DEF len
    <3> QED
      BY <2>5, <3>1, <3>4
  <2>8. /\ ~HasFile' /\ at' \notin {"verify", "loaded", "name", "hash", "size"}
        /\ t'.block_count = BlockCountOf(t'.size)
    BY <1>2, <2>5 DEF HasFile, count
  <2> QED
    BY <1>2, <2>1, <2>5, <2>6, <2>7, <2>8, LoadOn
<1> QED
  BY <1>1, <1>2 DEF ReadPeerCount

\* The lists of hashes and of peers.
LEMMA ReadListInv == ASSUME LoadInv, ReadHash \/ ReadPeer PROVE LoadInv'
<1>1. CASE Refuse
  BY <1>1, LoadEnds DEF Refuse, Reading
<1>2. CASE ~Refuse
  <2>1. /\ TextOK /\ t \in Torrent /\ Len(text) \in Nat /\ at \in {"hashes", "peers"}
        /\ Due \in 1 .. Len(text) + 1 /\ block = 0
    BY Loading, DueOK DEF ReadHash, ReadPeer, Reading
  <2> DEFINE v == LineAt(Due).value
  <2>2. /\ UNCHANGED <<block, history>> /\ at' \in {"hashes", "peers", "open"}
        /\ \/ /\ LineAt(Due).kind = "hash" /\ t' = [t EXCEPT !.hashes = Append(@, v)]
              /\ pos' = Past("blank", Due + 1)
           \/ /\ LineAt(Due).kind = "peer" /\ t' = [t EXCEPT !.peers = Append(@, v)]
              /\ pos' = Due + 1
    BY <1>2 DEF ReadHash, ReadPeer, ReadsHash
  <2>3. /\ Due + 1 \in 1 .. Len(text) + 1 /\ Due \in 1 .. Len(text)
        /\ LineAt(Due).kind = "hash" => v \in Digest
        /\ LineAt(Due).kind = "peer" => v \in Nat
    BY <2>1, <2>2, ItemRead
  <2> HIDE DEF v
  <2>4. t' \in Torrent /\ t'.size = t.size /\ t'.block_count = t.block_count
    <3>1. t.hashes \in Seq(Digest) /\ t.peers \in Seq(Nat)
      BY <2>1 DEF Torrent
    <3>2. CASE v \in Digest /\ t' = [t EXCEPT !.hashes = Append(@, v)]
      <4>1. Append(t.hashes, v) \in Seq(Digest)
        BY <3>1, <3>2
      <4> QED
        BY <2>1, <3>2, <4>1 DEF Torrent
    <3>3. CASE v \in Nat /\ t' = [t EXCEPT !.peers = Append(@, v)]
      <4>1. Append(t.peers, v) \in Seq(Nat)
        BY <3>1, <3>3
      <4> QED
        BY <2>1, <3>3, <4>1 DEF Torrent
    <3> QED
      BY <2>2, <2>3, <3>2, <3>3
  <2>5. pos' \in 1 .. Len(text) + 1
    <3>1. Past("blank", Due + 1) \in 1 .. Len(text) + 1
      BY <2>1, <2>3, AfterItem
    <3> QED
      BY <2>2, <2>3, <3>1
  <2>6. /\ t.block_count = BlockCountOf(t.size)
        /\ shared # Absent => t.size = Len(shared)
    BY <2>1 DEF LoadInv, SizeRead, Counted
  <2>7. ~HasFile' /\ at' \notin {"verify", "loaded", "name", "hash", "size"}
    BY <2>2 DEF HasFile
  <2> QED
    BY <2>1, <2>2, <2>4, <2>5, <2>6, <2>7, LoadOn
<1> QED
  BY <1>1, <1>2

\* The file gets the size that the text gives.
LEMMA OpenFileInv == ASSUME LoadInv, OpenFile PROVE LoadInv'
<1>1. CASE at' = "refused"
  BY <1>1, LoadEnds DEF OpenFile, Reading
<1>2. CASE at' # "refused"
  <2>1. /\ t \in Torrent /\ t' = t /\ pos' = pos /\ UNCHANGED <<block, history>>
        /\ ~(t.size > MaxOff) /\ disk' = Resized(Opened, t.size) /\ at = "open"
        /\ at' = IF t.block_count = 0 THEN "loaded" ELSE "verify"
    BY <1>2 DEF OpenFile, LoadInv
  <2>2. t.size \in Nat /\ t.block_count \in Nat /\ MaxOff \in Int
    BY <2>1, PowersOfTwo DEF Torrent, MaxOff
  <2>3. Len(disk') = t.size /\ t.size <= MaxOff
    BY <2>1, <2>2 DEF Resized
  <2>4. /\ t.block_count = BlockCountOf(t.size)
        /\ shared # Absent => t.size = Len(shared)
        /\ pos \in 1 .. Len(text) + 1
    BY <2>1 DEF LoadInv, SizeRead, Counted
  <2>5. block = 0
    BY <2>1, Loading DEF Reading
  <2>6. /\ at' = "verify" => block' \in 0 .. t.block_count - 1
        /\ at' = "loaded" => t.block_count = 0
        /\ at' \in {"verify", "loaded"}
    BY <2>1, <2>2, <2>5
  <2>7. ~Reading'
    BY <2>6 DEF Reading
  <2> QED
    BY <2>1, <2>3, <2>4, <2>6, <2>7, LoadOn
<1> QED
  BY <1>1, <1>2

\* Every block has to have a size, the last one too.
LEMMA VerifyBlockInv == ASSUME LoadInv, VerifyBlock PROVE LoadInv'
<1>1. UNCHANGED <<pos, t, disk, history>> /\ at = "verify"
  BY DEF VerifyBlock
<1>2. CASE at' \in {"aborted", "crashed"}
  BY <1>1, <1>2, LoadEnds DEF Reading
<1>3. CASE at' \notin {"aborted", "crashed"}
  <2>1. /\ BlockSize(block) # 0 /\ block' = block + 1
        /\ at' = IF block' = t.block_count THEN "loaded" ELSE "verify"
    BY <1>3 DEF VerifyBlock
  <2>2. /\ t \in Torrent /\ pos \in 1 .. Len(text) + 1 /\ block \in 0 .. t.block_count - 1
        /\ t.block_count = BlockCountOf(t.size) /\ Len(disk) = t.size /\ t.size <= MaxOff
        /\ shared # Absent => t.size = Len(shared)
    BY <1>1 DEF LoadInv, SizeRead, Counted, HasFile
  <2>3. t.block_count \in Nat
    BY <2>2 DEF Torrent
  <2>4. at' = "loaded" => t.size % MaxBlockSize # 0
    BY <2>1 DEF BlockSize
  <2>5. at' = "verify" => block' \in 0 .. t.block_count - 1
    BY <2>1, <2>2, <2>3
  <2>6. at' \notin {"name", "hash", "size"} /\ ~Reading'
    BY <2>1 DEF Reading
  <2> QED
    BY <1>1, <2>2, <2>4, <2>5, <2>6, LoadOn
<1> QED
  BY <1>2, <1>3

\* Every step of the load keeps the invariant.
LEMMA LoadNext == LoadInv /\ [Next]_vars => LoadInv'
<1> SUFFICES ASSUME LoadInv, [Next]_vars PROVE LoadInv'
  OBVIOUS
<1>1. CASE UNCHANGED vars
  BY <1>1 DEF vars, history, LoadInv, TextOK, Reading, SizeRead, Counted, HasFile
<1>2. CASE CallFails
  BY <1>2, LoadEnds DEF CallFails, Reading
<1>3. CASE TakeName
  BY <1>3, LoadEnds DEF TakeName
<1> QED
  BY <1>1, <1>2, <1>3, ReadFileHashInv, ReadSizeInv, ReadPeerCountInv, ReadListInv,
     OpenFileInv, VerifyBlockInv DEF Next

----------------------------------------------------------------------------
(* The blocks of the file.                                                  *)

\* Quotient and remainder.
LEMMA Division ==
    ASSUME NEW d \in Nat, d > 0, NEW n \in Nat
    PROVE  /\ n \div d \in Nat /\ n % d \in Nat /\ n % d < d
           /\ n = (n \div d) * d + (n % d)
  OBVIOUS

\* A number in the q-th stretch of length d.
LEMMA Quotient ==
    ASSUME NEW d \in Nat, d > 0, NEW q \in Nat, NEW r \in Nat, r < d
    PROVE  (q * d + r) \div d = q
  OBVIOUS

\* One stretch ends before the next begins.
LEMMA Stretches == ASSUME NEW d \in Nat, NEW x \in Nat, NEW y \in Nat, x < y
                   PROVE  x * d + d <= y * d
  OBVIOUS

\* The elements of a part of a sequence.
LEMMA PartOf ==
    ASSUME NEW S, NEW s \in Seq(S), NEW f \in Nat \ {0}, NEW e \in Nat, e <= Len(s),
           NEW i \in 1 .. e - f + 1
    PROVE  SubSeq(s, f, e)[i] = s[f + i - 1]
  BY SubSeqProperties

\* The blocks of a loaded file: when counting them wraps, the size does not fit in off_t.
LEMMA BlockBounds ==
    ASSUME LoadInv, at = "loaded"
    PROVE  /\ MaxBlockSize \in Nat \ {0} /\ t.size \in Nat /\ Len(disk) = t.size
           /\ t.size = 0 => t.block_count = 0
           /\ t.size > 0 => \E last \in Nat, short \in 1 .. MaxBlockSize - 1 :
                 /\ t.size = last * MaxBlockSize + short /\ t.block_count = last + 1
                 /\ \A c \in 0 .. last :
                       /\ Offset(c) = c * MaxBlockSize /\ c * MaxBlockSize \in Nat
                       /\ BlockSize(c) = IF c = last THEN short ELSE MaxBlockSize
<1> DEFINE d == MaxBlockSize
           W == 2 ^ Width
           n == t.size
           last == n \div d
           short == n % d
           count == t.block_count
<1>1. /\ Len(disk) = n /\ n \in Nat /\ n <= MaxOff /\ count = BlockCountOf(n)
      /\ count = 0 \/ short # 0
  BY DEF LoadInv, HasFile, Counted, Torrent
<1>2. /\ d \in Nat /\ d > 0 /\ W \in Nat /\ W > 0 /\ n + d - 1 < W /\ n + d - 1 \in Nat
      /\ n < W
  BY <1>1, MetainfoAssumption, PowersOfTwo DEF MaxOff
<1>3. count = (n + d - 1) \div d
  <2>1. (n + d - 1) % W = n + d - 1
    <3> HIDE DEF n, d, W
    <3> QED
      BY <1>2
  <2> QED
    BY <1>1, <2>1 DEF BlockCountOf
<1>4. \A b : Offset(b) = (b * d) % W /\ BlockSize(b) = IF b + 1 = count THEN short ELSE d
  BY DEF Offset, BlockSize
<1> HIDE DEF n, d, W, count
<1>5. /\ last \in Nat /\ short \in Nat /\ short < d /\ n = last * d + short
  BY <1>1, <1>2, Division
<1> HIDE DEF last, short
<1>6. n = 0 => count = 0
  <2>1. n = 0 => n + d - 1 = 0 * d + (d - 1) /\ d - 1 \in Nat /\ d - 1 < d
    BY <1>2
  <2> QED
    BY <1>2, <1>3, <2>1, Quotient
<1>7. n > 0 => short # 0 /\ count = last + 1
  <2> SUFFICES ASSUME n > 0 PROVE short # 0 /\ count = last + 1
    OBVIOUS
  <2>1. ASSUME short = 0 PROVE FALSE
    <3>1. count = 0
      BY <1>1, <2>1
    <3>2. n + d - 1 = last * d + (d - 1)
      BY <1>1, <1>2, <1>5, <2>1
    <3>3. count = last
      BY <1>2, <1>3, <1>5, <3>2, Quotient
    <3>4. last = 0 /\ 0 * d = 0
      BY <1>2, <3>1, <3>3
    <3>5. n = 0
      BY <1>5, <2>1, <3>4
    <3> QED
      BY <3>5
  <2>2. n + d - 1 = (last + 1) * d + (short - 1)
    BY <1>1, <1>2, <1>5
  <2>3. last + 1 \in Nat /\ short - 1 \in Nat /\ short - 1 < d
    BY <1>2, <1>5, <2>1
  <2>4. count = last + 1
    <3> DEFINE q == last + 1
               r == short - 1
    <3>1. q \in Nat /\ r \in Nat /\ r < d /\ n + d - 1 = q * d + r
      BY <2>2, <2>3
    <3> HIDE DEF q, r
    <3>2. (q * d + r) \div d = q
      BY <1>2, <3>1, Quotient
    <3> QED
      BY <1>3, <3>1, <3>2 DEF q
  <2> QED
    BY <2>1, <2>4
<1>8. ASSUME n > 0, NEW c \in 0 .. last
      PROVE  /\ Offset(c) = c * d /\ c * d \in Nat
             /\ BlockSize(c) = IF c = last THEN short ELSE d
  <2>1. c \in Nat /\ c <= last
    BY <1>5
  <2>2. c * d \in Nat /\ c * d <= last * d /\ last * d \in Nat
    BY <1>2, <1>5, <2>1, Stretches
  <2>3. c * d < W
    BY <1>1, <1>2, <1>5, <2>2
  <2>4. (c * d) % W = c * d
    BY <1>2, <2>2, <2>3
  <2> QED
    BY <1>4, <1>5, <1>7, <1>8, <2>1, <2>2, <2>4
<1>9. n > 0 => last \in Nat /\ short \in 1 .. d - 1
  BY <1>2, <1>5, <1>7
<1>10. n > 0 => \E l \in Nat, s \in 1 .. d - 1 :
          /\ n = l * d + s /\ count = l + 1
          /\ \A c \in 0 .. l : /\ Offset(c) = c * d /\ c * d \in Nat
                               /\ BlockSize(c) = IF c = l THEN s ELSE d
  BY <1>5, <1>7, <1>8, <1>9
<1>11. d \in Nat \ {0}
  BY <1>2
<1> QED
  BY <1>1, <1>6, <1>10, <1>11 DEF n, d, count

\* Every byte of a loaded file is in exactly one block, for every block size that is at
\* most half the range of uint64_t, and every size a text can give.
THEOREM EachByteOnce == Spec => []BlocksTile
<1>1. LoadInv => BlocksTile
  <2> SUFFICES ASSUME LoadInv, at = "loaded", NEW p \in 0 .. t.size - 1
               PROVE  \E b \in 0 .. t.block_count - 1 :
                          /\ p \in Offset(b) .. Offset(b) + BlockSize(b) - 1
                          /\ \A other \in 0 .. t.block_count - 1 :
                                p \in Offset(other) .. Offset(other) + BlockSize(other) - 1
                                    => other = b
    BY BlockBounds DEF BlocksTile
  <2> DEFINE d == MaxBlockSize
             n == t.size
             count == t.block_count
  <2>1. d \in Nat /\ d > 0 /\ n \in Nat
    BY BlockBounds
  <2>2. n > 0 /\ p \in Nat
    BY <2>1
  <2>3. PICK last \in Nat, short \in 1 .. d - 1 :
            /\ n = last * d + short /\ count = last + 1
            /\ \A c \in 0 .. last : /\ Offset(c) = c * d /\ c * d \in Nat
                                    /\ BlockSize(c) = IF c = last THEN short ELSE d
    BY <2>2, BlockBounds
  <2> HIDE DEF n, d, count
  <2>4. /\ short \in Nat /\ short < d /\ n = last * d + short /\ last * d \in Nat
        /\ 0 .. count - 1 = 0 .. last
    BY <2>1, <2>3
  <2> DEFINE b == p \div d
             r == p % d
  <2>5. b \in Nat /\ r \in Nat /\ r < d /\ p = b * d + r /\ p < n
    <3>1. p < n
      BY <2>1 DEF n
    <3> QED
      BY <2>1, <2>2, <3>1, Division
  <2> HIDE DEF b, r
  <2>6. b <= last
    <3>1. ASSUME last < b PROVE FALSE
      <4>1. last * d + d <= b * d /\ last * d \in Nat /\ b * d \in Nat
        BY <2>1, <2>5, <3>1, Stretches
      <4> QED
        BY <2>1, <2>4, <2>5, <4>1
    <3> QED
      BY <2>5, <3>1
  <2>7. b \in 0 .. last
    BY <2>5, <2>6
  <2>8. p \in Offset(b) .. Offset(b) + BlockSize(b) - 1
    <3>1. /\ Offset(b) = b * d /\ b * d \in Nat
          /\ BlockSize(b) = IF b = last THEN short ELSE d
      BY <2>3, <2>7
    <3>2. p <= b * d + BlockSize(b) - 1
      BY <2>1, <2>4, <2>5, <3>1
    <3> QED
      BY <2>1, <2>4, <2>5, <3>1, <3>2
  <2>9. ASSUME NEW other \in 0 .. last,
               p \in Offset(other) .. Offset(other) + BlockSize(other) - 1
        PROVE  other = b
    <3>1. /\ other \in Nat /\ other * d \in Nat /\ other * d <= p
          /\ p < other * d + d
      BY <2>1, <2>3, <2>4, <2>9
    <3>2. ASSUME other < b PROVE FALSE
      <4>1. other * d + d <= b * d /\ b * d \in Nat
        BY <2>1, <2>5, <3>1, <3>2, Stretches
      <4> QED
        BY <2>1, <2>5, <3>1, <4>1
    <3>3. ASSUME b < other PROVE FALSE
      <4>1. b * d + d <= other * d /\ b * d \in Nat
        BY <2>1, <2>5, <3>1, <3>3, Stretches
      <4> QED
        BY <2>1, <2>5, <3>1, <4>1
    <3> QED
      BY <2>5, <3>1, <3>2, <3>3
  <2> QED
    BY <2>4, <2>7, <2>8, <2>9 DEF count
<1> QED
  BY <1>1, LoadInit, LoadNext, PTL DEF Spec

\* A file is never damaged by loading a metainfo file that was made from it, for any
\* file, and wherever the text was cut or got a comment: a size that lost digits is the
\* last line there is, and such a text is refused before the file is opened.
THEOREM SharedKept == Spec => SharedStays
<1>1. LoadInv /\ [Next]_vars =>
          [shared # Absent /\ name.stem # NameSize /\ disk = shared => disk' = shared]_vars
  <2> SUFFICES ASSUME LoadInv, Next, shared # Absent, name.stem # NameSize, disk = shared
               PROVE  disk' = shared
    OBVIOUS
  <2>1. CASE TakeName
    <3>1. NameSize \in Nat \ {0}
      BY MetainfoAssumption
    <3>2. name \in Names
      BY DEF LoadInv, TextOK
    <3>3. name.stem \in {1, NameSize - 1, NameSize, NameSize + 1}
      BY <3>2 DEF Names
    <3> QED
      BY <2>1, <3>1, <3>3 DEF TakeName, NameFits
  <2>2. CASE OpenFile
    <3>1. disk \in Seq({0, 1}) /\ Opened = disk
      BY MetainfoAssumption DEF LoadInv, TextOK, Opened
    <3>2. t.size = Len(disk)
      BY <2>2 DEF LoadInv, SizeRead, OpenFile
    <3>3. Resized(disk, Len(disk)) = disk
      BY <3>1 DEF Resized
    <3> QED
      BY <2>2, <3>1, <3>2, <3>3 DEF OpenFile
  <2>3. CASE /\ ~TakeName /\ ~OpenFile
    BY <2>3 DEF Next, CallFails, ReadFileHash, ReadSize, ReadPeerCount, ReadHash, ReadPeer,
                VerifyBlock, Refuse
  <2> QED
    BY <2>1, <2>2, <2>3
<1> QED
  BY <1>1, LoadInit, LoadNext, PTL DEF Spec, SharedStays
----------------------------------------------------------------------------
(* What is read of a text that was made from a file.                        *)

\* The items of such a text, without the comments: the hash of the file, its size, the
\* count of peers, the hashes of the blocks and the peers.
Count == BlockCountOf(Len(shared))
Items == 3 + Count + PeerCount
Item(i) ==
    IF i = 1 THEN HashLine(shared)
    ELSE IF i = 2 THEN NumberLine(Len(shared))
    ELSE IF i = 3 THEN NumberLine(PeerCount)
    ELSE IF i <= 3 + Count THEN HashLine(Chunk(shared, i - 3))
    ELSE PeerLine(i - 3 - Count)

\* Item i is line place[i], and everything else a comment.  When the text is cut, it may
\* end before an item, and of the item in its last line something may be missing.
Laid(lines, place, cut) ==
    /\ place \in [1 .. Items -> Nat \ {0}]
    /\ \A i, j \in 1 .. Items : i < j => place[i] < place[j]
    /\ \A i \in 1 .. Items : place[i] <= Len(lines) =>
          \/ lines[place[i]] = Item(i)
          \/ cut /\ place[i] = Len(lines) /\ lines[place[i]] \in CutLine(Item(i))
    /\ \A h \in 1 .. Len(lines) :
          (\A i \in 1 .. Items : place[i] # h) => lines[h] = Comment
    /\ cut \/ place[Items] <= Len(lines)

\* The stream stands before item i, and only comments are between.
Standing(place, i) ==
    /\ pos <= place[i]
    /\ \A h \in pos .. place[i] - 1 : h <= Len(text) => text[h] = Comment

\* The items that are read, and where they went.
Got == IF at \in {"name", "hash"} THEN 0
       ELSE IF at = "size" THEN 1
       ELSE IF at = "peer_count" THEN 2
       ELSE 3 + Len(t.hashes) + Len(t.peers)
Field(i) ==
    IF i = 1 THEN t.hash
    ELSE IF i = 2 THEN t.size
    ELSE IF i = 3 THEN t.peer_count
    ELSE IF i <= 3 + Count THEN t.hashes[i - 3]
    ELSE t.peers[i - 3 - Count]

\* The last item read may be cut, and then nothing follows it.
Ended == made = "cut" /\ pos = Len(text) + 1

Lists == /\ at \in {"name", "hash", "size", "peer_count"} => t.hashes = << >> /\ t.peers = << >>
         /\ at = "hashes" => Len(t.hashes) < Count /\ t.peers = << >>
         /\ at = "peers"  => Len(t.hashes) = Count /\ Len(t.peers) < PeerCount
         /\ at \in {"open", "verify", "loaded"} =>
               Len(t.hashes) = Count /\ Len(t.peers) = PeerCount

ReadUpTo(place) ==
    at \notin {"refused", "failed", "aborted", "crashed"} =>
        /\ Lists
        /\ \A i \in 1 .. Got : Field(i) = Item(i).value \/ (i = Got /\ Ended)
        /\ Got < Items => Standing(place, Got + 1)

ItemsInv ==
    /\ made # "whole" => shared # Absent
    /\ shared # Absent => \E place : Laid(text, place, made = "cut") /\ ReadUpTo(place)

\* Only a cut, and the name, make a program refuse what was made by the program.
Accepted == shared # Absent /\ made # "cut" /\ name.extension = "end" /\ name.stem < NameSize =>
                at # "refused"

\* What block_map says of the blocks verified.
MapInv ==
    /\ disk \in Seq({0, 1}) \cup {Absent}
    /\ HasFile => disk \in Seq({0, 1})
    /\ Reading => map \in {<< >>, Null}
    /\ HasFile => \/ map = Null /\ block = 0
                  \/ /\ map \in Seq({0, 1}) /\ Len(map) = block
                     /\ \A j \in 1 .. block : map[j] = 1 <=> BlockBytes(j - 1) = t.hashes[j]
    /\ at = "loaded" => block = t.block_count

\* A file that is there.
LEMMA FileThere == ASSUME shared \in Contents PROVE shared # Absent
<1>1. shared \in Seq({0, 1})
  BY MetainfoAssumption
<1>2. ASSUME shared = << 2 >> PROVE FALSE
  <2>1. Len(shared) = 1 /\ shared[1] = 2
    BY <1>2
  <2>2. shared[1] \in {0, 1}
    BY <1>1, <2>1, ElementOfSeq
  <2> QED
    BY <2>1, <2>2
<1> QED
  BY <1>2 DEF Absent

\* What the items are.
LEMMA ItemTypes ==
    ASSUME shared \in Contents
    PROVE  /\ Count \in Nat /\ PeerCount \in Nat \ {0} /\ Items = 3 + Count + PeerCount
           /\ Len(shared) \in Nat /\ shared \in Seq({0, 1})
           /\ Item(1) = HashLine(shared) /\ Item(2) = NumberLine(Len(shared))
           /\ Item(3) = NumberLine(PeerCount)
           /\ \A i \in 4 .. 3 + Count : Item(i) = HashLine(Chunk(shared, i - 3))
           /\ \A i \in 4 + Count .. Items : Item(i) = PeerLine(i - 3 - Count)
<1>1. /\ shared \in Seq({0, 1}) /\ Len(shared) \in Nat /\ PeerCount \in Nat \ {0}
  BY MetainfoAssumption
<1>2. Count \in Nat
  BY <1>1, BlockCountType DEF Count
<1> QED
  BY <1>1, <1>2 DEF Item, Items

\* No item is a comment or a blank line, whatever is left of it.
LEMMA ItemKinds ==
    ASSUME shared \in Contents, NEW i \in 1 .. Items
    PROVE  /\ Item(i) \in Line
           /\ i \in {1} \cup 4 .. 3 + Count => Item(i).kind = "hash"
           /\ i \in {2, 3} => Item(i).kind = "number"
           /\ i > 3 + Count => Item(i).kind = "peer"
           /\ \A l \in CutLine(Item(i)) : l.kind \in {"hash", "number", "peer", "word"}
<1>1. /\ Count \in Nat /\ PeerCount \in Nat \ {0} /\ Items = 3 + Count + PeerCount
      /\ Len(shared) \in Nat /\ shared \in Seq({0, 1}) /\ i \in Nat
  BY ItemTypes
<1>2. ASSUME NEW h \in Digest, Item(i) = HashLine(h)
      PROVE  Item(i) \in Line /\ Item(i).kind = "hash"
  BY <1>2, LineTypes
<1>3. ASSUME NEW n \in Nat, Item(i) = NumberLine(n)
      PROVE  Item(i) \in Line /\ Item(i).kind = "number"
  BY <1>3, LineTypes
<1>4. ASSUME NEW n \in Nat, Item(i) = PeerLine(n)
      PROVE  Item(i) \in Line /\ Item(i).kind = "peer"
  BY <1>4, LineTypes
<1>5. /\ Item(i) \in Line
      /\ i \in {1} \cup 4 .. 3 + Count => Item(i).kind = "hash"
      /\ i \in {2, 3} => Item(i).kind = "number"
      /\ i > 3 + Count => Item(i).kind = "peer"
      /\ Item(i).kind \in {"hash", "number", "peer"}
  <2>1. CASE i = 1
    <3>1. shared \in Digest /\ Item(i) = HashLine(shared)
      BY <1>1, <2>1, ItemTypes DEF Digest
    <3> QED
      BY <1>1, <1>2, <2>1, <3>1
  <2>2. CASE i \in {2, 3}
    <3>1. \E n \in Nat : Item(i) = NumberLine(n)
      BY <1>1, <2>2, ItemTypes
    <3> QED
      BY <1>1, <1>3, <2>2, <3>1
  <2>3. CASE i \in 4 .. 3 + Count
    <3>1. i - 3 \in Nat \ {0}
      BY <1>1, <2>3
    <3>2. Chunk(shared, i - 3) \in Digest
      BY <1>1, <3>1, ChunkType
    <3>3. Item(i) = HashLine(Chunk(shared, i - 3))
      BY <2>3, ItemTypes
    <3> QED
      BY <1>1, <1>2, <2>3, <3>2, <3>3
  <2>4. CASE i > 3 + Count
    <3>1. i \in 4 + Count .. Items /\ i - 3 - Count \in Nat
      BY <1>1, <2>4
    <3>2. Item(i) = PeerLine(i - 3 - Count)
      BY <3>1, ItemTypes
    <3> QED
      BY <1>1, <1>4, <2>4, <3>1, <3>2
  <2> QED
    BY <1>1, <2>1, <2>2, <2>3, <2>4
<1>6. ASSUME NEW l \in CutLine(Item(i)) PROVE l.kind \in {"hash", "number", "peer", "word"}
  BY <1>5, <1>6 DEF CutLine, NumberLine, HashLine, PeerLine, Word
<1> QED
  BY <1>5, <1>6

\* The new text of a file.
LEMMA LaidCreated == ASSUME shared \in Contents
                     PROVE  \E place : Laid(CreatedText(shared), place, FALSE)
<1> DEFINE q == CreatedText(shared)
           place == [i \in 1 .. Items |->
                        IF i <= 3 THEN 2 * i ELSE IF i <= 3 + Count THEN i + 4 ELSE i + 5]
<1>1. /\ Count \in Nat /\ PeerCount \in Nat \ {0} /\ Items = 3 + Count + PeerCount
      /\ Item(1) = HashLine(shared) /\ Item(2) = NumberLine(Len(shared))
      /\ Item(3) = NumberLine(PeerCount)
      /\ \A i \in 4 .. 3 + Count : Item(i) = HashLine(Chunk(shared, i - 3))
      /\ \A i \in 4 + Count .. Items : Item(i) = PeerLine(i - 3 - Count)
  BY ItemTypes
<1>2. /\ q \in Seq(Line) /\ Len(q) = 8 + Count + PeerCount
      /\ \A i \in {1, 3, 5, 7, 8 + Count} : q[i] = Comment
      /\ q[2] = HashLine(shared) /\ q[4] = NumberLine(Len(shared))
      /\ q[6] = NumberLine(PeerCount)
      /\ \A j \in 1 .. Count : q[7 + j] = HashLine(Chunk(shared, j))
      /\ \A p \in 1 .. PeerCount : q[8 + Count + p] = PeerLine(p)
  BY CreatedLines DEF Count
<1> HIDE DEF q
<1>3. place \in [1 .. Items -> Nat \ {0}]
  BY <1>1
<1>4. ASSUME NEW i \in 1 .. Items, NEW j \in 1 .. Items, i < j PROVE place[i] < place[j]
  BY <1>1, <1>4
<1>5. ASSUME NEW i \in 1 .. Items PROVE q[place[i]] = Item(i)
  <2>1. CASE i \in {1, 2, 3}
    BY <1>1, <1>2, <2>1
  <2>2. CASE i \in 4 .. 3 + Count
    <3> DEFINE j == i - 3
    <3>1. j \in 1 .. Count /\ place[i] = 7 + j
      BY <1>1, <2>2
    <3>2. q[7 + j] = HashLine(Chunk(shared, j))
      BY <1>2, <3>1
    <3>3. Item(i) = HashLine(Chunk(shared, j))
      BY <1>1, <2>2
    <3> QED
      BY <3>1, <3>2, <3>3
  <2>3. CASE i > 3 + Count
    <3> DEFINE p == i - 3 - Count
    <3>1. p \in 1 .. PeerCount /\ place[i] = 8 + Count + p /\ i \in 4 + Count .. Items
      BY <1>1, <2>3
    <3>2. q[8 + Count + p] = PeerLine(p)
      BY <1>2, <3>1
    <3>3. Item(i) = PeerLine(p)
      BY <1>1, <3>1
    <3> QED
      BY <3>1, <3>2, <3>3
  <2> QED
    BY <1>1, <2>1, <2>2, <2>3
<1>6. ASSUME NEW h \in 1 .. Len(q), \A i \in 1 .. Items : place[i] # h
      PROVE  q[h] = Comment
  <2>1. h \notin {2, 4, 6}
    <3>1. 1 \in 1 .. Items /\ 2 \in 1 .. Items /\ 3 \in 1 .. Items
      BY <1>1
    <3>2. place[1] = 2 /\ place[2] = 4 /\ place[3] = 6
      BY <3>1
    <3> QED
      BY <1>6, <3>1, <3>2
  <2>2. h \notin 8 .. 7 + Count
    <3> SUFFICES ASSUME h \in 8 .. 7 + Count PROVE FALSE
      OBVIOUS
    <3>1. h - 4 \in 1 .. Items /\ place[h - 4] = h
      BY <1>1
    <3> QED
      BY <1>6, <3>1
  <2>3. ~(h > 8 + Count)
    <3> SUFFICES ASSUME h > 8 + Count PROVE FALSE
      OBVIOUS
    <3>1. h - 5 \in 1 .. Items /\ place[h - 5] = h
      BY <1>1, <1>2
    <3> QED
      BY <1>6, <3>1
  <2>4. h \in {1, 3, 5, 7, 8 + Count}
    BY <1>1, <1>2, <2>1, <2>2, <2>3
  <2> QED
    BY <1>2, <2>4
<1>7. place[Items] <= Len(q)
  BY <1>1, <1>2
<1> HIDE DEF place
<1>8. Laid(q, place, FALSE)
  BY <1>3, <1>4, <1>5, <1>6, <1>7 DEF Laid
<1> QED
  BY <1>8 DEF q

\* A comment more moves the items after it.
LEMMA LaidCommented ==
    ASSUME shared \in Contents, NEW lines \in Seq(Line), NEW old, Laid(lines, old, FALSE),
           NEW q \in WithLine(lines, Comment)
    PROVE  \E place : Laid(q, place, FALSE)
<1>1. q \in Seq(Line) /\ Len(q) = Len(lines) + 1
  BY CommentedLines
<1>2. PICK c \in 0 .. Len(lines) :
          /\ \A i \in 1 .. c : q[i] = lines[i]
          /\ q[c + 1] = Comment
          /\ \A i \in c + 2 .. Len(lines) + 1 : q[i] = lines[i - 1]
  BY CommentedLines
<1> DEFINE place == [i \in 1 .. Items |-> IF old[i] <= c THEN old[i] ELSE old[i] + 1]
<1>3. /\ old \in [1 .. Items -> Nat \ {0}] /\ Items \in Nat /\ Items >= 1
      /\ \A i, j \in 1 .. Items : i < j => old[i] < old[j]
      /\ old[Items] <= Len(lines)
      /\ \A h \in 1 .. Len(lines) :
            (\A i \in 1 .. Items : old[i] # h) => lines[h] = Comment
  BY ItemTypes DEF Laid
<1>4. ASSUME NEW i \in 1 .. Items PROVE old[i] \in 1 .. Len(lines) /\ lines[old[i]] = Item(i)
  <2>1. old[i] \in Nat \ {0} /\ old[Items] \in Nat
    BY <1>3
  <2>2. i = Items \/ (i < Items /\ Items \in 1 .. Items)
    BY <1>3
  <2>3. old[i] <= old[Items]
    BY <1>3, <2>1, <2>2
  <2>4. old[i] <= Len(lines)
    BY <1>3, <2>1, <2>3
  <2> QED
    BY <2>1, <2>4 DEF Laid
<1>5. place \in [1 .. Items -> Nat \ {0}]
  BY <1>3
<1>6. ASSUME NEW i \in 1 .. Items, NEW j \in 1 .. Items, i < j PROVE place[i] < place[j]
  <2>1. old[i] < old[j] /\ old[i] \in Nat /\ old[j] \in Nat
    BY <1>3, <1>6
  <2> QED
    BY <2>1
<1>7. ASSUME NEW i \in 1 .. Items PROVE q[place[i]] = Item(i)
  <2>1. CASE old[i] <= c
    BY <1>2, <1>4, <2>1
  <2>2. CASE ~(old[i] <= c)
    <3>1. /\ old[i] + 1 \in c + 2 .. Len(lines) + 1 /\ (old[i] + 1) - 1 = old[i]
          /\ place[i] = old[i] + 1
      BY <1>4, <2>2
    <3> QED
      BY <1>2, <1>4, <3>1
  <2> QED
    BY <2>1, <2>2
<1>8. ASSUME NEW h \in 1 .. Len(q), \A i \in 1 .. Items : place[i] # h
      PROVE  q[h] = Comment
  <2>1. CASE h <= c
    <3>1. \A i \in 1 .. Items : old[i] # h
      BY <1>8, <2>1
    <3>2. h \in 1 .. Len(lines) /\ h \in 1 .. c
      BY <2>1
    <3> QED
      BY <1>2, <1>3, <3>1, <3>2
  <2>2. CASE h > c + 1
    <3>1. h - 1 \in 1 .. Len(lines) /\ h \in c + 2 .. Len(lines) + 1
      BY <1>1, <2>2
    <3>2. ASSUME NEW i \in 1 .. Items, old[i] = h - 1 PROVE FALSE
      <4>1. ~(old[i] <= c) /\ old[i] + 1 = h
        BY <2>2, <3>2
      <4> QED
        BY <1>8, <4>1
    <3>3. q[h] = lines[h - 1]
      BY <1>2, <3>1
    <3> QED
      BY <1>3, <3>1, <3>2, <3>3
  <2> QED
    BY <1>2, <2>1, <2>2
<1>9. place[Items] <= Len(q)
  <2>1. Items \in 1 .. Items
    BY <1>3
  <2> QED
    BY <1>1, <1>4, <2>1
<1> HIDE DEF place
<1> QED
  BY <1>5, <1>6, <1>7, <1>8, <1>9 DEF Laid

\* A text that ends too early has its items where they were, as far as it goes.
LEMMA LaidCut ==
    ASSUME shared \in Contents, NEW lines \in Seq(Line), NEW place, Laid(lines, place, FALSE),
           NEW q \in CutText(lines)
    PROVE  Laid(q, place, TRUE)
<1>1. PICK j \in 1 .. Len(lines) :
          /\ Len(q) \in {j - 1, j} /\ \A i \in 1 .. j - 1 : q[i] = lines[i]
          /\ Len(q) = j => q[j] \in CutLine(lines[j])
  BY CutLines
<1>2. /\ place \in [1 .. Items -> Nat \ {0}]
      /\ \A i, k \in 1 .. Items : i < k => place[i] < place[k]
  BY DEF Laid
<1>3. ASSUME NEW i \in 1 .. Items, place[i] <= Len(q)
      PROVE  q[place[i]] = Item(i) \/ (place[i] = Len(q) /\ q[place[i]] \in CutLine(Item(i)))
  <2>1. place[i] \in 1 .. j /\ place[i] <= Len(lines)
    BY <1>1, <1>2, <1>3
  <2>2. lines[place[i]] = Item(i)
    BY <2>1 DEF Laid
  <2>3. CASE place[i] = j
    BY <1>1, <1>3, <2>2, <2>3
  <2>4. CASE place[i] # j
    BY <1>1, <2>1, <2>2, <2>4
  <2> QED
    BY <2>3, <2>4
<1>4. ASSUME NEW h \in 1 .. Len(q), \A i \in 1 .. Items : place[i] # h
      PROVE  q[h] = Comment
  <2>1. h \in 1 .. Len(lines)
    BY <1>1
  <2>2. lines[h] = Comment
    BY <1>4, <2>1 DEF Laid
  <2>3. CASE h = j
    <3>1. CutLine(Comment) = {Comment}
      BY DEF CutLine, Comment
    <3> QED
      BY <1>1, <2>2, <2>3, <3>1
  <2>4. CASE h # j
    BY <1>1, <2>2, <2>4
  <2> QED
    BY <2>3, <2>4
<1> QED
  BY <1>2, <1>3, <1>4 DEF Laid

\* Where a stretch of comments or blank lines ends.
LEMMA PastIs ==
    ASSUME TextOK, NEW kind \in {"comment", "blank"}, NEW p \in 1 .. Len(text) + 1,
           NEW q \in p .. Len(text) + 1, LineAt(q).kind # kind,
           \A h \in p .. q - 1 : LineAt(h).kind = kind
    PROVE  Past(kind, p) = q
<1>1. /\ Past(kind, p) \in p .. Len(text) + 1
      /\ \A h \in p .. Past(kind, p) - 1 : LineAt(h).kind = kind
      /\ LineAt(Past(kind, p)).kind # kind
  BY PastOK
<1>2. Len(text) \in Nat /\ p \in Nat
  BY DEF TextOK
<1>3. ~(q < Past(kind, p))
  <2> SUFFICES ASSUME q < Past(kind, p) PROVE FALSE
    OBVIOUS
  <2>1. q \in p .. Past(kind, p) - 1
    BY <1>1, <1>2
  <2> QED
    BY <1>1, <2>1
<1>4. ~(Past(kind, p) < q)
  <2> SUFFICES ASSUME Past(kind, p) < q PROVE FALSE
    OBVIOUS
  <2>1. Past(kind, p) \in p .. q - 1
    BY <1>1, <1>2
  <2> QED
    BY <1>1, <2>1
<1> QED
  BY <1>1, <1>2, <1>3, <1>4

\* The program writes no blank lines.
LEMMA NoBlank ==
    ASSUME shared \in Contents, TextOK, NEW place, Laid(text, place, made = "cut"),
           NEW h \in 1 .. Len(text) + 1
    PROVE  LineAt(h).kind # "blank"
<1>1. Len(text) \in Nat /\ Comment.kind = "comment"
  BY LineTypes DEF TextOK
<1>2. CASE h > Len(text)
  BY <1>1, <1>2 DEF LineAt, EndOfFile
<1>3. CASE h <= Len(text)
  <2>1. LineAt(h) = text[h] /\ h \in 1 .. Len(text)
    BY <1>1, <1>3 DEF LineAt
  <2>2. CASE \A i \in 1 .. Items : place[i] # h
    <3>1. text[h] = Comment
      BY <2>1, <2>2 DEF Laid
    <3> QED
      BY <1>1, <2>1, <3>1
  <2>3. ASSUME NEW i \in 1 .. Items, place[i] = h PROVE LineAt(h).kind # "blank"
    <3>1. text[h] = Item(i) \/ text[h] \in CutLine(Item(i))
      BY <2>1, <2>3, <1>3 DEF Laid
    <3>2. Item(i) \in CutLine(Item(i))
      BY DEF CutLine
    <3>3. text[h].kind \in {"hash", "number", "peer", "word"}
      BY <3>1, <3>2, ItemKinds
    <3> QED
      BY <2>1, <3>3
  <2> QED
    BY <2>2, <2>3
<1> QED
  BY <1>1, <1>2, <1>3

\* What the calls that skip comments and white space find.
LEMMA ItemDue ==
    ASSUME LoadInv, shared \in Contents, NEW place, Laid(text, place, made = "cut"),
           NEW i \in 1 .. Items, Standing(place, i)
    PROVE  /\ DueNumber = Due
           /\ place[i] > Len(text) => LineAt(Due) = EndOfFile
           /\ place[i] <= Len(text) => Due = place[i] /\ LineAt(Due) = text[Due]
<1>1. /\ TextOK /\ Len(text) \in Nat /\ pos \in 1 .. Len(text) + 1
      /\ Due \in 1 .. Len(text) + 1
  BY Loading, DueOK
<1>2. /\ place[i] \in Nat \ {0} /\ pos <= place[i]
      /\ \A h \in pos .. place[i] - 1 : h <= Len(text) => text[h] = Comment
  BY DEF Laid, Standing
<1>3. ASSUME NEW h \in pos .. place[i] - 1, h <= Len(text) PROVE LineAt(h).kind = "comment"
  <2>1. text[h] = Comment /\ LineAt(h) = text[h]
    BY <1>2, <1>3 DEF LineAt
  <2> QED
    BY <2>1, LineTypes
<1>4. DueNumber = Due
  <2>1. LineAt(Due).kind # "blank"
    BY <1>1, NoBlank
  <2>2. \A h \in Due .. Due - 1 : LineAt(h).kind = "blank"
    BY <1>1
  <2>3. Due \in Due .. Len(text) + 1
    BY <1>1
  <2> HIDE DEF Due
  <2>4. Past("blank", Due) = Due
    BY <1>1, <2>1, <2>2, <2>3, PastIs
  <2> QED
    BY <2>4 DEF DueNumber
<1>5. CASE place[i] > Len(text)
  <2> DEFINE end == Len(text) + 1
  <2>1. /\ end \in pos .. Len(text) + 1 /\ end > Len(text)
        /\ pos .. end - 1 \subseteq pos .. place[i] - 1
    BY <1>1, <1>2, <1>5
  <2>2. LineAt(end) = EndOfFile /\ EndOfFile.kind # "comment"
    BY <1>1 DEF LineAt, EndOfFile
  <2>3. \A h \in pos .. end - 1 : LineAt(h).kind = "comment"
    BY <1>1, <1>3, <2>1
  <2> HIDE DEF end
  <2>4. Past("comment", pos) = end
    BY <1>1, <2>1, <2>2, <2>3, PastIs
  <2> QED
    BY <1>4, <1>5, <1>1, <1>2, <2>2, <2>4 DEF Due
<1>6. CASE place[i] <= Len(text)
  <2> DEFINE d == place[i]
  <2>1. d \in pos .. Len(text) + 1 /\ d \in 1 .. Len(text)
    BY <1>1, <1>2, <1>6
  <2>2. text[d].kind # "comment" /\ LineAt(d) = text[d]
    <3>1. text[d] = Item(i) \/ text[d] \in CutLine(Item(i))
      BY <1>6 DEF Laid
    <3>2. Item(i) \in CutLine(Item(i))
      BY DEF CutLine
    <3>3. text[d].kind \in {"hash", "number", "peer", "word"}
      BY <3>1, <3>2, ItemKinds
    <3> QED
      BY <1>1, <2>1, <3>3 DEF LineAt
  <2>3. \A h \in pos .. d - 1 : LineAt(h).kind = "comment"
    BY <1>1, <1>3, <2>1
  <2> HIDE DEF d
  <2>4. Past("comment", pos) = d
    BY <1>1, <2>1, <2>2, <2>3, PastIs
  <2>5. Due = d
    BY <2>4 DEF Due
  <2>6. ~(place[i] > Len(text)) /\ Due = place[i] /\ LineAt(Due) = text[Due]
    BY <1>1, <1>6, <2>1, <2>2, <2>5 DEF d
  <2> QED
    BY <1>4, <2>6
<1> QED
  BY <1>1, <1>2, <1>5, <1>6

\* An item that is read is the one that is due, or what is left of it at the end.
LEMMA ItemTaken ==
    ASSUME LoadInv, shared \in Contents, NEW place, Laid(text, place, made = "cut"),
           NEW i \in 1 .. Items, Standing(place, i),
           LineAt(Due).kind \in {"hash", "number", "peer"}
    PROVE  /\ Due = place[i] /\ DueNumber = Due /\ Due \in pos .. Len(text)
           /\ LineAt(Due) = Item(i) \/ (made = "cut" /\ Due = Len(text))
           /\ Past("blank", Due + 1) = Due + 1
           /\ i < Items => /\ Due + 1 <= place[i + 1]
                           /\ \A h \in Due + 1 .. place[i + 1] - 1 :
                                 h <= Len(text) => text[h] = Comment
<1>1. /\ TextOK /\ Len(text) \in Nat /\ pos \in 1 .. Len(text) + 1
      /\ Due \in pos .. Len(text) + 1 /\ Due \in 1 .. Len(text) + 1
  BY Loading, DueOK
<1>2. /\ place \in [1 .. Items -> Nat \ {0}]
      /\ \A j, k \in 1 .. Items : j < k => place[j] < place[k]
      /\ Items \in Nat
  BY ItemTypes DEF Laid
<1>3. place[i] <= Len(text)
  <2>1. LineAt(Due) # EndOfFile
    BY DEF EndOfFile
  <2>2. place[i] > Len(text) => LineAt(Due) = EndOfFile
    BY ItemDue
  <2>3. place[i] \in Nat /\ Len(text) \in Nat
    BY <1>1, <1>2
  <2> QED
    BY <2>1, <2>2, <2>3
<1>4. Due = place[i] /\ DueNumber = Due /\ LineAt(Due) = text[Due]
  BY <1>3, ItemDue
<1>5. Due \in pos .. Len(text)
  BY <1>1, <1>3, <1>4
<1>6. LineAt(Due) = Item(i) \/ (made = "cut" /\ Due = Len(text))
  BY <1>3, <1>4 DEF Laid
<1>7. Past("blank", Due + 1) = Due + 1
  <2> DEFINE next == Due + 1
  <2>1. next \in 1 .. Len(text) + 1 /\ next \in next .. Len(text) + 1
    BY <1>1, <1>5
  <2>2. \A h \in next .. next - 1 : LineAt(h).kind = "blank"
    BY <2>1
  <2> HIDE DEF next
  <2>3. LineAt(next).kind # "blank"
    BY <1>1, <2>1, NoBlank
  <2>4. Past("blank", next) = next
    BY <1>1, <2>1, <2>2, <2>3, PastIs
  <2> QED
    BY <2>4 DEF next
<1>8. ASSUME i < Items
      PROVE  /\ Due + 1 <= place[i + 1]
             /\ \A h \in Due + 1 .. place[i + 1] - 1 : h <= Len(text) => text[h] = Comment
  <2>1. i + 1 \in 1 .. Items /\ i < i + 1
    BY <1>2, <1>8
  <2>2. place[i] < place[i + 1] /\ place[i] \in Nat /\ place[i + 1] \in Nat
    BY <1>2, <2>1
  <2>3. ASSUME NEW h \in Due + 1 .. place[i + 1] - 1, h <= Len(text) PROVE text[h] = Comment
    <3>1. h \in 1 .. Len(text) /\ place[i] < h /\ h < place[i + 1]
      BY <1>1, <1>4, <2>2, <2>3
    <3>2. ASSUME NEW j \in 1 .. Items PROVE place[j] # h
      <4>1. CASE j <= i
        <5>1. j = i \/ place[j] < place[i]
          BY <1>2, <4>1
        <5> QED
          BY <1>2, <2>2, <3>1, <5>1
      <4>2. CASE j > i
        <5>1. j = i + 1 \/ place[i + 1] < place[j]
          BY <1>2, <2>1, <4>2
        <5> QED
          BY <1>2, <2>2, <3>1, <5>1
      <4> QED
        BY <4>1, <4>2
    <3> QED
      BY <3>1, <3>2 DEF Laid
  <2>4. Due + 1 <= place[i + 1]
    BY <1>4, <2>2
  <2> QED
    BY <2>3, <2>4
<1> QED
  BY <1>4, <1>5, <1>6, <1>7, <1>8

\* The file and the text do not change, and neither do the items.
LEMMA SameItems ==
    ASSUME UNCHANGED history
    PROVE  /\ Count' = Count /\ Items' = Items
           /\ \A i : Item(i)' = Item(i)
           /\ \A place : Laid(text, place, made = "cut") => Laid(text, place, made = "cut")'
<1>1. text' = text /\ shared' = shared /\ made' = made
  BY DEF history
<1>2. Count' = Count
  BY <1>1 DEF Count
<1>3. Items' = Items
  BY <1>2 DEF Items
<1>4. \A i : Item(i)' = Item(i)
  BY <1>1, <1>2 DEF Item
<1>5. ASSUME NEW place, Laid(text, place, made = "cut")
      PROVE  Laid(text, place, made = "cut")'
  BY <1>1, <1>3, <1>4, <1>5 DEF Laid
<1> QED
  BY <1>2, <1>3, <1>4, <1>5

\* Everything that is read is right as long as something follows it.
LEMMA FieldsRight ==
    ASSUME LoadInv, NEW place, ReadUpTo(place), NEW n \in Nat, n = Got,
           pos <= Len(text), at \in {"hash", "size", "peer_count", "hashes", "peers"}
    PROVE  /\ Lists /\ \A i \in 1 .. n : Field(i) = Item(i).value
           /\ n < Items => Standing(place, n + 1)
<1>1. Len(text) \in Nat /\ pos \in 1 .. Len(text) + 1
  BY Loading
<1>2. pos # Len(text) + 1
  BY <1>1
<1>3. ~Ended
  BY <1>2 DEF Ended
<1> QED
  BY <1>3 DEF ReadUpTo

\* One item more is read.
LEMMA OneItem ==
    ASSUME LoadInv, shared \in Contents, NEW place, Laid(text, place, made = "cut"),
           ReadUpTo(place), UNCHANGED history,
           at \in {"hash", "size", "peer_count", "hashes", "peers"},
           NEW n \in Nat, n = Got, NEW i \in 1 .. Items, i = n + 1,
           LineAt(Due).kind \in {"hash", "number", "peer"},
           pos' \in {Due + 1, Past("blank", Due + 1)}, Lists', Got' = i,
           \A j \in 1 .. n : Field(j)' = Field(j),
           Field(i)' = LineAt(Due).value
    PROVE  ReadUpTo(place)'
<1>1. n < Items /\ Items \in Nat /\ i \in Nat
  BY ItemTypes
<1>2. Len(text) \in Nat /\ pos \in 1 .. Len(text) + 1
  BY Loading
<1>3. Standing(place, i)
  BY <1>1 DEF ReadUpTo
<1>4. /\ Due \in pos .. Len(text) /\ pos' = Due + 1
      /\ LineAt(Due) = Item(i) \/ (made = "cut" /\ Due = Len(text))
      /\ i < Items => /\ Due + 1 <= place[i + 1]
                      /\ \A h \in Due + 1 .. place[i + 1] - 1 :
                            h <= Len(text) => text[h] = Comment
  BY <1>3, ItemTaken
<1>5. \A j \in 1 .. n : Field(j) = Item(j).value
  <2>1. pos <= Len(text)
    BY <1>2, <1>4
  <2> QED
    BY <2>1, FieldsRight
<1>6. /\ text' = text /\ made' = made /\ Items' = Items /\ \A j : Item(j)' = Item(j)
  BY SameItems DEF history
<1>7. ASSUME NEW j \in 1 .. i PROVE Field(j)' = Item(j)'.value \/ (j = i /\ Ended')
  <2>1. CASE j \in 1 .. n
    <3>1. Field(j)' = Field(j)
      BY <2>1
    <3>2. Field(j) = Item(j).value
      BY <1>5, <2>1
    <3>3. Item(j)' = Item(j)
      BY <1>6
    <3> QED
      BY <3>1, <3>2, <3>3
  <2>2. CASE j = i
    <3>1. Field(j)' = LineAt(Due).value
      BY <2>2
    <3>2. CASE LineAt(Due) = Item(i)
      <4>1. Item(j)' = Item(i)
        BY <1>6, <2>2
      <4> QED
        BY <3>1, <3>2, <4>1
    <3>3. CASE made = "cut" /\ Due = Len(text)
      <4>1. made' = "cut" /\ pos' = Len(text') + 1
        BY <1>4, <1>6, <3>3
      <4>2. Ended'
        BY <4>1 DEF Ended
      <4> QED
        BY <2>2, <4>2
    <3> QED
      BY <1>4, <3>2, <3>3
  <2>3. j \in 1 .. n \/ j = i
    BY <1>1
  <2> QED
    BY <2>1, <2>2, <2>3
<1>8. (Got < Items => Standing(place, Got + 1))'
  BY <1>4, <1>6 DEF Standing
<1>9. (\A j \in 1 .. Got : Field(j) = Item(j).value \/ (j = Got /\ Ended))'
  BY <1>7
<1> QED
  BY <1>8, <1>9 DEF ReadUpTo

\* Where the next item is looked for.
LEMMA NextDue ==
    ASSUME LoadInv, shared \in Contents, NEW place, Laid(text, place, made = "cut"),
           ReadUpTo(place), NEW n \in Nat, n = Got, n < Items,
           at \in {"hash", "size", "peer_count", "hashes", "peers"}
    PROVE  n + 1 \in 1 .. Items /\ Standing(place, n + 1) /\ DueNumber = Due
<1>1. n + 1 \in 1 .. Items
  BY ItemTypes
<1>2. Standing(place, n + 1)
  BY DEF ReadUpTo
<1> QED
  BY <1>1, <1>2, ItemDue

\* Nothing is read yet.
LEMMA ItemsInit == Init => ItemsInv
<1>7. Init /\ made # "whole" => shared # Absent
  BY FileThere DEF Init
<1> SUFFICES ASSUME Init, shared # Absent
             PROVE  \E place : Laid(text, place, made = "cut") /\ ReadUpTo(place)
  BY <1>7 DEF ItemsInv
<1>1. shared \in Contents /\ TextOK /\ Len(text) \in Nat
  BY LoadInit, Loading DEF LoadInv, TextOK
<1>2. CreatedText(shared) \in Seq(Line)
  BY <1>1, CreatedSays
<1>3. PICK place : Laid(text, place, made = "cut")
  <2>1. PICK old : Laid(CreatedText(shared), old, FALSE)
    BY <1>1, LaidCreated
  <2>2. CASE made = "whole" /\ text = CreatedText(shared)
    <3>1. (made = "cut") = FALSE
      BY <2>2
    <3> QED
      BY <2>1, <2>2, <3>1
  <2>3. CASE made = "commented" /\ text \in WithLine(CreatedText(shared), Comment)
    <3>1. (made = "cut") = FALSE
      BY <2>3
    <3>2. \E place : Laid(text, place, FALSE)
      BY <1>1, <1>2, <2>1, <2>3, LaidCommented
    <3> QED
      BY <3>1, <3>2
  <2>4. CASE made = "cut" /\ text \in CutText(CreatedText(shared))
    <3>1. (made = "cut") = TRUE
      BY <2>4
    <3>2. Laid(text, old, TRUE)
      BY <1>1, <1>2, <2>1, <2>4, LaidCut
    <3> QED
      BY <3>1, <3>2
  <2> QED
    BY <2>2, <2>3, <2>4 DEF Init
<1>4. Got = 0 /\ Lists /\ at = "name" /\ pos = 1
  BY DEF Init, Got, Lists, Fresh
<1>5. Standing(place, 1)
  <2>1. /\ 1 \in 1 .. Items /\ place \in [1 .. Items -> Nat \ {0}]
        /\ \A i \in 1 .. Items : i = 1 \/ place[1] < place[i]
    BY <1>1, <1>3, ItemTypes DEF Laid
  <2>2. ASSUME NEW h \in 1 .. place[1] - 1, h <= Len(text) PROVE text[h] = Comment
    <3>1. \A i \in 1 .. Items : place[i] # h
      BY <2>1
    <3>2. h \in 1 .. Len(text)
      BY <1>1, <2>2
    <3> QED
      BY <1>3, <3>1, <3>2 DEF Laid
  <2> QED
    BY <1>4, <2>1, <2>2 DEF Standing
<1>6. ReadUpTo(place)
  BY <1>4, <1>5 DEF ReadUpTo
<1> QED
  BY <1>3, <1>6

\* A step that reads nothing.
LEMMA ItemsStay ==
    ASSUME ItemsInv, UNCHANGED <<pos, t, history>>,
           \/ at' \in {"refused", "failed", "aborted", "crashed"}
           \/ at' = at
           \/ at = "name" /\ at' = "hash"
           \/ at \in {"open", "verify"} /\ at' \in {"verify", "loaded"}
    PROVE  ItemsInv'
<1> SUFFICES ASSUME shared' # Absent
             PROVE  \E place : (Laid(text, place, made = "cut") /\ ReadUpTo(place))'
  BY DEF ItemsInv, history
<1>1. /\ UNCHANGED history /\ text' = text /\ shared' = shared /\ made' = made
      /\ pos' = pos /\ t' = t
  BY DEF history
<1>2. PICK place : Laid(text, place, made = "cut") /\ ReadUpTo(place)
  BY <1>1 DEF ItemsInv
<1>3. Laid(text, place, made = "cut")'
  BY <1>1, <1>2, SameItems
<1>4. Count' = Count /\ Items' = Items /\ \A i : Item(i)' = Item(i)
  BY <1>1, SameItems
<1>5. ReadUpTo(place)'
  <2> SUFFICES ASSUME at' \notin {"refused", "failed", "aborted", "crashed"}
               PROVE  ReadUpTo(place)'
    BY DEF ReadUpTo
  <2>1. /\ Lists /\ \A i \in 1 .. Got : Field(i) = Item(i).value \/ (i = Got /\ Ended)
        /\ Got < Items => Standing(place, Got + 1)
    BY <1>2 DEF ReadUpTo
  <2>2. Got' = Got
    BY <1>1 DEF Got
  <2>3. Lists'
    BY <1>1, <1>4, <2>1 DEF Lists
  <2>4. Ended' = Ended /\ \A i : Field(i)' = Field(i)
    BY <1>1, <1>4 DEF Ended, Field
  <2>5. (Got < Items => Standing(place, Got + 1))'
    BY <1>1, <1>4, <2>1, <2>2 DEF Standing
  <2>6. (\A i \in 1 .. Got : Field(i) = Item(i).value \/ (i = Got /\ Ended))'
    BY <1>4, <2>1, <2>2, <2>4
  <2> QED
    BY <2>3, <2>5, <2>6 DEF ReadUpTo
<1> QED
  BY <1>3, <1>5

\* The hash of the file.
LEMMA FileHashItem ==
    ASSUME LoadInv, shared \in Contents, NEW place, Laid(text, place, made = "cut"),
           ReadUpTo(place), ReadFileHash, ~Refuse
    PROVE  ReadUpTo(place)'
<1>1. /\ LineAt(Due).kind = "hash" /\ at = "hash" /\ at' = "size" /\ UNCHANGED history
      /\ t' = [t EXCEPT !.hash = LineAt(Due).value] /\ pos' = Past("blank", Due + 1)
  BY DEF ReadFileHash, ReadsHash
<1>2. t \in Torrent /\ Lists
  BY <1>1, Loading DEF ReadUpTo
<1>3. 0 = Got /\ Got' = 1
  BY <1>1 DEF Got
<1>4. 1 \in 1 .. Items
  BY ItemTypes
<1>5. Lists'
  BY <1>1, <1>2 DEF Lists, Torrent
<1>6. Field(1)' = LineAt(Due).value
  BY <1>1, <1>2 DEF Field, Torrent
<1> QED
  BY <1>1, <1>3, <1>4, <1>5, <1>6, OneItem

\* The size of the file.
LEMMA SizeItem ==
    ASSUME LoadInv, shared \in Contents, NEW place, Laid(text, place, made = "cut"),
           ReadUpTo(place), ReadSize, ~Refuse
    PROVE  ReadUpTo(place)'
<1>1. /\ LineAt(DueNumber).kind = "number" /\ at = "size" /\ at' = "peer_count"
      /\ UNCHANGED history /\ t' = [t EXCEPT !.size = LineAt(DueNumber).value]
      /\ pos' = Past("blank", DueNumber + 1)
  BY DEF ReadSize, ReadsNumber
<1>2. t \in Torrent /\ Lists
  BY <1>1, Loading DEF ReadUpTo
<1>3. 1 = Got /\ Got' = 2
  BY <1>1 DEF Got
<1>4. 2 \in 1 .. Items /\ 1 < Items
  BY ItemTypes
<1>5. DueNumber = Due
  BY <1>1, <1>3, <1>4, NextDue
<1>6. Lists'
  BY <1>1, <1>2 DEF Lists, Torrent
<1>7. Field(2)' = LineAt(Due).value /\ \A j \in 1 .. 1 : Field(j)' = Field(j)
  BY <1>1, <1>2, <1>5 DEF Field, Torrent
<1> QED
  BY <1>1, <1>3, <1>4, <1>5, <1>6, <1>7, OneItem

\* The count of peers; the count of blocks is that of the file.
LEMMA PeerCountItem ==
    ASSUME LoadInv, shared \in Contents, NEW place, Laid(text, place, made = "cut"),
           ReadUpTo(place), ReadPeerCount, ~Refuse
    PROVE  ReadUpTo(place)'
<1> DEFINE count == BlockCountOf(t.size)
<1>1. /\ LineAt(DueNumber).kind = "number" /\ at = "peer_count"
      /\ at' = (IF count = 0 THEN "peers" ELSE "hashes")
      /\ UNCHANGED history
      /\ t' = [t EXCEPT !.peer_count = LineAt(DueNumber).value, !.block_count = count]
      /\ pos' = Past("blank", DueNumber + 1)
  BY DEF ReadPeerCount, ReadsNumber
<1>2. t \in Torrent /\ Lists /\ Len(text) \in Nat /\ pos \in 1 .. Len(text) + 1
  BY <1>1, Loading DEF ReadUpTo
<1>3. 2 = Got
  BY <1>1 DEF Got
<1>4. 3 \in 1 .. Items /\ 2 < Items /\ Count \in Nat /\ PeerCount \in Nat \ {0}
  BY ItemTypes
<1>5. Standing(place, 3) /\ DueNumber = Due
  BY <1>1, <1>3, <1>4, NextDue
<1>6. Due \in pos .. Len(text)
  BY <1>1, <1>4, <1>5, ItemTaken
<1>7. count = Count
  <2>1. pos <= Len(text)
    BY <1>2, <1>6
  <2>2. Field(2) = Item(2).value
    BY <1>1, <1>3, <2>1, FieldsRight
  <2>3. t.size = Len(shared)
    BY <2>2, ItemTypes DEF Field, NumberLine
  <2> QED
    BY <2>3 DEF Count
<1> HIDE DEF count
<1>8. t.hashes = << >> /\ t.peers = << >>
  BY <1>1, <1>2 DEF Lists
<1>9. t'.hashes = << >> /\ t'.peers = << >> /\ at' \in {"peers", "hashes"}
  BY <1>1, <1>2, <1>8 DEF Torrent
<1>10. Got' = 3
  BY <1>9 DEF Got
<1>11. Lists'
  <2>1. Count' = Count
    BY <1>1, SameItems
  <2>2. CASE count = 0
    BY <1>1, <1>4, <1>7, <1>9, <2>1, <2>2 DEF Lists
  <2>3. CASE count # 0
    BY <1>1, <1>4, <1>7, <1>9, <2>1, <2>3 DEF Lists
  <2> QED
    BY <2>2, <2>3
<1>12. Field(3)' = LineAt(Due).value /\ \A j \in 1 .. 2 : Field(j)' = Field(j)
  BY <1>1, <1>2, <1>5 DEF Field, Torrent
<1> QED
  BY <1>1, <1>3, <1>4, <1>5, <1>10, <1>11, <1>12, OneItem

\* The hash of a block.
LEMMA HashItem ==
    ASSUME LoadInv, shared \in Contents, NEW place, Laid(text, place, made = "cut"),
           ReadUpTo(place), ReadHash, ~Refuse
    PROVE  ReadUpTo(place)'
<1> DEFINE v == LineAt(Due).value
<1>1. /\ LineAt(Due).kind = "hash" /\ at = "hashes" /\ UNCHANGED history
      /\ t' = [t EXCEPT !.hashes = Append(@, v)] /\ pos' = Past("blank", Due + 1)
      /\ at' = IF Len(t'.hashes) = t.block_count THEN "peers" ELSE "hashes"
  BY DEF ReadHash, ReadsHash
<1>2. t \in Torrent /\ Lists
  BY <1>1, Loading DEF ReadUpTo
<1>3. /\ t.hashes \in Seq(Digest) /\ Len(t.hashes) \in Nat /\ Len(t.hashes) < Count
      /\ t.peers = << >>
  BY <1>1, <1>2 DEF Lists, Torrent
<1>4. t'.hashes = Append(t.hashes, v) /\ t'.peers = << >> /\ t'.size = t.size
      /\ t'.hash = t.hash /\ t'.peer_count = t.peer_count
  BY <1>1, <1>2, <1>3 DEF Torrent
<1> HIDE DEF v
<1>5. /\ Len(t'.hashes) = Len(t.hashes) + 1 /\ t'.hashes[Len(t.hashes) + 1] = v
      /\ \A j \in 1 .. Len(t.hashes) : t'.hashes[j] = t.hashes[j]
  BY <1>3, <1>4
<1>6. t.block_count = Count
  <2>1. t.size = Len(shared) /\ t.block_count = BlockCountOf(t.size)
    <3>1. shared # Absent
      BY FileThere
    <3> QED
      BY <1>1, <3>1 DEF LoadInv, SizeRead, Counted
  <2> QED
    BY <2>1 DEF Count
<1>7. PICK n \in Nat : n = 3 + Len(t.hashes)
  BY <1>3
<1>8. n = Got /\ Got' = n + 1 /\ n \in Nat
  <2>1. at' \in {"peers", "hashes"} /\ Len(t.peers) = 0 /\ Len(t'.peers) = 0
    BY <1>1, <1>3, <1>4
  <2>2. Got = 3 + Len(t.hashes) + Len(t.peers) /\ Got' = 3 + Len(t'.hashes) + Len(t'.peers)
    BY <1>1, <2>1 DEF Got
  <2> QED
    BY <1>3, <1>5, <1>7, <2>1, <2>2
<1>9. n + 1 \in 1 .. Items /\ n >= 3 /\ n + 1 <= 3 + Count
  BY <1>3, <1>7, ItemTypes
<1>10. Count' = Count
  BY <1>1, SameItems
<1>11. Lists'
  BY <1>1, <1>3, <1>4, <1>5, <1>6, <1>10, ItemTypes DEF Lists
<1>12. Field(n + 1)' = v
  <2>1. n + 1 # 1 /\ n + 1 # 2 /\ n + 1 # 3 /\ n + 1 <= 3 + Count /\ n + 1 - 3 = Len(t.hashes) + 1
    BY <1>3, <1>9, <1>7
  <2>2. Field(n + 1)' = t'.hashes[n + 1 - 3]
    BY <1>10, <2>1 DEF Field
  <2> QED
    BY <1>5, <2>1, <2>2
<1>13. ASSUME NEW j \in 1 .. n PROVE Field(j)' = Field(j)
  <2>1. CASE j \in {1, 2, 3}
    BY <1>4, <2>1 DEF Field
  <2>2. CASE j \notin {1, 2, 3}
    <3>1. j - 3 \in 1 .. Len(t.hashes) /\ j <= 3 + Count /\ j # 1 /\ j # 2 /\ j # 3
      <4>1. Len(t.hashes) \in Nat /\ Count \in Nat
        BY <1>3, ItemTypes
      <4>2. j \in 1 .. n /\ n = 3 + Len(t.hashes) /\ n + 1 <= 3 + Count
        BY <1>9, <1>7
      <4> HIDE DEF Count
      <4> QED
        BY <2>2, <4>1, <4>2
    <3>2. Field(j)' = t'.hashes[j - 3] /\ Field(j) = t.hashes[j - 3]
      BY <1>10, <3>1 DEF Field
    <3> QED
      BY <1>5, <3>1, <3>2
  <2> QED
    BY <2>1, <2>2
<1> QED
  BY <1>1, <1>8, <1>9, <1>11, <1>12, <1>13, OneItem DEF v


\* A peer.
LEMMA PeerItem ==
    ASSUME LoadInv, shared \in Contents, NEW place, Laid(text, place, made = "cut"),
           ReadUpTo(place), ReadPeer, ~Refuse
    PROVE  ReadUpTo(place)'
<1> DEFINE v == LineAt(Due).value
<1>1. /\ LineAt(Due).kind = "peer" /\ at = "peers" /\ UNCHANGED history
      /\ t' = [t EXCEPT !.peers = Append(@, v)] /\ pos' = Due + 1
      /\ at' = IF Len(t'.peers) = t.peer_count THEN "open" ELSE "peers"
  BY DEF ReadPeer
<1>2. t \in Torrent /\ Lists /\ Len(text) \in Nat /\ pos \in 1 .. Len(text) + 1
  BY <1>1, Loading DEF ReadUpTo
<1>3. /\ t.peers \in Seq(Nat) /\ Len(t.peers) \in Nat /\ Len(t.peers) < PeerCount
      /\ Len(t.hashes) = Count
  BY <1>1, <1>2 DEF Lists, Torrent
<1>4. t'.peers = Append(t.peers, v) /\ t'.hashes = t.hashes /\ t'.size = t.size
      /\ t'.hash = t.hash /\ t'.peer_count = t.peer_count
  BY <1>1, <1>2 DEF Torrent
<1> HIDE DEF v
<1>5. /\ Len(t'.peers) = Len(t.peers) + 1 /\ t'.peers[Len(t.peers) + 1] = v
      /\ \A j \in 1 .. Len(t.peers) : t'.peers[j] = t.peers[j]
  BY <1>3, <1>4
<1>6. Count' = Count /\ Count \in Nat /\ PeerCount \in Nat /\ Items = 3 + Count + PeerCount
  BY <1>1, SameItems, ItemTypes
<1>7. PICK c \in Nat, l \in Nat : c = Count /\ l = Len(t.peers)
  BY <1>3, <1>6
<1>8. PICK n \in Nat : n = 3 + c + l
  OBVIOUS
<1>9. l < PeerCount /\ n + 1 \in 1 .. Items /\ n < Items /\ n >= 3 + c
  <2>1. l < PeerCount /\ Items = 3 + c + PeerCount /\ PeerCount \in Nat
    BY <1>3, <1>6, <1>7
  <2> QED
    BY <1>8, <2>1
<1>10. n = Got /\ Got' = n + 1
  <2>1. at' \in {"peers", "open"}
    BY <1>1
  <2>2. Got = 3 + Len(t.hashes) + Len(t.peers) /\ Got' = 3 + Len(t'.hashes) + Len(t'.peers)
    BY <1>1, <2>1 DEF Got
  <2>3. Len(t.hashes) = c /\ Len(t'.hashes) = c /\ Len(t.peers) = l /\ Len(t'.peers) = l + 1
    BY <1>3, <1>4, <1>5, <1>7
  <2>4. Got = 3 + c + l /\ Got' = 3 + c + (l + 1)
    BY <2>2, <2>3
  <2> QED
    BY <1>8, <2>4
<1>11. t.peer_count = PeerCount
  <2>1. Standing(place, n + 1)
    BY <1>1, <1>9, <1>10, NextDue
  <2>2. Due \in pos .. Len(text)
    BY <1>1, <1>9, <2>1, ItemTaken
  <2>3. pos <= Len(text)
    BY <1>2, <2>2
  <2>4. 3 \in 1 .. n
    BY <1>8
  <2>5. Field(3) = Item(3).value
    BY <1>1, <1>10, <2>3, <2>4, FieldsRight
  <2> QED
    BY <2>5, ItemTypes DEF Field, NumberLine
<1>12. Lists'
  <2>1. Len(t'.peers) = l + 1 /\ Len(t'.hashes) = Count'
    BY <1>3, <1>4, <1>5, <1>6, <1>7
  <2>2. CASE l + 1 = PeerCount
    <3>1. at' = "open"
      BY <1>1, <1>11, <2>1, <2>2
    <3> QED
      BY <2>1, <2>2, <3>1 DEF Lists
  <2>3. CASE l + 1 # PeerCount
    <3>1. l + 1 < PeerCount
      BY <1>6, <1>9, <2>3
    <3>2. at' = "peers"
      BY <1>1, <1>11, <2>1, <2>3
    <3> QED
      BY <2>1, <3>1, <3>2 DEF Lists
  <2> QED
    BY <2>2, <2>3
<1>13. Field(n + 1)' = v
  <2>1. /\ n + 1 # 1 /\ n + 1 # 2 /\ n + 1 # 3 /\ ~(n + 1 <= 3 + c)
        /\ n + 1 - 3 - c = l + 1
    BY <1>8
  <2>2. Field(n + 1)' = t'.peers[n + 1 - 3 - c]
    BY <1>6, <1>7, <2>1 DEF Field
  <2> QED
    BY <1>5, <1>7, <2>1, <2>2
<1>14. ASSUME NEW j \in 1 .. n PROVE Field(j)' = Field(j)
  <2>1. CASE j \in {1, 2, 3} \/ j <= 3 + c
    BY <1>4, <1>6, <1>7, <2>1 DEF Field
  <2>2. CASE j \notin {1, 2, 3} /\ ~(j <= 3 + c)
    <3>1. j - 3 - c \in 1 .. l
      BY <1>8, <2>2
    <3>2. Field(j)' = t'.peers[j - 3 - c] /\ Field(j) = t.peers[j - 3 - c]
      BY <1>6, <1>7, <2>2 DEF Field
    <3> QED
      BY <1>5, <1>7, <3>1, <3>2
  <2> QED
    BY <2>1, <2>2
<1> QED
  BY <1>1, <1>9, <1>10, <1>12, <1>13, <1>14, OneItem DEF v

\* Every step keeps what is read.
LEMMA ItemsNext == ASSUME LoadInv, ItemsInv, [Next]_vars PROVE ItemsInv'
<1>1. CASE Refuse
  BY <1>1, ItemsStay DEF Refuse
<1>2. CASE CallFails
  BY <1>2, ItemsStay DEF CallFails
<1>3. CASE TakeName
  BY <1>3, ItemsStay DEF TakeName
<1>4. CASE OpenFile
  <2>1. UNCHANGED <<pos, t, history>> /\ at = "open" /\ at' \in {"refused", "loaded", "verify"}
    BY <1>4 DEF OpenFile
  <2> QED
    BY <2>1, ItemsStay
<1>5. CASE VerifyBlock
  <2>1. /\ UNCHANGED <<pos, t, history>> /\ at = "verify"
        /\ at' \in {"aborted", "crashed", "loaded", "verify"}
    BY <1>5 DEF VerifyBlock
  <2> QED
    BY <2>1, ItemsStay
<1>6. CASE UNCHANGED vars
  <2>1. UNCHANGED <<pos, t, history>> /\ at' = at
    BY <1>6 DEF vars, history
  <2> QED
    BY <2>1, ItemsStay
<1>7. CASE /\ ReadFileHash \/ ReadSize \/ ReadPeerCount \/ ReadHash \/ ReadPeer
           /\ ~Refuse
  <2>1. UNCHANGED history
    BY <1>7 DEF ReadFileHash, ReadSize, ReadPeerCount, ReadHash, ReadPeer, Refuse
  <2> SUFFICES ASSUME shared' # Absent
               PROVE  \E place : (Laid(text, place, made = "cut") /\ ReadUpTo(place))'
    BY <2>1 DEF ItemsInv, history
  <2>2. shared # Absent
    BY <2>1 DEF history
  <2>3. shared \in Contents
    BY <2>2 DEF LoadInv, TextOK
  <2>4. PICK place : Laid(text, place, made = "cut") /\ ReadUpTo(place)
    BY <2>2 DEF ItemsInv
  <2>5. Laid(text, place, made = "cut")'
    BY <2>1, <2>4, SameItems
  <2>6. ReadUpTo(place)'
    BY <1>7, <2>3, <2>4, FileHashItem, SizeItem, PeerCountItem, HashItem, PeerItem
  <2> QED
    BY <2>5, <2>6
<1> QED
  BY <1>1, <1>2, <1>3, <1>4, <1>5, <1>6, <1>7 DEF Next

\* CutIsNoticed for every file, limit and text that ends too early: what is loaded from it
\* is the whole text, or all of it but the end of the last peer.
THEOREM CutNoticed == Spec => []CutIsNoticed
<1>1. LoadInv /\ ItemsInv => CutIsNoticed
  <2> SUFFICES ASSUME LoadInv, ItemsInv, made = "cut", at = "loaded"
               PROVE  /\ t.size = Len(shared)
                      /\ t.hashes = [j \in 1 .. Count |-> Chunk(shared, j)]
                      /\ Len(t.peers) = PeerCount
                      /\ \A p \in 1 .. PeerCount - 1 : t.peers[p] = p
    BY DEF CutIsNoticed, Count
  <2>1. shared # Absent /\ shared \in Contents /\ t \in Torrent
    <3>1. shared # Absent
      BY DEF ItemsInv
    <3> QED
      BY <3>1, Loading DEF LoadInv, TextOK
  <2>2. PICK place : ReadUpTo(place)
    BY <2>1 DEF ItemsInv
  <2>3. /\ Count \in Nat /\ PeerCount \in Nat \ {0}
        /\ Item(2) = NumberLine(Len(shared))
        /\ \A i \in 4 .. 3 + Count : Item(i) = HashLine(Chunk(shared, i - 3))
        /\ \A i \in 4 + Count .. Items : Item(i) = PeerLine(i - 3 - Count)
        /\ Items = 3 + Count + PeerCount
    BY <2>1, ItemTypes
  <2>4. Len(t.hashes) = Count /\ Len(t.peers) = PeerCount
    BY <2>2 DEF ReadUpTo, Lists
  <2>5. Got = 3 + Count + PeerCount
    BY <2>4 DEF Got
  <2>6. \A i \in 1 .. 2 + Count + PeerCount : Field(i) = Item(i).value
    <3> TAKE i \in 1 .. 2 + Count + PeerCount
    <3>1. i \in 1 .. Got /\ i # Got
      BY <2>3, <2>5
    <3> QED
      BY <2>2, <3>1 DEF ReadUpTo
  <2>7. t.size = Len(shared)
    <3>1. Field(2) = Item(2).value
      BY <2>3, <2>6
    <3> QED
      BY <2>3, <3>1 DEF Field, NumberLine
  <2>8. ASSUME NEW j \in 1 .. Count PROVE t.hashes[j] = Chunk(shared, j)
    <3> DEFINE i == j + 3
    <3>1. /\ i \in 1 .. 2 + Count + PeerCount /\ i \in 4 .. 3 + Count /\ i - 3 = j
      BY <2>3
    <3>2. Field(i) = t.hashes[j]
      BY <2>3, <3>1 DEF Field
    <3>3. Field(i) = Item(i).value /\ Item(i) = HashLine(Chunk(shared, j))
      BY <2>3, <2>6, <3>1
    <3> QED
      BY <3>2, <3>3 DEF HashLine
  <2>9. t.hashes = [j \in 1 .. Count |-> Chunk(shared, j)]
    <3>1. t.hashes \in Seq(Digest)
      BY <2>1 DEF Torrent
    <3>2. t.hashes = [j \in 1 .. Len(t.hashes) |-> t.hashes[j]]
      BY <3>1
    <3> QED
      BY <2>4, <2>8, <3>2
  <2>10. ASSUME NEW p \in 1 .. PeerCount - 1 PROVE t.peers[p] = p
    <3> DEFINE i == p + 3 + Count
    <3>1. /\ i \in 1 .. 2 + Count + PeerCount /\ i \in 4 + Count .. Items
          /\ i - 3 - Count = p /\ ~(i <= 3 + Count) /\ i \notin {1, 2, 3}
      BY <2>3
    <3>2. Field(i) = t.peers[p]
      BY <3>1 DEF Field
    <3>3. Field(i) = Item(i).value /\ Item(i) = PeerLine(p)
      BY <2>3, <2>6, <3>1
    <3> QED
      BY <3>2, <3>3 DEF PeerLine
  <2> QED
    BY <2>4, <2>7, <2>9, <2>10
<1> QED
  BY <1>1, LoadInit, LoadNext, ItemsInit, ItemsNext, PTL DEF Spec

----------------------------------------------------------------------------
(* Loading what the program has made.                                       *)

\* No block is verified yet.
LEMMA MapInit == Init => MapInv
<1> SUFFICES ASSUME Init PROVE MapInv
  OBVIOUS
<1>1. disk \in Seq({0, 1}) \cup {Absent}
  BY MetainfoAssumption DEF Init
<1> QED
  BY <1>1 DEF Init, MapInv, HasFile, Reading

\* A block that is verified is marked when its bytes have the hash of the text.
LEMMA MapNext == ASSUME LoadInv, MapInv, [Next]_vars PROVE MapInv'
<1>1. CASE UNCHANGED vars
  BY <1>1 DEF vars, MapInv, HasFile, Reading, BlockBytes, BlockSize, Offset
<1>2. CASE Refuse
  BY <1>2 DEF Refuse, MapInv, HasFile, Reading
<1>3. CASE CallFails
  BY <1>3 DEF CallFails, MapInv, HasFile, Reading
<1>4. CASE TakeName
  <2>1. disk' \in Seq({0, 1}) \cup {Absent}
    BY <1>4, MetainfoAssumption DEF TakeName, MapInv
  <2>2. at' \in {"hash", "refused"} /\ map' = map /\ at = "name"
    BY <1>4 DEF TakeName
  <2> QED
    BY <2>1, <2>2 DEF MapInv, HasFile, Reading
<1>5. CASE ReadPeerCount /\ ~Refuse
  <2>1. at' \in {"peers", "hashes"} /\ map' \in {<< >>, Null} /\ disk' = disk
    BY <1>5 DEF ReadPeerCount
  <2> QED
    BY <2>1 DEF MapInv, HasFile, Reading
<1>6. CASE (ReadFileHash \/ ReadSize \/ ReadHash \/ ReadPeer) /\ ~Refuse
  <2>1. /\ at \in {"hash", "size", "hashes", "peers"}
        /\ at' \in {"size", "peer_count", "hashes", "peers", "open"}
        /\ map' = map /\ disk' = disk
    BY <1>6 DEF ReadFileHash, ReadSize, ReadHash, ReadPeer
  <2> QED
    BY <2>1 DEF MapInv, HasFile, Reading
<1>7. CASE OpenFile
  <2>1. at = "open" /\ map \in {<< >>, Null} /\ block = 0 /\ map' = map /\ block' = block
    BY <1>7, Loading DEF OpenFile, MapInv, Reading
  <2>2. Opened \in Seq({0, 1}) /\ t \in Torrent /\ t' = t
    BY <1>7, Loading DEF MapInv, Opened, OpenFile
  <2>3. CASE at' = "refused"
    BY <1>7, <2>2, <2>3 DEF OpenFile, MapInv, HasFile, Reading
  <2>4. CASE at' # "refused"
    <3>1. /\ disk' = Resized(Opened, t.size)
          /\ at' = IF t.block_count = 0 THEN "loaded" ELSE "verify"
      BY <1>7, <2>4 DEF OpenFile
    <3>2. t.size \in Nat
      BY <2>2 DEF Torrent
    <3>3. disk' \in Seq({0, 1})
      <4> DEFINE old == Opened
                 size == t.size
      <4>1. old \in Seq({0, 1}) /\ size \in Nat
        BY <2>2, <3>2
      <4> HIDE DEF old, size
      <4>2. \A p \in 1 .. size : (IF p <= Len(old) THEN old[p] ELSE 0) \in {0, 1}
        BY <4>1
      <4>3. [p \in 1 .. size |-> IF p <= Len(old) THEN old[p] ELSE 0] \in Seq({0, 1})
        BY <4>1, <4>2
      <4> QED
        BY <3>1, <4>3 DEF Resized, old, size
    <3>4. at' = "loaded" => block' = t'.block_count
      BY <2>1, <2>2, <3>1
    <3>5. \/ map' = Null /\ block' = 0
          \/ /\ map' \in Seq({0, 1}) /\ Len(map') = block'
             /\ (\A j \in 1 .. block : map[j] = 1 <=> BlockBytes(j - 1) = t.hashes[j])'
      <4>1. CASE map' = Null
        BY <2>1, <4>1
      <4>2. CASE map' = << >>
        <5>1. map' \in Seq({0, 1}) /\ Len(map') = 0 /\ block' = 0
          BY <2>1, <4>2
        <5>2. 1 .. block' = {}
          BY <5>1
        <5> QED
          BY <5>1, <5>2
      <4> QED
        BY <2>1, <4>1, <4>2
    <3>6. ~Reading'
      BY <3>1 DEF Reading
    <3> QED
      BY <3>3, <3>4, <3>5, <3>6 DEF MapInv
  <2> QED
    BY <2>3, <2>4
<1>8. CASE VerifyBlock
  <2>1. /\ at = "verify" /\ disk' = disk /\ t' = t /\ disk \in Seq({0, 1})
        /\ block \in 0 .. t.block_count - 1 /\ t.block_count \in Nat
    BY <1>8 DEF VerifyBlock, MapInv, HasFile, LoadInv, Torrent
  <2>2. CASE at' \in {"aborted", "crashed"}
    BY <2>1, <2>2 DEF MapInv, HasFile, Reading
  <2>3. CASE at' \notin {"aborted", "crashed"}
    <3> DEFINE bit == IF BlockBytes(block) = t.hashes[block + 1] THEN 1 ELSE 0
    <3>1. /\ map # Null /\ map' = Append(map, bit) /\ block' = block + 1
          /\ at' = IF block' = t.block_count THEN "loaded" ELSE "verify"
      BY <1>8, <2>3 DEF VerifyBlock
    <3>2. /\ map \in Seq({0, 1}) /\ Len(map) = block
          /\ \A j \in 1 .. block : map[j] = 1 <=> BlockBytes(j - 1) = t.hashes[j]
      BY <2>1, <3>1 DEF MapInv, HasFile
    <3>3. bit \in {0, 1} /\ block \in Nat
      BY <2>1
    <3>4. /\ map' \in Seq({0, 1}) /\ Len(map') = block + 1 /\ map'[block + 1] = bit
          /\ \A j \in 1 .. block : map'[j] = map[j]
      <4> HIDE DEF bit
      <4> QED
        BY <3>1, <3>2, <3>3, AppendProperties
    <3>5. \A b : BlockBytes(b)' = BlockBytes(b)
      BY <2>1 DEF BlockBytes, BlockSize, Offset
    <3>6. ASSUME NEW j \in 1 .. block + 1
          PROVE  map'[j] = 1 <=> BlockBytes(j - 1) = t.hashes[j]
      <4>1. CASE j = block + 1
        <5>1. j - 1 = block
          BY <3>3, <4>1
        <5>2. map'[j] = bit
          BY <3>4, <4>1
        <5> QED
          BY <4>1, <5>1, <5>2
      <4>2. CASE j # block + 1
        <5>1. j \in 1 .. block
          BY <3>3, <4>2
        <5> QED
          BY <3>2, <3>4, <5>1
      <4> QED
        BY <4>1, <4>2
    <3>7. (\A j \in 1 .. block : map[j] = 1 <=> BlockBytes(j - 1) = t.hashes[j])'
      BY <2>1, <3>1, <3>5, <3>6
    <3>8. ~Reading' /\ (at = "loaded" => block = t.block_count)'
      BY <2>1, <3>1 DEF Reading
    <3> QED
      BY <2>1, <3>1, <3>4, <3>7, <3>8 DEF MapInv
  <2> QED
    BY <2>2, <2>3
<1> QED
  BY <1>1, <1>2, <1>3, <1>4, <1>5, <1>6, <1>7, <1>8 DEF Next

\* In a whole text the item that is due is there.
LEMMA ItemThere ==
    ASSUME LoadInv, shared \in Contents, made # "cut", NEW place,
           Laid(text, place, made = "cut"), ReadUpTo(place), NEW n \in Nat, n = Got, n < Items,
           at \in {"hash", "size", "peer_count", "hashes", "peers"}
    PROVE  LineAt(Due) = Item(n + 1) /\ DueNumber = Due
<1>1. n + 1 \in 1 .. Items /\ Standing(place, n + 1) /\ DueNumber = Due
  BY NextDue
<1>2. /\ place \in [1 .. Items -> Nat \ {0}] /\ Items \in Nat /\ Len(text) \in Nat
      /\ \A j, k \in 1 .. Items : j < k => place[j] < place[k]
      /\ place[Items] <= Len(text)
  BY ItemTypes, Loading DEF Laid
<1>3. place[n + 1] <= Len(text)
  <2>1. n + 1 = Items \/ n + 1 < Items
    BY <1>1, <1>2
  <2>2. Items \in 1 .. Items
    BY <1>1, <1>2
  <2>3. place[n + 1] \in Nat /\ place[Items] \in Nat /\ place[n + 1] <= place[Items]
    BY <1>1, <1>2, <2>1, <2>2
  <2> QED
    BY <1>2, <2>3
<1>4. Due = place[n + 1] /\ LineAt(Due) = text[Due]
  BY <1>1, <1>3, ItemDue
<1> QED
  BY <1>1, <1>3, <1>4 DEF Laid

\* The count of blocks of a file off_t can say fits.
LEMMA CountFits ==
    ASSUME NEW n \in Nat, n <= MaxOff
    PROVE  BlockCountOf(n) <= MaxUint \div MaxBlockSize
<1> DEFINE d == MaxBlockSize
           W == 2 ^ Width
           x == n + d - 1
           y == W - 1
<1>1. /\ d \in Nat /\ d > 0 /\ W \in Nat /\ W > 0 /\ x \in Nat /\ y \in Nat /\ x <= y /\ x < W
  BY MetainfoAssumption, PowersOfTwo DEF MaxOff
<1>2. BlockCountOf(n) = (x % W) \div d /\ MaxUint = y
  BY DEF BlockCountOf, MaxUint
<1> HIDE DEF d, W, x, y
<1>3. x % W = x
  BY <1>1
<1>4. PICK a \in Nat, q \in Nat : x \div d = a /\ x = a * d + q
  BY <1>1, Division
<1>5. PICK b \in Nat, r \in Nat : y \div d = b /\ r < d /\ y = b * d + r
  BY <1>1, Division
<1>6. a <= b
  <2>1. ASSUME b < a PROVE FALSE
    <3> DEFINE ad == a * d
               bd == b * d
    <3>1. bd + d <= ad /\ bd \in Nat /\ ad \in Nat
      BY <1>1, <2>1, Stretches
    <3>2. x = ad + q /\ y = bd + r
      BY <1>4, <1>5
    <3> HIDE DEF ad, bd
    <3> QED
      BY <1>1, <1>5, <3>1, <3>2
  <2> QED
    BY <2>1
<1> QED
  BY <1>2, <1>3, <1>4, <1>5, <1>6 DEF d

\* What the program has made is not refused.
LEMMA AcceptedNext ==
    ASSUME LoadInv, ItemsInv, Accepted, [Next]_vars, \A s \in Contents : Len(s) <= MaxOff
    PROVE  Accepted'
<1> SUFFICES ASSUME shared' # Absent, made' # "cut", name'.extension = "end",
                    name'.stem < NameSize
             PROVE  at' # "refused"
  BY DEF Accepted
<1>1. UNCHANGED history
  BY DEF Next, vars, history, CallFails, TakeName, ReadFileHash, ReadSize, ReadPeerCount,
         ReadHash, ReadPeer, OpenFile, VerifyBlock, Refuse
<1>2. /\ shared # Absent /\ made # "cut" /\ name.extension = "end" /\ name.stem < NameSize
      /\ at # "refused"
  BY <1>1 DEF history, Accepted
<1>3. shared \in Contents
  BY <1>2 DEF LoadInv, TextOK
<1>4. PICK place : Laid(text, place, made = "cut") /\ ReadUpTo(place)
  BY <1>2 DEF ItemsInv
<1>5. /\ Count \in Nat /\ PeerCount \in Nat \ {0} /\ Items = 3 + Count + PeerCount
      /\ Item(3) = NumberLine(PeerCount)
  BY <1>3, ItemTypes
<1>6. CASE UNCHANGED vars \/ CallFails
  BY <1>2, <1>6 DEF vars, CallFails
<1>7. CASE TakeName
  <2>1. NameFits
    <3>1. name.stem \in Nat
      BY MetainfoAssumption DEF LoadInv, TextOK, Names
    <3> QED
      BY <1>2, <3>1, MetainfoAssumption DEF NameFits
  <2> QED
    BY <1>2, <1>7, <2>1 DEF TakeName
<1>8. CASE ReadFileHash
  <2>1. 0 = Got /\ at = "hash" /\ 0 < Items
    BY <1>5, <1>8 DEF ReadFileHash, Got
  <2>2. LineAt(Due) = Item(0 + 1)
    BY <1>2, <1>3, <1>4, <2>1, ItemThere
  <2>3. Item(0 + 1).kind = "hash"
    BY <1>3, <1>5, ItemKinds
  <2> QED
    BY <1>8, <2>2, <2>3 DEF ReadFileHash, ReadsHash
<1>9. CASE ReadSize
  <2>1. 1 = Got /\ at = "size" /\ 1 < Items
    BY <1>5, <1>9 DEF ReadSize, Got
  <2>2. LineAt(Due) = Item(1 + 1) /\ DueNumber = Due
    BY <1>2, <1>3, <1>4, <2>1, ItemThere
  <2>3. Item(1 + 1).kind = "number"
    BY <1>3, <1>5, ItemKinds
  <2> QED
    BY <1>9, <2>2, <2>3 DEF ReadSize, ReadsNumber
<1>10. CASE ReadPeerCount
  <2>1. 2 = Got /\ at = "peer_count" /\ 2 < Items
    BY <1>5, <1>10 DEF ReadPeerCount, Got
  <2>2. LineAt(Due) = Item(2 + 1) /\ DueNumber = Due
    BY <1>2, <1>3, <1>4, <2>1, ItemThere
  <2>3. LineAt(DueNumber) = NumberLine(PeerCount)
    BY <1>5, <2>2
  <2>4. ReadsNumber /\ LineAt(DueNumber).value \in 1 .. MaxPeers
    BY <2>3, MetainfoAssumption DEF ReadsNumber, NumberLine
  <2>5. t.size = Len(shared)
    <3>1. Len(text) \in Nat /\ pos \in 1 .. Len(text) + 1
      BY Loading
    <3>2. LineAt(Due) # EndOfFile
      BY <2>2, <2>3 DEF NumberLine, EndOfFile
    <3>3. pos # Len(text) + 1
      <4>1. ASSUME pos = Len(text) + 1 PROVE FALSE
        <5>1. Due = Len(text) + 1
          BY <3>1, <4>1, DueOK
        <5> QED
          BY <3>1, <3>2, <5>1 DEF LineAt
      <4> QED
        BY <4>1
    <3> QED
      BY <1>2, <2>1, <3>3 DEF LoadInv, SizeRead
  <2>6. BlockCountOf(t.size) <= MaxUint \div MaxBlockSize
    <3>1. Len(shared) \in Nat /\ Len(shared) <= MaxOff
      BY <1>3, ItemTypes
    <3> QED
      BY <2>5, <3>1, CountFits
  <2> QED
    BY <1>10, <2>4, <2>6 DEF ReadPeerCount
<1>11. CASE ReadHash \/ ReadPeer
  <2>1. PICK h \in Nat, p \in Nat : h = Len(t.hashes) /\ p = Len(t.peers)
    BY Loading DEF Torrent
  <2>2. PICK n \in Nat : n = 3 + h + p
    OBVIOUS
  <2>3. n = Got
    BY <1>11, <2>1, <2>2 DEF ReadHash, ReadPeer, Got
  <2>4. Lists
    BY <1>4, <1>11 DEF ReadUpTo, ReadHash, ReadPeer
  <2>5. CASE ReadHash
    <3>1. h < Count /\ p = 0
      BY <2>1, <2>4, <2>5 DEF Lists, ReadHash
    <3>2. n + 1 \in 4 .. 3 + Count /\ n < Items /\ n + 1 \in 1 .. Items
      BY <1>5, <2>2, <3>1
    <3>3. LineAt(Due) = Item(n + 1)
      BY <1>2, <1>3, <1>4, <2>3, <2>5, <3>2, ItemThere DEF ReadHash
    <3>4. Item(n + 1).kind = "hash"
      BY <1>3, <3>2, ItemKinds
    <3> QED
      BY <2>5, <3>3, <3>4 DEF ReadHash, ReadsHash
  <2>6. CASE ReadPeer
    <3>1. h = Count /\ p < PeerCount
      BY <2>1, <2>4, <2>6 DEF Lists, ReadPeer
    <3>2. n + 1 > 3 + Count /\ n < Items /\ n + 1 \in 1 .. Items
      BY <1>5, <2>2, <3>1
    <3>3. LineAt(Due) = Item(n + 1)
      BY <1>2, <1>3, <1>4, <2>3, <2>6, <3>2, ItemThere DEF ReadPeer
    <3>4. Item(n + 1).kind = "peer"
      BY <1>3, <3>2, ItemKinds
    <3> QED
      BY <2>6, <3>3, <3>4 DEF ReadPeer
  <2> QED
    BY <1>11, <2>5, <2>6
<1>12. CASE OpenFile
  <2>1. t.size = Len(shared)
    BY <1>2, <1>12 DEF OpenFile, LoadInv, SizeRead
  <2>2. Len(shared) \in Nat /\ Len(shared) <= MaxOff /\ MaxOff \in Int
    BY <1>3, ItemTypes, PowersOfTwo DEF MaxOff
  <2>3. ~(t.size > MaxOff)
    BY <2>1, <2>2
  <2> QED
    BY <1>12, <2>3 DEF OpenFile
<1>13. CASE VerifyBlock
  BY <1>13 DEF VerifyBlock
<1> QED
  BY <1>6, <1>7, <1>8, <1>9, <1>10, <1>11, <1>12, <1>13 DEF Next

\* The blocks of two files of one size are the same when the files are.
LEMMA SameBlocks ==
    ASSUME LoadInv, at = "loaded", disk \in Seq({0, 1}), shared \in Contents,
           t.size = Len(shared)
    PROVE  (\A j \in 1 .. t.block_count : BlockBytes(j - 1) = Chunk(shared, j)) <=> disk = shared
<1> DEFINE d == MaxBlockSize
           n == t.size
           count == t.block_count
<1>1. /\ d \in Nat /\ d > 0 /\ n \in Nat /\ Len(disk) = n /\ Len(shared) = n
      /\ shared \in Seq({0, 1})
      /\ n = 0 => count = 0
  BY BlockBounds, MetainfoAssumption
<1>2. CASE n = 0
  <2>1. Len(disk) = 0 /\ Len(shared) = 0 /\ 1 .. count = {}
    BY <1>1, <1>2
  <2>2. disk = << >> /\ shared = << >>
    BY <1>1, <2>1, EmptySeq
  <2> QED
    BY <2>1, <2>2
<1>3. CASE n # 0
  <2>1. n > 0
    BY <1>1, <1>3
  <2>2. PICK last \in Nat, short \in 1 .. d - 1 :
            /\ n = last * d + short /\ count = last + 1
            /\ \A c \in 0 .. last : /\ Offset(c) = c * d /\ c * d \in Nat
                                    /\ BlockSize(c) = IF c = last THEN short ELSE d
    BY <2>1, BlockBounds
  <2> DEFINE to(j) == IF j = last + 1 THEN n ELSE j * d
             from(j) == (j - 1) * d + 1
  <2>3. \A b : BlockBytes(b) = SubSeq(disk, Offset(b) + 1, Offset(b) + BlockSize(b))
    BY DEF BlockBytes
  <2>4. \A j : Chunk(shared, j) = SubSeq(shared, from(j), Min({j * d, Len(shared)}))
    BY DEF Chunk
  <2> HIDE DEF n, d, count
  <2>5. /\ short \in Nat /\ short < d /\ 0 < short /\ last * d \in Nat
    BY <1>1, <2>2
  <2>6. ASSUME NEW j \in 1 .. count
        PROVE  /\ from(j) \in Nat \ {0} /\ to(j) \in Nat /\ to(j) <= n
               /\ BlockBytes(j - 1) = SubSeq(disk, from(j), to(j))
               /\ Chunk(shared, j) = SubSeq(shared, from(j), to(j))
    <3>1. j \in Nat /\ j - 1 \in 0 .. last /\ j - 1 \in Nat
      BY <2>2
    <3>2. /\ Offset(j - 1) = (j - 1) * d /\ (j - 1) * d \in Nat
          /\ BlockSize(j - 1) = IF j - 1 = last THEN short ELSE d
      BY <2>2, <3>1
    <3>3. j * d = (j - 1) * d + d
      BY <1>1, <3>1
    <3>4. CASE j = last + 1
      <4>1. j - 1 = last /\ to(j) = n
        BY <2>2, <3>4
      <4>2. (j - 1) * d + short = n
        BY <2>2, <4>1
      <4>3. j * d \in Nat /\ n <= j * d
        BY <1>1, <2>5, <3>2, <3>3, <4>2
      <4>4. Min({j * d, n}) = n
        BY <1>1, <4>3, MinOfTwo
      <4>5. BlockBytes(j - 1) = SubSeq(disk, from(j), n)
        <5>1. Offset(j - 1) + 1 = from(j) /\ Offset(j - 1) + BlockSize(j - 1) = n
          BY <3>2, <4>1, <4>2
        <5> QED
          BY <2>3, <5>1
      <4>6. Chunk(shared, j) = SubSeq(shared, from(j), n)
        BY <1>1, <2>4, <4>4
      <4>7. from(j) \in Nat \ {0} /\ to(j) \in Nat /\ to(j) <= n
        BY <1>1, <3>2, <4>1
      <4> QED
        BY <4>1, <4>5, <4>6, <4>7
    <3>5. CASE j # last + 1
      <4>1. j - 1 # last /\ to(j) = j * d /\ j <= last
        BY <2>2, <3>1, <3>5
      <4>2. j * d \in Nat /\ j * d <= last * d
        <5>1. j - 1 < last
          BY <2>2, <3>1, <4>1
        <5>2. (j - 1) * d + d <= last * d
          BY <1>1, <3>1, <5>1, Stretches
        <5> QED
          BY <1>1, <3>2, <3>3, <5>2
      <4>3. j * d <= n
        <5> DEFINE jd == j * d
                   ld == last * d
        <5>1. jd \in Nat /\ jd <= ld /\ ld \in Nat /\ n = ld + short
          BY <2>2, <2>5, <4>2
        <5> HIDE DEF jd, ld
        <5>2. jd <= n
          BY <2>5, <5>1
        <5> QED
          BY <5>2 DEF jd
      <4>4. Min({j * d, n}) = j * d
        BY <1>1, <4>2, <4>3, MinOfTwo
      <4>5. BlockBytes(j - 1) = SubSeq(disk, from(j), j * d)
        <5>1. Offset(j - 1) + 1 = from(j) /\ Offset(j - 1) + BlockSize(j - 1) = j * d
          BY <3>2, <3>3, <4>1
        <5> QED
          BY <2>3, <5>1
      <4>6. Chunk(shared, j) = SubSeq(shared, from(j), j * d)
        BY <1>1, <2>4, <4>4
      <4>7. from(j) \in Nat \ {0} /\ to(j) \in Nat /\ to(j) <= n
        BY <3>2, <4>1, <4>2, <4>3
      <4> QED
        BY <4>1, <4>5, <4>6, <4>7
    <3> QED
      BY <3>4, <3>5
  <2>7. ASSUME \A j \in 1 .. count : BlockBytes(j - 1) = Chunk(shared, j)
        PROVE  disk = shared
    <3>1. ASSUME NEW p \in 1 .. n PROVE disk[p] = shared[p]
      <4> DEFINE b == (p - 1) \div d
                 r == (p - 1) % d
      <4>1. p - 1 \in Nat /\ p \in Nat /\ p <= n
        BY <1>1
      <4>2. b \in Nat /\ r \in Nat /\ r < d /\ p - 1 = b * d + r
        BY <1>1, <4>1, Division
      <4> HIDE DEF b, r
      <4>3. b <= last
        <5>1. ASSUME last < b PROVE FALSE
          <6>1. last * d + d <= b * d /\ b * d \in Nat
            BY <1>1, <2>2, <4>2, <5>1, Stretches
          <6> DEFINE ld == last * d
                     bd == b * d
          <6>2. /\ ld + d <= bd /\ ld \in Nat /\ bd \in Nat /\ n = ld + short
                /\ p - 1 = bd + r
            BY <2>2, <2>5, <4>2, <6>1
          <6> HIDE DEF ld, bd
          <6> QED
            BY <1>1, <2>5, <4>1, <4>2, <6>2
        <5> QED
          BY <2>2, <4>2, <5>1
      <4> DEFINE j == b + 1
                 f == from(j)
                 e == to(j)
                 i == r + 1
      <4>4. j \in 1 .. count /\ j - 1 = b
        BY <2>2, <4>2, <4>3
      <4>5. f = b * d + 1 /\ b * d \in Nat
        BY <1>1, <4>2, <4>4
      <4>6. p <= e
        <5>1. CASE b = last
          BY <4>1, <5>1
        <5>2. CASE b # last
          <6>1. e = (b + 1) * d
            BY <2>2, <4>2, <5>2
          <6>2. (b + 1) * d = b * d + d
            BY <1>1, <4>2
          <6> QED
            BY <1>1, <4>1, <4>2, <4>5, <6>1, <6>2
        <5> QED
          BY <5>1, <5>2
      <4>7. /\ f \in Nat \ {0} /\ e \in Nat /\ e <= n
            /\ SubSeq(disk, f, e) = SubSeq(shared, f, e)
        <5> HIDE DEF j
        <5>1. BlockBytes(j - 1) = Chunk(shared, j)
          BY <2>7, <4>4
        <5>2. /\ f \in Nat \ {0} /\ e \in Nat /\ e <= n
              /\ BlockBytes(j - 1) = SubSeq(disk, f, e)
              /\ Chunk(shared, j) = SubSeq(shared, f, e)
          <6> HIDE DEF from, to
          <6> QED
            BY <2>6, <4>4
        <5> QED
          BY <5>1, <5>2
      <4>8. i \in 1 .. e - f + 1 /\ f + i - 1 = p
        <5> DEFINE bd == b * d
        <5>1. /\ f = bd + 1 /\ bd \in Nat /\ p - 1 = bd + r /\ r \in Nat
              /\ e \in Nat /\ p \in Nat /\ p <= e
          BY <4>1, <4>2, <4>5, <4>6, <4>7
        <5> HIDE DEF bd, f, e
        <5> QED
          BY <5>1
      <4> HIDE DEF f, e, i
      <4>9. /\ SubSeq(disk, f, e)[i] = disk[f + i - 1]
            /\ SubSeq(shared, f, e)[i] = shared[f + i - 1]
        <5>1. f \in Nat \ {0} /\ e \in Nat /\ e <= Len(disk) /\ i \in 1 .. e - f + 1
          BY <1>1, <4>7, <4>8
        <5>2. e <= Len(shared)
          BY <1>1, <4>7
        <5> QED
          BY <1>1, <5>1, <5>2, PartOf
      <4> QED
        BY <4>7, <4>8, <4>9
    <3> QED
      BY <1>1, <3>1, SeqEqual
  <2>8. ASSUME disk = shared, NEW j \in 1 .. count
        PROVE  BlockBytes(j - 1) = Chunk(shared, j)
    BY <2>6, <2>8
  <2> QED
    BY <2>7, <2>8 DEF count
<1> QED
  BY <1>2, <1>3

\* SharedLoads for every file with a size that off_t can say, wherever the comment is and
\* whatever is on the disk: what fio_create_metainfo has made from a file is accepted, and
\* every block is marked exactly when the bytes on the disk are those of the file.
THEOREM SharedAccepted ==
    ASSUME \A s \in Contents : Len(s) <= MaxOff
    PROVE  Spec => []SharedLoads
<1>1. LoadInv /\ ItemsInv /\ MapInv /\ Accepted => SharedLoads
  <2> SUFFICES ASSUME LoadInv, ItemsInv, MapInv, made # "cut", shared # Absent, at = "loaded"
               PROVE  (\A j \in 1 .. t.block_count : map[j] = 1) <=> disk = shared
    BY DEF SharedLoads, Accepted
  <2>1. /\ shared \in Contents /\ disk \in Seq({0, 1}) /\ t.size = Len(shared)
        /\ t.block_count = Count /\ Count \in Nat /\ block = t.block_count
    BY ItemTypes DEF LoadInv, TextOK, MapInv, HasFile, SizeRead, Counted, Count
  <2>2. ASSUME NEW j \in 1 .. Count PROVE t.hashes[j] = Chunk(shared, j)
    <3>1. PICK place : ReadUpTo(place)
      BY DEF ItemsInv
    <3>2. PICK h \in Nat, p \in Nat : h = Len(t.hashes) /\ p = Len(t.peers)
      BY Loading DEF Torrent
    <3>3. h = Count /\ Got = 3 + h + p
      BY <3>1, <3>2 DEF ReadUpTo, Lists, Got
    <3> DEFINE i == j + 3
    <3>4. i \in 1 .. Got /\ i \in 4 .. 3 + Count /\ i - 3 = j
      BY <2>1, <3>3
    <3>5. Field(i) = Item(i).value
      BY <3>1, <3>4 DEF ReadUpTo, Ended
    <3>6. Field(i) = t.hashes[j] /\ i \notin {1, 2, 3}
      BY <2>1, <3>4 DEF Field
    <3>7. Item(i) = HashLine(Chunk(shared, j))
      BY <2>1, <3>4, ItemTypes
    <3> QED
      BY <3>5, <3>6, <3>7 DEF HashLine
  <2>3. \A j \in 1 .. Count : map[j] = 1 <=> BlockBytes(j - 1) = t.hashes[j]
    <3>1. CASE map = Null /\ block = 0
      <4>1. 1 .. Count = {}
        BY <2>1, <3>1
      <4> QED
        BY <4>1
    <3>2. CASE \A j \in 1 .. block : map[j] = 1 <=> BlockBytes(j - 1) = t.hashes[j]
      BY <2>1, <3>2
    <3> QED
      BY <3>1, <3>2 DEF MapInv, HasFile
  <2>4. (\A j \in 1 .. t.block_count : BlockBytes(j - 1) = Chunk(shared, j)) <=> disk = shared
    BY <2>1, SameBlocks
  <2> QED
    BY <2>1, <2>2, <2>3, <2>4
<1>2. Init => Accepted
  BY DEF Init, Accepted
<1> QED
  BY <1>1, <1>2, LoadInit, LoadNext, ItemsInit, ItemsNext, MapInit, MapNext, AcceptedNext,
     PTL DEF Spec

----------------------------------------------------------------------------
(* What is read is what the text says, whoever has written it.              *)

Alive == at \in {"name", "hash", "size", "peer_count", "hashes", "peers", "open", "verify", "loaded"}

\* What comes before the stream is read, and nothing else: every field has what the entry
\* of its number says.
EntriesInv ==
    Alive =>
        /\ Cardinality(Before(text, pos)) = Got
        /\ at \notin {"name", "hash"} => Says(text, 1, t.hash)
        /\ SizeRead => Says(text, 2, t.size)
        /\ Counted => Says(text, 3, t.peer_count)
        /\ \A j \in 1 .. Len(t.hashes) : Says(text, 3 + j, t.hashes[j])
        /\ \A j \in 1 .. Len(t.peers) : Says(text, 3 + Len(t.hashes) + j, t.peers[j])
        /\ ~Counted => t.hashes = << >> /\ t.peers = << >>
        /\ Counted => t.peer_count > 0
        /\ at = "hashes" => Len(t.hashes) < t.block_count /\ t.peers = << >>
        /\ at = "peers" => Len(t.hashes) = t.block_count /\ Len(t.peers) < t.peer_count
        /\ at \in {"open", "verify", "loaded"} =>
              Len(t.hashes) = t.block_count /\ Len(t.peers) = t.peer_count

\* An entry, and nothing but comments and blank lines before and after it: it is the next
\* one, and after it one more is read.
LEMMA NextEntry ==
    ASSUME TextOK, NEW p \in 1 .. Len(text) + 1, NEW d \in p .. Len(text),
           NEW q \in d + 1 .. Len(text) + 1,
           LineAt(d).kind \in {"hash", "number", "peer"},
           \A h \in p .. d - 1 : LineAt(h).kind \in {"comment", "blank"},
           \A h \in d + 1 .. q - 1 : LineAt(h).kind \in {"comment", "blank"}
    PROVE  LET n == Cardinality(Before(text, p))
           IN  /\ n \in Nat /\ Cardinality(Before(text, q)) = n + 1
               /\ Says(text, n + 1, LineAt(d).value)
<1>1. PICK len \in Nat : len = Len(text)
  BY LenProperties DEF TextOK
<1>2. \A h \in 1 .. len : LineAt(h) = text[h]
  BY <1>1 DEF LineAt
<1>3. \A h : h \in Entries(text) <=> h \in 1 .. len /\ LineAt(h).kind \notin {"comment", "blank"}
  BY <1>1, <1>2 DEF Entries
<1>4. d \in Entries(text) /\ d \notin Before(text, p)
  BY <1>1, <1>3 DEF Before
<1>5. Before(text, d) = Before(text, p)
  <2>1. ASSUME NEW h \in Entries(text) PROVE h < d <=> h < p
    <3>1. h \in 1 .. len /\ h \notin p .. d - 1
      BY <1>3
    <3> QED
      BY <1>1, <3>1
  <2> QED
    BY <2>1 DEF Before
<1>6. Before(text, q) = Before(text, p) \cup {d}
  <2>1. ASSUME NEW h \in Entries(text) PROVE h < q <=> h < p \/ h = d
    <3>1. h \in 1 .. len /\ h \notin p .. d - 1 /\ h \notin d + 1 .. q - 1
      BY <1>3
    <3> QED
      BY <1>1, <3>1
  <2> QED
    BY <1>4, <2>1 DEF Before
<1>7. IsFiniteSet(Before(text, p))
  <2>1. Before(text, p) \in SUBSET (1 .. len)
    BY <1>3 DEF Before
  <2>2. IsFiniteSet(1 .. len)
    BY <1>1, FS_Interval
  <2> QED
    BY <2>1, <2>2, FS_Subset
<1>8. /\ Cardinality(Before(text, p)) \in Nat
      /\ Cardinality(Before(text, q)) = Cardinality(Before(text, p)) + 1
  BY <1>4, <1>6, <1>7, FS_CardinalityType, FS_AddElement
<1>9. Says(text, Cardinality(Before(text, p)) + 1, LineAt(d).value)
  <2>1. LineAt(d) = text[d]
    BY <1>1, <1>2
  <2>2. Cardinality(Before(text, d)) = (Cardinality(Before(text, p)) + 1) - 1
    BY <1>5, <1>8
  <2> QED
    BY <1>4, <2>1, <2>2 DEF Says
<1> QED
  BY <1>8, <1>9

\* No entry comes before the first line.
LEMMA NoEntry == ASSUME TextOK PROVE Cardinality(Before(text, 1)) = 0
<1>1. Before(text, 1) = {}
  BY LenProperties DEF Before, Entries, TextOK
<1> QED
  BY <1>1, FS_EmptySet

\* The stream is taken over one entry: it is the one after those that are read.
LEMMA EntryTaken ==
    ASSUME LoadInv, Alive, EntriesInv, NEW d \in {Due, DueNumber}, NEW after,
           \/ after = Past("blank", d + 1)
           \/ after = d + 1,
           LineAt(d).kind \in {"hash", "number", "peer"}
    PROVE  /\ Got \in Nat /\ Cardinality(Before(text, after)) = Got + 1
           /\ Says(text, Got + 1, LineAt(d).value)
<1>1. PICK len \in Nat : len = Len(text)
  BY LenProperties DEF LoadInv, TextOK
<1>2. TextOK /\ pos \in 1 .. len + 1
  BY <1>1 DEF LoadInv
<1>3. /\ Due \in pos .. len + 1
      /\ \A h \in pos .. Due - 1 : LineAt(h).kind = "comment"
  BY <1>1, <1>2, PastOK DEF Due
<1>4. /\ DueNumber \in Due .. len + 1
      /\ \A h \in Due .. DueNumber - 1 : LineAt(h).kind = "blank"
  <2>1. Due \in 1 .. len + 1
    BY <1>2, <1>3
  <2> QED
    BY <1>1, <1>2, <2>1, PastOK DEF DueNumber
<1>5. d \in pos .. len + 1 /\ \A h \in pos .. d - 1 : LineAt(h).kind \in {"comment", "blank"}
  <2>1. CASE d = Due
    BY <1>3, <2>1
  <2>2. CASE d = DueNumber
    <3>1. \A h \in pos .. d - 1 : h \in pos .. Due - 1 \/ h \in Due .. DueNumber - 1
      BY <1>2, <1>3, <1>4, <2>2
    <3> QED
      BY <1>2, <1>3, <1>4, <2>2, <3>1
  <2> QED
    BY <2>1, <2>2
<1>6. d \in 1 .. len /\ d + 1 \in 1 .. len + 1
  <2>1. d \in 1 .. len + 1
    BY <1>2, <1>5
  <2> QED
    BY <1>1, <1>2, <2>1, ItemRead
<1>7. /\ after \in d + 1 .. len + 1
      /\ \A h \in d + 1 .. after - 1 : LineAt(h).kind \in {"comment", "blank"}
  <2>1. /\ Past("blank", d + 1) \in d + 1 .. len + 1
        /\ \A h \in d + 1 .. Past("blank", d + 1) - 1 : LineAt(h).kind = "blank"
    BY <1>1, <1>2, <1>6, PastOK
  <2> QED
    BY <1>6, <2>1
<1>8. d \in pos .. len
  BY <1>5, <1>6
<1>9. /\ Cardinality(Before(text, pos)) \in Nat
      /\ Cardinality(Before(text, after)) = Cardinality(Before(text, pos)) + 1
      /\ Says(text, Cardinality(Before(text, pos)) + 1, LineAt(d).value)
  BY <1>1, <1>2, <1>5, <1>7, <1>8, NextEntry
<1> QED
  BY <1>9 DEF EntriesInv

\* The text stays, and with it what its entries say.
LEMMA TextStays == ASSUME [Next]_vars PROVE text' = text
  BY DEF Next, vars, history, CallFails, TakeName, ReadFileHash, ReadSize, ReadPeerCount,
         ReadHash, ReadPeer, OpenFile, VerifyBlock, Refuse

\* A step that reads nothing.
LEMMA EntriesStay ==
    ASSUME EntriesInv, UNCHANGED <<pos, t, text>>,
           \/ at' \in {"refused", "failed", "aborted", "crashed"} \/ at' = at
           \/ at = "name" /\ at' = "hash"
           \/ at \in {"open", "verify"} /\ at' \in {"verify", "loaded"}
    PROVE  EntriesInv'
<1> SUFFICES ASSUME Alive' PROVE EntriesInv'
  BY DEF EntriesInv
<1>1. Alive /\ (SizeRead' <=> SizeRead) /\ (Counted' <=> Counted) /\ Got' = Got
  BY DEF Alive, SizeRead, Counted, Got
<1>2. t' = t /\ text' = text /\ pos' = pos
  OBVIOUS
<1>3. /\ at' \notin {"name", "hash"} => at \notin {"name", "hash"}
      /\ at' = "hashes" => at = "hashes"
      /\ at' = "peers" => at = "peers"
      /\ at' \in {"open", "verify", "loaded"} => at \in {"open", "verify", "loaded"}
  BY DEF Alive
<1>4. /\ Cardinality(Before(text, pos)) = Got
      /\ at' \notin {"name", "hash"} => Says(text, 1, t.hash)
      /\ SizeRead => Says(text, 2, t.size)
      /\ Counted => Says(text, 3, t.peer_count) /\ t.peer_count > 0
      /\ \A j \in 1 .. Len(t.hashes) : Says(text, 3 + j, t.hashes[j])
      /\ \A j \in 1 .. Len(t.peers) : Says(text, 3 + Len(t.hashes) + j, t.peers[j])
      /\ ~Counted => t.hashes = << >> /\ t.peers = << >>
  BY <1>1, <1>3 DEF EntriesInv
<1>5. /\ at' = "hashes" => Len(t.hashes) < t.block_count /\ t.peers = << >>
      /\ at' = "peers" => Len(t.hashes) = t.block_count /\ Len(t.peers) < t.peer_count
      /\ at' \in {"open", "verify", "loaded"} =>
            Len(t.hashes) = t.block_count /\ Len(t.peers) = t.peer_count
  BY <1>1, <1>3 DEF EntriesInv
<1> QED
  BY <1>1, <1>2, <1>4, <1>5 DEF EntriesInv

\* Every step that reads takes the next entry.
LEMMA EntriesNext == ASSUME LoadInv, EntriesInv, [Next]_vars PROVE EntriesInv'
<1>1. text' = text
  BY TextStays
<1>2. CASE UNCHANGED vars \/ CallFails \/ TakeName \/ OpenFile \/ VerifyBlock \/ Refuse
  <2>1. UNCHANGED <<pos, t>>
    BY <1>2 DEF vars, CallFails, TakeName, OpenFile, VerifyBlock, Refuse
  <2>2. \/ at' \in {"refused", "failed", "aborted", "crashed"} \/ at' = at
        \/ at = "name" /\ at' = "hash"
        \/ at \in {"open", "verify"} /\ at' \in {"verify", "loaded"}
    BY <1>2 DEF vars, CallFails, TakeName, OpenFile, VerifyBlock, Refuse
  <2> QED
    BY <1>1, <2>1, <2>2, EntriesStay
<1>3. CASE ReadFileHash /\ ~Refuse
  <2>1. /\ at = "hash" /\ at' = "size" /\ LineAt(Due).kind = "hash"
        /\ t' = [t EXCEPT !.hash = LineAt(Due).value] /\ pos' = Past("blank", Due + 1)
    BY <1>3 DEF ReadFileHash, ReadsHash
  <2>2. Alive /\ ~Counted /\ Got = 0 /\ ~SizeRead' /\ ~Counted' /\ Got' = 1
    BY <2>1 DEF Alive, SizeRead, Counted, Got
  <2>3. Cardinality(Before(text, pos')) = 1 /\ Says(text, 1, LineAt(Due).value)
    BY <2>1, <2>2, EntryTaken
  <2>4. t'.hash = LineAt(Due).value /\ t'.hashes = << >> /\ t'.peers = << >>
    BY <2>1, <2>2 DEF EntriesInv, LoadInv, Torrent
  <2> QED
    BY <1>1, <2>1, <2>2, <2>3, <2>4 DEF EntriesInv
<1>4. CASE ReadSize /\ ~Refuse
  <2>1. /\ at = "size" /\ at' = "peer_count" /\ LineAt(DueNumber).kind = "number"
        /\ t' = [t EXCEPT !.size = LineAt(DueNumber).value]
        /\ pos' = Past("blank", DueNumber + 1)
    BY <1>4 DEF ReadSize, ReadsNumber
  <2>2. Alive /\ ~Counted /\ Got = 1 /\ ~Counted' /\ Got' = 2
    BY <2>1 DEF Alive, Counted, Got
  <2>3. Cardinality(Before(text, pos')) = 2 /\ Says(text, 2, LineAt(DueNumber).value)
    BY <2>1, <2>2, EntryTaken
  <2>4. /\ t'.size = LineAt(DueNumber).value /\ t'.hash = t.hash
        /\ t'.hashes = << >> /\ t'.peers = << >> /\ Says(text, 1, t.hash)
    BY <2>1, <2>2 DEF EntriesInv, LoadInv, Torrent
  <2> QED
    BY <1>1, <2>1, <2>2, <2>3, <2>4 DEF EntriesInv
<1>5. CASE ReadPeerCount /\ ~Refuse
  <2> DEFINE n == LineAt(DueNumber).value
             count == BlockCountOf(t.size)
  <2>1. /\ at = "peer_count" /\ at' = (IF count = 0 THEN "peers" ELSE "hashes")
        /\ LineAt(DueNumber).kind = "number" /\ n \in 1 .. MaxPeers
        /\ t' = [t EXCEPT !.peer_count = n, !.block_count = count]
        /\ pos' = Past("blank", DueNumber + 1)
    BY <1>5 DEF ReadPeerCount, ReadsNumber
  <2>2. count \in Nat
    BY BlockCountType DEF LoadInv, Torrent
  <2> HIDE DEF count, n
  <2>3. /\ t'.peer_count = n /\ t'.block_count = count /\ t'.hash = t.hash /\ t'.size = t.size
        /\ t'.hashes = t.hashes /\ t'.peers = t.peers
    BY <2>1 DEF LoadInv, Torrent
  <2>4. Alive /\ SizeRead /\ ~Counted /\ Got = 2
    BY <2>1 DEF Alive, SizeRead, Counted, Got
  <2>5. t.hashes = << >> /\ t.peers = << >> /\ Says(text, 1, t.hash) /\ Says(text, 2, t.size)
    BY <2>1, <2>4 DEF EntriesInv
  <2>6. Cardinality(Before(text, pos')) = 3 /\ Says(text, 3, n)
    BY <2>1, <2>4, EntryTaken DEF n
  <2>7. Len(t'.hashes) = 0 /\ Len(t'.peers) = 0 /\ t'.hashes = << >> /\ t'.peers = << >>
    BY <2>3, <2>5
  <2>8. at' \in {"peers", "hashes"} /\ Counted'
    BY <2>1 DEF Counted
  <2>9. Got' = 3
    BY <2>7, <2>8 DEF Got
  <2>10. n > 0 /\ MaxPeers \in Nat
    BY <2>1, MetainfoAssumption
  <2>11. at' = "hashes" => 0 < count
    BY <2>1, <2>2
  <2>12. at' = "peers" => count = 0
    BY <2>1, <2>2
  <2>13. Says(text', 1, t'.hash) /\ Says(text', 2, t'.size) /\ Says(text', 3, t'.peer_count)
    BY <1>1, <2>3, <2>5, <2>6
  <2>14. Cardinality(Before(text', pos')) = Got'
    BY <1>1, <2>6, <2>9
  <2> QED
    BY <2>3, <2>7, <2>10, <2>11, <2>12, <2>8, <2>13, <2>14 DEF EntriesInv
<1>6. CASE (ReadHash \/ ReadPeer) /\ ~Refuse
  <2> DEFINE v == LineAt(Due).value
  <2>1. PICK h \in Nat, p \in Nat : h = Len(t.hashes) /\ p = Len(t.peers)
    BY LenProperties DEF LoadInv, Torrent
  <2>2. /\ at \in {"hashes", "peers"} /\ Alive /\ SizeRead /\ Counted
        /\ LineAt(Due).kind \in {"hash", "peer"}
    BY <1>6 DEF ReadHash, ReadPeer, ReadsHash, Alive, SizeRead, Counted
  <2>3. Got = 3 + h + p
    BY <2>1, <2>2 DEF Got
  <2>4. \/ pos' = Past("blank", Due + 1) \/ pos' = Due + 1
    BY <1>6 DEF ReadHash, ReadPeer
  <2>5. Cardinality(Before(text, pos')) = Got + 1 /\ Says(text, Got + 1, v)
    BY <2>2, <2>4, EntryTaken
  <2>6. /\ Says(text, 1, t.hash) /\ Says(text, 2, t.size) /\ Says(text, 3, t.peer_count)
        /\ \A j \in 1 .. h : Says(text, 3 + j, t.hashes[j])
        /\ \A j \in 1 .. p : Says(text, 3 + h + j, t.peers[j])
    BY <2>1, <2>2 DEF EntriesInv
  <2>7. t.hashes \in Seq(Digest) /\ t.peers \in Seq(Nat) /\ t \in Torrent
    BY DEF LoadInv, Torrent
  <2> HIDE DEF v
  <2>8. CASE ReadHash
    <3>1. /\ t' = [t EXCEPT !.hashes = Append(@, v)] /\ at = "hashes"
          /\ at' = IF Len(t'.hashes) = t.block_count THEN "peers" ELSE "hashes"
      BY <1>6, <2>8 DEF ReadHash, v
    <3>2. /\ t'.hashes = Append(t.hashes, v) /\ t'.peers = t.peers /\ t'.hash = t.hash
          /\ t'.size = t.size /\ t'.peer_count = t.peer_count /\ t'.block_count = t.block_count
      BY <2>7, <3>1 DEF Torrent
    <3>3. /\ Len(t'.hashes) = h + 1 /\ t'.hashes[h + 1] = v
          /\ \A j \in 1 .. h : t'.hashes[j] = t.hashes[j]
      BY <2>1, <2>7, <3>2, AppendProperties
    <3>4. h < t.block_count /\ t.peers = << >> /\ p = 0
      BY <2>1, <3>1 DEF EntriesInv, Alive
    <3>5. Len(t'.peers) = 0 /\ t'.peers = << >>
      BY <2>1, <3>2, <3>4
    <3>6. at' \in {"hashes", "peers"} /\ Counted' /\ SizeRead'
      BY <3>1 DEF Counted, SizeRead
    <3>7. Got' = 3 + (h + 1)
      BY <3>3, <3>5, <3>6 DEF Got
    <3>8. ASSUME NEW j \in 1 .. h + 1 PROVE Says(text, 3 + j, t'.hashes[j])
      <4>1. CASE j = h + 1
        <5>1. Got + 1 = 3 + j
          BY <2>3, <3>4, <4>1
        <5> QED
          BY <2>5, <3>3, <4>1, <5>1
      <4>2. CASE j # h + 1
        <5>1. j \in 1 .. h
          BY <4>2
        <5> QED
          BY <2>6, <3>3, <5>1
      <4> QED
        BY <4>1, <4>2
    <3>9. h + 1 <= t.block_count /\ t.block_count \in Nat
      BY <2>7, <3>4 DEF Torrent
    <3>10. at' = "hashes" => Len(t'.hashes) < t'.block_count
      BY <3>1, <3>2, <3>3, <3>9
    <3>11. at' = "peers" => Len(t'.hashes) = t'.block_count
      BY <3>1, <3>2
    <3>12. t'.peer_count > 0
      BY <2>2, <3>1, <3>2 DEF EntriesInv
    <3>13. Says(text', 1, t'.hash) /\ Says(text', 2, t'.size) /\ Says(text', 3, t'.peer_count)
      BY <1>1, <2>6, <3>2
    <3>14. Cardinality(Before(text', pos')) = Got'
      BY <1>1, <2>3, <2>5, <3>4, <3>7
    <3>15. /\ \A j \in 1 .. Len(t'.hashes) : Says(text', 3 + j, t'.hashes[j])
           /\ \A j \in 1 .. Len(t'.peers) : Says(text', 3 + Len(t'.hashes) + j, t'.peers[j])
      BY <1>1, <3>3, <3>5, <3>8
    <3> QED
      BY <3>5, <3>6, <3>10, <3>11, <3>12, <3>13, <3>14, <3>15 DEF EntriesInv
  <2>9. CASE ReadPeer
    <3>1. /\ t' = [t EXCEPT !.peers = Append(@, v)] /\ at = "peers"
          /\ at' = IF Len(t'.peers) = t.peer_count THEN "open" ELSE "peers"
      BY <1>6, <2>9 DEF ReadPeer, v
    <3>2. /\ t'.peers = Append(t.peers, v) /\ t'.hashes = t.hashes /\ t'.hash = t.hash
          /\ t'.size = t.size /\ t'.peer_count = t.peer_count /\ t'.block_count = t.block_count
      BY <2>7, <3>1 DEF Torrent
    <3>3. /\ Len(t'.peers) = p + 1 /\ t'.peers[p + 1] = v
          /\ \A j \in 1 .. p : t'.peers[j] = t.peers[j]
      BY <2>1, <2>7, <3>2, AppendProperties
    <3>4. h = t.block_count /\ p < t.peer_count
      BY <2>1, <3>1 DEF EntriesInv, Alive
    <3>5. Len(t'.hashes) = h
      BY <2>1, <3>2
    <3>6. at' \in {"open", "peers"} /\ Counted' /\ SizeRead'
      BY <3>1 DEF Counted, SizeRead
    <3>7. Got' = 3 + h + (p + 1)
      BY <3>3, <3>5, <3>6 DEF Got
    <3>8. ASSUME NEW j \in 1 .. p + 1 PROVE Says(text, 3 + h + j, t'.peers[j])
      <4>1. CASE j = p + 1
        <5>1. Got + 1 = 3 + h + j
          BY <2>3, <4>1
        <5> QED
          BY <2>5, <3>3, <4>1, <5>1
      <4>2. CASE j # p + 1
        <5>1. j \in 1 .. p
          BY <4>2
        <5> QED
          BY <2>6, <3>3, <5>1
      <4> QED
        BY <4>1, <4>2
    <3>9. t.peer_count \in Nat
      BY <2>7 DEF Torrent
    <3>10. at' = "peers" => Len(t'.peers) < t'.peer_count
      BY <3>1, <3>2, <3>3, <3>4, <3>9
    <3>11. at' = "open" => Len(t'.peers) = t'.peer_count
      BY <3>1, <3>2
    <3>12. Says(text', 1, t'.hash) /\ Says(text', 2, t'.size) /\ Says(text', 3, t'.peer_count)
      BY <1>1, <2>6, <3>2
    <3>13. Cardinality(Before(text', pos')) = Got'
      BY <1>1, <2>3, <2>5, <3>7
    <3>14. /\ \A j \in 1 .. Len(t'.hashes) : Says(text', 3 + j, t'.hashes[j])
           /\ \A j \in 1 .. Len(t'.peers) : Says(text', 3 + Len(t'.hashes) + j, t'.peers[j])
      BY <1>1, <2>1, <2>6, <3>2, <3>3, <3>5, <3>8
    <3>15. Len(t'.hashes) = t'.block_count /\ t'.peer_count > 0
      BY <2>2, <3>2, <3>4, <3>5 DEF EntriesInv
    <3> QED
      BY <3>6, <3>10, <3>11, <3>12, <3>13, <3>14, <3>15 DEF EntriesInv
  <2> QED
    BY <1>6, <2>8, <2>9
<1> QED
  BY <1>2, <1>3, <1>4, <1>5, <1>6 DEF Next

\* ReadsTheText for every text of the program and every set OtherTexts: wherever
\* comments and blank lines stand, before an item, after it or both, however many lines
\* there are and wherever they end, what is loaded is the text's entries one by one.
THEOREM TextIsRead == Spec => []ReadsTheText
<1>1. Init => EntriesInv
  <2> SUFFICES ASSUME Init PROVE EntriesInv
    OBVIOUS
  <2>1. TextOK /\ pos = 1 /\ at = "name" /\ t.hashes = << >> /\ t.peers = << >>
    BY LoadInit DEF LoadInv, Init, Fresh
  <2>2. ~SizeRead /\ ~Counted /\ Got = 0
    BY <2>1 DEF SizeRead, Counted, Got
  <2> QED
    BY <2>1, <2>2, NoEntry DEF EntriesInv
<1>2. EntriesInv => ReadsTheText
  <2> SUFFICES ASSUME EntriesInv, at = "loaded" PROVE ReadsTheText
    BY DEF ReadsTheText
  <2>1. Alive /\ SizeRead /\ Counted
    BY DEF Alive, SizeRead, Counted
  <2> QED
    BY <2>1 DEF EntriesInv, ReadsTheText
<1> QED
  BY <1>1, <1>2, LoadInit, LoadNext, EntriesNext, PTL DEF Spec
=============================================================================

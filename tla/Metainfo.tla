------------------------------ MODULE Metainfo ------------------------------
(***************************************************************************)
(* The metainfo file, from the program that creates it to the one that     *)
(* loads it (file_io.c, utils.c:11-43).  fio_create_metainfo writes the    *)
(* text, one item a line; utils_create_torrent_struct takes the name of    *)
(* the downloaded file off the name of the metainfo file, and              *)
(* fio_create_torrent_from_metainfo_file reads the text item by item,      *)
(* gives the downloaded file its size and verifies it block by block.      *)
(*                                                                         *)
(* A line is a record of its kind and value.  A file is a sequence of      *)
(* bytes, 0 being the byte ftruncate pads with.  SHA-256 is taken to be    *)
(* free of collisions: the hash of some bytes is those bytes.  Sizes are   *)
(* unsigned of Width bits and off_t is signed of as many, as uint64_t and  *)
(* off_t are.                                                              *)
(***************************************************************************)
EXTENDS Integers, Sequences, FiniteSetsExt

CONSTANTS MaxBlockSize,   \* FIO_MAX_BLOCK_SIZE
          Width,          \* bits of uint64_t in this instance
          PeerCount,      \* PEERCOUNT: peers written to a new metainfo file
          MaxPeers,       \* 0xFFFF
          NameSize,       \* 255, the size of the array filename
          Contents,       \* what files hold
          OtherTexts      \* metainfo files that were made elsewhere

ASSUME MetainfoAssumption ==
    /\ MaxBlockSize \in 1 .. 2 ^ (Width - 1) /\ Width \in Nat \ {0}
    /\ PeerCount \in 1 .. MaxPeers /\ MaxPeers \in Nat
    /\ NameSize \in Nat \ {0}
    /\ \A s \in Contents : s \in Seq({0, 1})

\* What arithmetic says of the powers of two, which the provers do not know.
ASSUME PowersOfTwo ==
    2 ^ (Width - 1) \in Nat \ {0} /\ 2 ^ Width = 2 * 2 ^ (Width - 1)

VARIABLES at,      \* the item that is due, or how the load ended
          name,    \* the name of the metainfo file
          text,    \* its lines
          pos,     \* the next line of the stream
          t,       \* torrent, as far as it is filled
          map,     \* torrent->block_map, as far as it is written, or Null
          block,   \* block_number of the verification loop
          disk,    \* the bytes of the file that is opened, or Absent
          shared,  \* the bytes the text was made from, or Absent when made elsewhere
          made     \* what became of the text since: "whole", "commented", "cut"

vars == <<at, name, text, pos, t, map, block, disk, shared, made>>

Absent == << 2 >>
Null == << 3 >>
MaxUint == 2 ^ Width - 1
\* Bug: the size is compared as an unsigned number.
MaxOffUnsigned == MaxUint

MaxOff == 2 ^ (Width - 1) - 1

\* (size + FIO_MAX_BLOCK_SIZE - 1) / FIO_MAX_BLOCK_SIZE, which can wrap
BlockCountOf(size) == ((size + MaxBlockSize - 1) % 2 ^ Width) \div MaxBlockSize

Offset(b) == (b * MaxBlockSize) % 2 ^ Width

\* fio_get_block_size
BlockSize(b) ==
    IF b + 1 = t.block_count THEN t.size % MaxBlockSize ELSE MaxBlockSize

\* fio_load_block
BlockBytes(b) == SubSeq(disk, Offset(b) + 1, Offset(b) + BlockSize(b))

----------------------------------------------------------------------------
(* The text.                                                                *)

Comment       == [kind |-> "comment"]
Blank         == [kind |-> "blank"]
Word          == [kind |-> "word"]   \* no number, no hexadecimal digit first, no colon
HashLine(h)   == [kind |-> "hash", value |-> h]
NumberLine(n) == [kind |-> "number", value |-> n]
PeerLine(p)   == [kind |-> "peer", value |-> p]   \* no hexadecimal digit first
EndOfFile     == [kind |-> "eof"]

Digest == Seq({0, 1}) \cup {Null}

Line == [kind : {"comment", "blank", "word"}] \cup [kind : {"hash"}, value : Digest]
            \cup [kind : {"number", "peer"}, value : Nat]

\* The lines that say something, and those of them that come before line p.
Entries(lines) == {p \in 1 .. Len(lines) : lines[p].kind \notin {"comment", "blank"}}
Before(lines, p) == {q \in Entries(lines) : q < p}

\* Bug: the whole buffer is hashed, also what fread did not fill.
PaddedChunk(bytes, j) ==
    [p \in 1 .. MaxBlockSize |->
        IF (j - 1) * MaxBlockSize + p <= Len(bytes)
        THEN bytes[(j - 1) * MaxBlockSize + p] ELSE 0]

\* fread of FIO_MAX_BLOCK_SIZE bytes after another: the last one may be short.
Chunk(bytes, j) ==
    SubSeq(bytes, (j - 1) * MaxBlockSize + 1, Min({j * MaxBlockSize, Len(bytes)}))

\* fio__sha256_file reads the file in the same chunks.
FileHash(bytes) == bytes

HashLines(bytes) == [j \in 1 .. BlockCountOf(Len(bytes)) |-> HashLine(Chunk(bytes, j))]

PeerLines(n) == [p \in 1 .. n |-> PeerLine(p)]

\* fio__writemetainfo
Written(hash, size, hashes) ==
    << Comment, HashLine(hash), Comment, NumberLine(size), Comment, NumberLine(PeerCount),
       Comment >> \o hashes \o << Comment >> \o PeerLines(PeerCount)

\* fio_create_metainfo
CreatedText(bytes) == Written(FileHash(bytes), Len(bytes), HashLines(bytes))

\* What is left of a line that is not written to its end: a number loses digits,
\* a digest too, a port too, and a peer even its colon.
CutLine(line) ==
    {line} \cup
    CASE line.kind = "number" -> {NumberLine(n) : n \in 1 .. line.value}
      [] line.kind = "hash"   -> {HashLine(Null)}
      [] line.kind = "peer"   -> {Word, PeerLine(0)}
      [] OTHER                -> {}

\* The results of fprintf and fclose are not looked at, and the program may be
\* killed: the text can end anywhere.
CutText(lines) ==
    UNION {{SubSeq(lines, 1, j - 1)} \cup {Append(SubSeq(lines, 1, j - 1), l) : l \in CutLine(lines[j])}
             : j \in 1 .. Len(lines)}

\* Somebody adds a line of his own.
WithLine(lines, line) ==
    {SubSeq(lines, 1, j) \o << line >> \o SubSeq(lines, j + 1, Len(lines)) : j \in 0 .. Len(lines)}

\* A text that was made by other means, by hand, or while the file was being changed:
\* comments and blank lines stand anywhere in it, its parts need not fit each other,
\* and it may go on too long or end anywhere.  What is left out are entries whose
\* digits are read as those of another item: a hash where a number is due, a number
\* where a hash is due, an address where a number is due, and numbers of more than
\* Width bits.
ASSUME OtherTextsAssumption ==
    \A q \in OtherTexts :
        /\ q \in Seq(Line)
        /\ \A p \in Entries(q) :
              LET nth == Cardinality(Before(q, p)) + 1
              IN  /\ q[p].kind = "number" => nth \in {2, 3} /\ q[p].value <= MaxUint
                  /\ q[p].kind = "hash" => nth \notin {2, 3}
                  /\ q[p].kind = "peer" => nth > 3

----------------------------------------------------------------------------
(* The name: the length of what precedes the first ".ttorrent" in it, and   *)
(* whether the name ends there ("end"), goes on ("inside") or has none.     *)

Names == [stem : {1, NameSize - 1, NameSize, NameSize + 1},
          extension : {"end", "inside", "none"}]

PlainName == [stem |-> 1, extension |-> "end"]

Fresh == [hash |-> << >>, size |-> 0, peer_count |-> 0, block_count |-> 0,
          hashes |-> << >>, peers |-> << >>]

Init ==
    /\ at = "name" /\ pos = 1 /\ t = Fresh /\ map = << >> /\ block = 0
    /\ disk \in Contents \cup {Absent}
    /\ \/ /\ shared \in Contents /\ made = "whole"
          /\ text = CreatedText(shared) /\ name \in Names
       \/ /\ shared \in Contents /\ made = "commented"
          /\ text \in WithLine(CreatedText(shared), Comment) /\ name = PlainName
       \/ /\ shared \in Contents /\ made = "cut"
          /\ text \in CutText(CreatedText(shared)) /\ name = PlainName
       \/ /\ shared = Absent /\ made = "whole"
          /\ text \in OtherTexts /\ name = PlainName

history == <<name, text, shared, made>>

\* Bug: a name as long as the array is refused for being too long, not a longer one.
NameFitsUnless == name.stem # NameSize

NameFits == name.stem <= NameSize

\* utils_create_torrent_struct: the name has to end where the extension is first met.
\* A stem that fills the array leaves it without a terminator: the name goes on
\* with what follows in memory, and some other file, or none, has that name.
TakeName ==
    /\ at = "name"
    /\ IF name.extension = "end" /\ NameFits
       THEN /\ at' = "hash"
            /\ IF name.stem < NameSize THEN UNCHANGED disk
               ELSE disk' \in Contents \cup {Absent}
       ELSE at' = "refused" /\ UNCHANGED disk
    /\ UNCHANGED <<pos, t, map, block, history>>

----------------------------------------------------------------------------
(* fio_create_torrent_from_metainfo_file, item by item.                     *)

LineAt(p) == IF p <= Len(text) THEN text[p] ELSE EndOfFile

\* The first line from p on that is not of the kind.
Past(kind, p) == Min({j \in p .. Len(text) + 1 : LineAt(j).kind # kind})

\* Bug: the line after the last comment is skipped with it.
DueAfterComment ==
    IF LineAt(pos).kind = "comment" THEN Min({Past("comment", pos) + 1, Len(text) + 1})
    ELSE pos

\* fio__skip_comment_lines, which runs before each item
Due == Past("comment", pos)

\* fio__read_hash_from_file: the digits have to be next; white space after them is
\* skipped, blank lines too.
ReadsHash == LineAt(Due).kind = "hash"

\* fscanf("%lu "): white space before the number is skipped as well.
DueNumber == Past("blank", Due)
ReadsNumber == LineAt(DueNumber).kind = "number"

Refuse == at' = "refused" /\ UNCHANGED <<pos, t, map, block, disk, history>>

\* A library call fails: opening, allocating, reading, resolving a name.
CallFails ==
    /\ at \notin {"name", "loaded", "refused", "failed", "aborted", "crashed"}
    /\ at' = "failed"
    /\ UNCHANGED <<pos, t, map, block, disk, history>>

ReadFileHash ==
    /\ at = "hash"
    /\ IF ReadsHash
       THEN /\ t' = [t EXCEPT !.hash = LineAt(Due).value]
            /\ pos' = Past("blank", Due + 1) /\ at' = "size"
            /\ UNCHANGED <<map, block, disk, history>>
       ELSE Refuse

ReadSize ==
    /\ at = "size"
    /\ IF ReadsNumber
       THEN /\ t' = [t EXCEPT !.size = LineAt(DueNumber).value]
            /\ pos' = Past("blank", DueNumber + 1) /\ at' = "peer_count"
            /\ UNCHANGED <<map, block, disk, history>>
       ELSE Refuse

\* The test after the second malloc looks at block_hashes again (file_io.c:195): the
\* load goes on without a block_map when it is the second one that fails.
ReadPeerCount ==
    /\ at = "peer_count"
    /\ LET n == LineAt(DueNumber).value
           count == BlockCountOf(t.size)
       IN  IF ReadsNumber /\ n \in 1 .. MaxPeers /\ count <= MaxUint \div MaxBlockSize
           THEN /\ t' = [t EXCEPT !.peer_count = n, !.block_count = count]
                /\ pos' = Past("blank", DueNumber + 1)
                /\ map' \in {<< >>, Null}
                /\ at' = IF count = 0 THEN "peers" ELSE "hashes"
                /\ UNCHANGED <<block, disk, history>>
           ELSE Refuse

ReadHash ==
    /\ at = "hashes"
    /\ IF ReadsHash
       THEN /\ t' = [t EXCEPT !.hashes = Append(@, LineAt(Due).value)]
            /\ pos' = Past("blank", Due + 1)
            /\ at' = IF Len(t'.hashes) = t.block_count THEN "peers" ELSE "hashes"
            /\ UNCHANGED <<map, block, disk, history>>
       ELSE Refuse

\* Bug: the end of the text ends the list of peers.
ReadPeerToTheEnd ==
    /\ at = "peers"
    /\ IF LineAt(Due).kind = "peer"
       THEN /\ t' = [t EXCEPT !.peers = Append(@, LineAt(Due).value)]
            /\ pos' = Due + 1
            /\ at' = IF Len(t'.peers) = t.peer_count THEN "open" ELSE "peers"
            /\ UNCHANGED <<map, block, disk, history>>
       ELSE IF LineAt(Due).kind = "eof"
            THEN at' = "open" /\ UNCHANGED <<pos, t, map, block, disk, history>>
            ELSE Refuse

\* fgets takes one line, a blank one too; what has no colon is refused.  What
\* follows the last peer is not read.
ReadPeer ==
    /\ at = "peers"
    /\ IF LineAt(Due).kind = "peer"
       THEN /\ t' = [t EXCEPT !.peers = Append(@, LineAt(Due).value)]
            /\ pos' = Due + 1
            /\ at' = IF Len(t'.peers) = t.peer_count THEN "open" ELSE "peers"
            /\ UNCHANGED <<map, block, disk, history>>
       ELSE Refuse

\* Bug: the file is opened with O_TRUNC.
OpenedTruncating == << >>

Opened == IF disk = Absent THEN << >> ELSE disk

\* ftruncate cuts or pads.
Resized(bytes, size) ==
    [p \in 1 .. size |-> IF p <= Len(bytes) THEN bytes[p] ELSE 0]

\* The file is created before its size is found to be too large for off_t.
OpenFile ==
    /\ at = "open"
    /\ IF t.size > MaxOff THEN disk' = Opened /\ at' = "refused"
       ELSE /\ disk' = Resized(Opened, t.size)
            /\ at' = IF t.block_count = 0 THEN "loaded" ELSE "verify"
    /\ UNCHANGED <<pos, t, map, block, history>>

\* One block is loaded and verified.  assert(block->size > 0) ends the program, and
\* so does the write to a block_map that was not allocated.
VerifyBlock ==
    /\ at = "verify"
    /\ IF BlockSize(block) = 0 \/ map = Null
       THEN /\ at' = IF map = Null /\ BlockSize(block) # 0 THEN "crashed" ELSE "aborted"
            /\ UNCHANGED <<map, block>>
       ELSE /\ map' = Append(map, IF BlockBytes(block) = t.hashes[block + 1] THEN 1 ELSE 0)
            /\ block' = block + 1
            /\ at' = IF block' = t.block_count THEN "loaded" ELSE "verify"
    /\ UNCHANGED <<pos, t, disk, history>>

Next ==
    \/ CallFails \/ TakeName \/ ReadFileHash \/ ReadSize \/ ReadPeerCount
    \/ ReadHash \/ ReadPeer \/ OpenFile \/ VerifyBlock

Spec == Init /\ [][Next]_vars

----------------------------------------------------------------------------

\* Every byte of a loaded file is in one block, whatever size the metainfo file
\* gives: the counting of blocks can wrap, but then the size is refused.
BlocksTile ==
    at = "loaded" =>
        /\ Len(disk) = t.size
        /\ \A p \in 0 .. t.size - 1 :
              \E b \in 0 .. t.block_count - 1 :
                  /\ p \in Offset(b) .. Offset(b) + BlockSize(b) - 1
                  /\ \A other \in 0 .. t.block_count - 1 :
                        p \in Offset(other) .. Offset(other) + BlockSize(other) - 1
                            => other = b

\* Who loads the metainfo file made from a file, with a comment anywhere in it, is
\* never refused, whatever an earlier download left on the disk, and is told that
\* every block is there exactly when the bytes are those of the file.
\* (fio_create_metainfo hashes what fread returns, fio_load_block what
\* fio_get_block_size says.)
SharedLoads ==
    made # "cut" /\ shared # Absent /\ name.extension = "end" /\ name.stem < NameSize =>
        /\ at # "refused"
        /\ at = "loaded" => ((\A j \in 1 .. t.block_count : map[j] = 1) <=> disk = shared)

\* A metainfo file that was not written to its end is refused, unless nothing but
\* the end of its last line is missing: nobody downloads a shorter file than the
\* one that is shared, or other blocks, or asks fewer peers.  (fio__writemetainfo
\* looks at no result, fio__skip_comment_lines and fgets at the end of the file.)
CutIsNoticed ==
    made = "cut" /\ at = "loaded" =>
        /\ t.size = Len(shared)
        /\ t.hashes = [j \in 1 .. BlockCountOf(Len(shared)) |-> Chunk(shared, j)]
        /\ Len(t.peers) = PeerCount
        /\ \A p \in 1 .. PeerCount - 1 : t.peers[p] = p

\* The n-th entry says v.
Says(lines, n, v) ==
    \E p \in Entries(lines) : Cardinality(Before(lines, p)) = n - 1 /\ lines[p].value = v

\* What is loaded is what the text says with its comments and blank lines left out,
\* item by item: each comment and each blank line is skipped by exactly one of
\* fio__skip_comment_lines, the scanf of a number that follows and the scanf of the
\* item that precedes, or the text is refused.
ReadsTheText ==
    at = "loaded" =>
        /\ Says(text, 1, t.hash) /\ Says(text, 2, t.size) /\ Says(text, 3, t.peer_count)
        /\ Len(t.hashes) = t.block_count /\ Len(t.peers) = t.peer_count
        /\ \A j \in 1 .. t.block_count : Says(text, 3 + j, t.hashes[j])
        /\ \A j \in 1 .. t.peer_count : Says(text, 3 + t.block_count + j, t.peers[j])

\* The file a metainfo file was made from is not touched by loading that metainfo
\* file, neither a cut nor a commented one, and neither by a name that is too long:
\* it can always be shared again.  (A name that fills the array exactly is the
\* exception, utils.c:27: some other file is opened.)
SharedStays ==
    [][shared # Absent /\ name.stem # NameSize /\ disk = shared => disk' = shared]_vars

\* A block has a size above 0: the assertion of fio__verify_block (file_io.c:25)
\* does not fail on the program's own blocks.
BlocksHaveSize == at # "aborted"
=============================================================================

---------------------------- MODULE TorrentFile ----------------------------
(***************************************************************************)
(* The downloaded file behind fio_torrent_t (file_io.c), as a record:      *)
(*                                                                         *)
(* map    block_map: the blocks taken to be correct                        *)
(* disk   the blocks whose bytes in the file are the right ones            *)
(* pend   the blocks with right bytes still in the buffer of the FILE      *)
(*                                                                         *)
(* SHA-256 is taken to be free of collisions: fio__verify_block tells a    *)
(* block with the right bytes from one with others, and a part of a block  *)
(* that is written over wrong bytes does not make it right.  How much of a *)
(* fwrite stays in the buffer is the library's choice, and so is whether   *)
(* the buffer survives a write that fails: a block goes either way.        *)
(***************************************************************************)
EXTENDS Wire

CONSTANT IoFaults   \* calls on the file that may fail in this instance

ASSUME TorrentFileAssumption == IoFaults \subseteq {"load", "fseeko", "fwrite", "fclose"}

File == [map : SUBSET Blocks, disk : SUBSET Blocks, pend : SUBSET Blocks]

\* Bug: the file is opened with O_TRUNC.
LoadedTruncating(disk) == [map |-> {}, disk |-> {}, pend |-> {}]

\* fio_create_torrent_from_metainfo_file, the file verification: every block is
\* read back and hashed.
Loaded(disk) == [map |-> disk, disk |-> disk, pend |-> {}]

\* What the buffer holds is written when the stream is positioned or closed.
Flushed(file) == [file EXCEPT !.disk = @ \cup file.pend, !.pend = {}]

\* The buffer is lost: the process is gone without fclose(), or the library
\* discards what it cannot write.
Dropped(file) == [file EXCEPT !.pend = {}]

\* fio_store_block: data with the wrong hash is refused; fseeko fails when the
\* buffer cannot be written, and keeps or discards it, with the bit of its block
\* set already; fwrite fails with a part of the block written over the old bytes.
StoreFailed(file, b, right) ==
    IF ~right THEN {file}
    ELSE (IF "fseeko" \in IoFaults THEN {file, Dropped(file)} ELSE {}) \cup
         (IF "fwrite" \in IoFaults THEN {[Flushed(file) EXCEPT !.disk = @ \ {b}]} ELSE {})

\* Bug: the offset is that of the next block.
StoredOneLater(file, b) ==
    LET flushed == Flushed(file)
    IN  {[flushed EXCEPT !.map = @ \cup {b}, !.disk = @ \ {b + 1}]}

Stored(file, b) ==
    LET flushed == Flushed(file)
    IN  {[flushed EXCEPT !.map = @ \cup {b}, !.disk = @ \cup {b}],
         [flushed EXCEPT !.map = @ \cup {b}, !.disk = @ \ {b}, !.pend = {b}]}

\* Bug: the hash is not looked at.
StoreUnverified(file, b, right) ==
    StoreFailed(file, b, TRUE) \cup
    (IF right THEN Stored(file, b) ELSE {[Flushed(file) EXCEPT !.map = @ \cup {b}]})

FioStoreBlock(file, b, right) ==
    StoreFailed(file, b, right) \cup (IF right THEN Stored(file, b) ELSE {})

\* fclose in fio_destroy_torrent: the last flush, whose failure loses the buffer.
FioDestroyTorrent(file) ==
    {Flushed(file)} \cup (IF "fclose" \in IoFaults THEN {Dropped(file)} ELSE {})

\* Bug: the loop returns 1 at the first block that is there.
CompletedByOne(file) == file.map # {}

\* client__is_completed
IsCompleted(file) == file.map = Blocks
=============================================================================

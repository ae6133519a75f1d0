# ttorrent: a verification development

TLA+ modules, TLC configurations and TLAPS proofs for ttorrent, a small
BitTorrent-like program in C.  One binary has three modes: create a metainfo
file (`-c`), serve a file (`-l`), download a file.

## 1. Inventory

| Part | Source | State | Operations | Talks to |
|---|---|---|---|---|
| Event loop of the server | `server.c` | the pollfd array `p`, the message array `d`, loop index and captured size, open descriptors | `poll`, accept, read a message, answer, refuse, remove a client, die | clients over TCP, the arrays, `fio_load_block` |
| Arrays | `utils.c:45-207` | `content`, `size`, `_allocated` | init, add (with realloc), remove with shift, find | called by the loop only |
| Whole-message I/O | `utils.c:209-235` | none | `utils_send_all`, `utils_recv_all` | sockets, blocking in the client and non-blocking in the server |
| Client | `client.c`, `ttorrent.c:25-44` | peer index, block index, the socket | connect, request, receive, store, close, next peer | peers over TCP, the block store |
| Block store | `file_io.c:369-474` | `block_map`, the stream with its buffer, the file | verify, load, store, destroy | stdio |
| Metainfo | `file_io.c:17-367, 476-631`, `utils.c:11-43` | `fio_torrent_t` while it is filled, the position in the text | create and write, take the name, read item by item, resize the file, verify | stdio, the resolver |
| Command line, logger | `ttorrent.c`, `logger.c` | none to speak of | | |
| `merged.c` | | | a copy of the sources in one file, not built by the Makefile | |

The server and the client are both single threads.  What is hard:

* clients act between any two iterations of the server's loop, and removals and
  accepts change the array the loop is running over (`server.c:138-139`);
* descriptors are reused as soon as they are closed, while messages, entries and
  stale copies are keyed by descriptor;
* TCP cuts messages, fills up, ends and resets, under non-blocking `recv`/`send`
  wrappers that drop what they did so far;
* the client blocks without a timeout, so that a lost answer is a hang;
* the client may be killed, or a later flush fail, while bytes that `block_map`
  promises are in a buffer;
* a metainfo file is written without looking at any result, so that it may end
  anywhere, and its comments and white space are skipped by three different calls;
* sizes at the boundary: multiples of the block size, sizes near `UINT64_MAX`.

What makes each part correct:

* server: a removal finds its descriptor; an open descriptor is watched exactly
  once and a closed one has no message; answers stay on their connection, in
  order; only clients that left or asked for nonsense are dropped; clients that
  left are collected; requests are answered;
* client: `block_map` tells the truth unless a flush fails, right blocks are never damaged,
  only what is missing is asked for, no socket leaks, a run ends, a good peer is enough,
  killed runs are resumed;
* both together: what reaches the disk comes from the server and stays there, and
  a download completes;
* arrays: what is kept for one client is not lost or changed by what happens to
  another, and no element is written where there is no memory;
* metainfo: blocks cover the file exactly; what one program writes the other
  accepts and judges rightly; what was not written to its end is refused; loading
  damages no file that is shared.

## 2. Modules

| Module | What it is |
|---|---|
| `Wire` | messages, halves of requests, units of responses (`enum.h`, `utils.h:7-26`) |
| `Tcp` | the connections of the kernel (external) and `utils_recv_all`, `utils_send_all` over them |
| `Arrays` | the array of messages of `utils.c`: elements in order, allocated size |
| `Server` | `server.c`: one action per iteration of the for loop |
| `OpenServer` | `Server` with clients that do anything; the server's properties |
| `TorrentFile` | `block_map`, the disk and the buffer of the stream |
| `Client` | `client.c` and main's client mode: one action between two blocking calls; the client's properties |
| `OpenClient` | `Client` with ideal seeders and strangers for peers |
| `Download` | abstract specification of a transfer |
| `Swarm` | `Server` and `Client` over the same connections, and the refinement of `Download` |
| `Metainfo` | the text of metainfo files as it is written and read, the name, the layout of blocks |
| `TcpProofs`, `ArraysProofs` | lemmas about connections and about the array of messages |
| `ServerProofs`, `ClientProofs` | every step of the server, of a client, keeps its invariant, whoever is on the other end |
| `OpenServerProofs`, `OpenClientProofs` | theorems about the server with any clients, the client with any peers |
| `SwarmProofs` | theorems about both together |
| `MetainfoProofs` | theorems about the metainfo file |
| `MC*` | constants for TLC |

`Server` EXTENDS `Arrays` and `Tcp`, which EXTENDS `Wire`; `Client` EXTENDS `Tcp` and `TorrentFile`;
`Swarm` EXTENDS `Server` and `Client`, which share the variable `net`.

### How state and actions correspond

*Server.* `pfd` is `p.content` including the slots beyond `p.size`, `psize` is
`p.size`, `room` is `p._allocated`, `i` and `c` are the loop's, `d` is the array of
messages with its elements in order and its allocated size, `sock` is the kernel's table of descriptors.  `pc` is `poll` at
`server.c:132` and `scan` inside the loop.  An iteration is one step with every
call it makes: `Accepts`, `AcceptsUnwatched`, `AcceptFails` (145-167),
`StoresMessage`, `ReadFails`, `ClientLeft` (169-197), `NothingToAnswer`,
`DropsClient`, `RefusesBlock`, `SendsBlock`, `SendsNothing` (199-264),
`SkipEntry`.  `SendsNothing` is a block that cannot be loaded, and a `send` that
returns -1 at once, with nothing taken, because the buffer is full.  Clients interleave between iterations; within one they can only
add bytes the iteration's single `recv` sequence or `send` sequence does or does
not see, which the steps before and after cover.

`utils_array_pollfd_add` never writes `revents` and `malloc` does not either: an
entry accepted in this round carries `"uninit"` and is visited, when a shift
moves it below `c`, as if it held anything.  Only `message_code` of a refusal is
assigned (`server.c:225-228`): the other fields are any value.

*Arrays.* `RcvAdd`, `RcvRemove` and `RcvFind` translate the functions of `utils.c`:
all stop at the first element of a descriptor, `RcvAdd` updates it in place or
appends, in twice the memory when the array is full, `RcvRemove` shifts.  The
operator `rcv` of `Server` is what a search finds for each descriptor; properties
and proofs speak of it.  The array of descriptors keeps stale slots, so its shift
and its growth (`Shifted`, `Grown`) are in `Server`.  A realloc may fail exactly
when there is something to grow.

*Connections.* `up` holds halves of requests, so that a request may be cut in
two; `utils_recv_all` takes two halves or fails and drops one.  `down` holds
units of responses.  Closing with unread data resets; writing to a closed end
resets; a reset is reported once and is then the end of the stream.  `asked` and
`answered` are history.

*Client.* `at` names the call the client is in, `peer` and `block` are the loop
variables.  A trailing close, the test of completeness and the step to the next
peer are part of the action that causes them.  `recv` may return -1 with the peer
still there (`ReceivesNothing`).  `Crash` closes the sockets and
drops the buffer; `Start` loads the file again.

*File.* `map` is `block_map`; `disk` the blocks whose bytes in the file are
right; `pend` those still in the buffer.  Hashes do not collide: a block verifies
exactly when its bytes are right.  The `fseeko` of the next store writes the buffer
(`file_io.c:444`).  When that fails, the library may keep what it could not write or
discard it, as glibc and musl do; POSIX promises neither, and `StoreFailed` has both.
The bit of the block in the buffer was set by the call before.

*Metainfo.* A text is a sequence of lines, a line a record of its kind and value;
`pos` is the line the stream stands at.  `TakeName` is
`utils_create_torrent_struct`; then one action per item that
`fio_create_torrent_from_metainfo_file` reads, one step per hash, per peer and per
block verified, filling the torrent `t`.  `Due` skips comments, `DueNumber` white
space as well, which `%lu` itself skips, and `Past("blank", ..)` after an item is the
blank at the end of the scanf formats; a peer has none, so a blank line between peers
is refused, as is one between a comment and a hash or peer.
`CreatedText` is what `-c` writes, `CutText` what is left of it when writing stops
anywhere.  `OtherTexts`, a constant, are the metainfo files made elsewhere: any
sequences of lines, with comments and blank ones anywhere, as long as no digits of one
item stand where `scanf` would read them as those of another (`OtherTextsAssumption`).
A name is the length of what precedes the extension and whether the
name ends with it.  A name that fills its array exactly has no terminator: any
file, or none, may be the one that is opened.  `at = "crashed"` is the write through
a `block_map` whose malloc failed (`file_io.c:195` tests the other pointer).

## 3. Runs

Passing:

| Run | Instance | Shows |
|---|---|---|
| `server_shift` | 3 clients, 3 descriptors, one message each, good or out of range | `TypeOK`, the inductive `ArrayInv`, `WatchedOnce`, `NeverDiesRemoving`, `OnlyBadClientsDropped`, `OthersMessagesStay` |
| `server_faults` | 2 clients, 2 messages each, partial sends, every call failing | `ArrayInv`, `AnswersInOrder`, `WatchedUntilClosed` |
| `server_collect` | 2 clients, fragments, full buffers, failing accept and load; fairness | `DeadClientsCollected` |
| `client_faults` | 2 runs over 2 strangers, crashes, every call failing | `ClientTypeOK`, `OneSocket`, `MapIsTrue`, `RightBlocksStay`, `AsksForMissing` |
| `client_resume` | a stranger, then a seeder; the first of 2 runs may be killed; fairness | `SeederCompletes`, `ResumesToTheEnd`, `RunsEnd` |
| `swarm_solo` | 1 client, 3 blocks, a dead peer and the server; fairness | `AnswersMatch`, refinement of `Download` with liveness (`Downloads`) |
| `swarm_pair` | 2 clients that may be killed, a server with half of the blocks that may stop, requests cut in two | refinement of the safe half (`DownloadsSafely`) |
| `metainfo_load` | files of up to 5 bytes, blocks of 2, sizes of 4 bits, 2 peers, a name array of 3; texts whole, commented, cut and made elsewhere, some of these with 3 comment or blank lines anywhere | `BlocksTile`, `SharedLoads`, `CutIsNoticed`, `ReadsTheText`, `SharedStays` |

Violations, each a disagreement of the code with what it says of itself:

| Run | Property | What happens |
|---|---|---|
| `server_lost` | `RequestsAnswered` (`server.c:24-27`) | When a client is removed, the next one moves a slot down and is visited through the copy in its old slot.  Its request is read, but POLLOUT is set in the copy: the real entry waits for input and the request is never answered. |
| `swarm_short` | `RunsEnd` (`client.c:26`, `utils.h:146`) | A response that does not fit the send buffer is cut off at EAGAIN and never continued; the client waits for the rest for ever. |
| `client_spread` | `EveryPeerAskedForEveryBlock` (`client.c:21-24`) | "do nothing" on an unavailable block is a `return -1` that leaves the peer, whose other blocks are never asked for. |
| `metainfo_multiple` | `BlocksHaveSize` (`file_io.c:25`, `file_io.h:118`) | For a size that is a multiple of the block size the last block has size 0, and the assertion ends the program. |

Met while modelling and following from the same causes, without a run of their own:
a client answered through a stale copy is answered again, and with two clients the
repeated header can be taken for the next answer (`AnswersMatch` holds on a single
connection, and only there); a request cut in two reaches the case that "shouldn't have happened"
(`server.c:208`); a client "dropped" at `server.c:158` because `fcntl` failed is
not closed; `client_init` returns 0, "succes" (`client.h:8`), with blocks missing.
`file_io.h:89` says that `block_map` denotes "whether a block is correctly downloaded",
but a bit is set when the block is in the buffer of the stream; the `fseeko` for the next
block has to write it, and when that fails and the library discards the buffer, the bit
stays set for the rest of the run: the block is not asked for again and counts as there
in `client__is_completed`.  The next run finds out.  This is the one exception that
`MapIsTrue` names.

### Bounds

* `MaxSlots` bounds the array; it is the number of descriptors plus one in every
  run, so the guard never excludes an accept the program could make.
* Three clients are the least for a shift of two entries and for an entry accepted
  in the round to be met beyond it; two for reuse of a descriptor and for every
  violation.  `MaxAsks` is 1 or 2: a second message is what overwrites a kept one.
* `swarm_pair` has no failing calls: with them the refinement it checks is
  `SwarmDownloads`, which is proved for every set of them, and `client_faults` and
  `server_faults` have each program alone.
* Two blocks: one held and one not, and one number that is out of range stands for
  all.  `BlockUnits` is 1, or 2 where data is cut inside a block.
* `MaxRuns` is 2 for the client alone: a run to be killed and one to resume; it is 1
  in `Swarm`, where a run starts from any blocks on the disk.  `MaxNoise` units of a
  stranger wait at a time; the number it sends is not bounded.
* `InitialSize`, 4 in the code, is 1: both arrays grow from their second element on,
  once to two and once to four, while the loop runs.
* `Metainfo`: two blocks of two bytes and one more are a full block, a second one
  and a short last one; sizes of 4 bits reach the size whose count of blocks wraps
  to 0 and sizes above `MaxOff`.  Two peers are a last one and one before.  Names
  are a small one and those of one below, at and above the array's size; they vary
  with whole texts only, as the text is not read before the name is taken.  Three lines
  added anywhere, comments or blank ones, meet each of the three calls that skip with
  nothing, one line and two lines, in either order, before and after every item.  A
  peer or a hash too many is what an item skipped by mistake would be replaced with.
* Symmetry is used in runs without liveness properties: over the connections of
  `OpenServer`, over the clients of `swarm_pair`.
* `CHECK_DEADLOCK FALSE` everywhere: the server may block in `poll` for ever and
  clients end.

### Fairness

`FairSpec` of `OpenServer` and `Swarm`: the server's one thread runs whenever
`poll` would return or the loop has a slot to visit, and the network delivers.
`ReadingSpec` adds that clients read what they are sent.  `FairSpec` of
`OpenClient`: the client runs, seeders answer, and a stranger does not keep a
connection open for ever; without the last the client would wait for ever, as it
has no timeout.  `Crash` is never fair, and in `OpenClient` the last run of a client
is not killed.  In `Swarm` the runs that may be killed are the constant `Mortal`:
all of them in `swarm_pair`, which checks no liveness, none in the others.

## 4. Proofs

Every theorem holds for all values of the constants that the named `ASSUME`s of the
modules admit; they are ranges, and are weaker than what the code fixes.

### The server

`OpenServerProofs` proves, for any number of clients, descriptors and blocks, any
messages, and any set of failing calls:

* `TypeCorrect`: `Spec => []TypeOK`;
* `ArrayAgrees`: `Spec => []ArrayInv`;
* `NeverDies`: `Spec => []NeverDiesRemoving`;
* `EachWatchedOnce`: when neither `fcntl` nor `realloc` fails, `Spec => []WatchedOnce`;
* `EntriesKept`: `Spec => WatchedUntilClosed`, an action property: an open descriptor
  that has an entry keeps one until it is closed, whatever fails;
* `MessagesStay`: `Spec => OthersMessagesStay`, an action property: the message kept
  for a descriptor changes only while the loop visits that descriptor;
* `AnswersNeverGoBack`: `Spec => []AnswersInOrder`;
* `GoodClientsStay`: `Spec => OnlyBadClientsDropped`, an action property, when the
  network cuts no request, clients send well-formed requests and neither `close` nor
  `poll` fails.

The assumptions are those of `Wire`, `Tcp`, `Server` and `OpenServer`: names of
the ranges of the constants, among them that descriptors are not the listening
one.  `NeverDiesRemoving` is not inductive: a removal succeeds because the slot
visited, possibly a stale copy beyond `psize`, belongs to a descriptor that is
either closed or still in the array.  `ArrayInv` says so (`VisitsOK`), together
with what keeps it true: the entries below `psize` are the listening socket and
then open descriptors without repeats (`EntriesOK`), messages are kept only for
descriptors in the array (`MessagesOK`), both arrays fit their memory and no
descriptor has two messages (`MemoryOK`), and unless `fcntl` or `realloc` fails every
open descriptor is in the array (`NoLeak`): these two are called between `accept` and
the entry, and a descriptor they leave out is never closed.  `EntriesKept` says that
this is the only way to be out: `ShiftedSlots` finds every entry but the removed one at
its place or one slot lower.  A read only removes when the stream ended, which
a closed descriptor cannot report; a write only removes when a message is kept,
so the descriptor is in the array.  The proof goes action by action; `SameEntries`
covers the iterations that leave the entries alone, and removal is split into its
effect on each conjunct.  `TcpProofs` has the types of what each socket call
returns.  `ArraysProofs` has what the functions of `utils.c` do to a well-formed
array of any length: `RcvAddOK` and `RcvRemoveOK` say that it stays well formed and
that the message of one descriptor is set or gone while a search for any other finds
what it found before.  `MessagesStay` rests on them: a first match is the only match,
so shifting the elements does not change what is found.

`AnswersInOrder` speaks of what was asked and answered; whether the next step keeps it
depends on what is between.  `OrderOK` says where everything is: on each connection
some position divides the requests, so that all that is answered was asked up to it
(`AnsweredOK`), the message kept was asked exactly at it, and what is still coming in,
half by half, was not asked before it (`ComingOK`).  Storing a message moves the position to
the request that was read, also when the half of another was dropped before it;
answering leaves it, which is why a client visited twice is answered twice but never
for an earlier request.  A message is kept for a descriptor and the position belongs to
a connection: `SockOK`, that no connection has two descriptors and the server has
accepted it, is what carries a kept message from one to the other, together with
`ArrayInv`, by which a closed descriptor keeps none.

`OnlyBadClientsDropped` has hypotheses the code needs.  Of a request that is read in
part the part read is lost (`utils_recv_all` on a non-blocking socket), the next 13
bytes read are then no message, and a client that asked for nothing wrong is removed;
when `close` or `poll` fails the server exits and drops everyone.  The rest is
`KnownOK`: what is on its way to the server is a sequence of whole messages, and each
number out of range in it, or in a message kept for a descriptor, has been asked for on
that connection.  `ClosedByRemoving` says that a connection only closes in
`server__remove_client`, called for its own descriptor, and `ArrayInv` that the
descriptor is found there, so that the server does not exit.

### The client

`OpenClientProofs` proves, for any number of clients, peers, blocks and runs, peers
that send anything, kills at any moment and any set of failing calls:

* `ClientTypeCorrect`: `Spec => []ClientTypeOK`;
* `MapStaysTrue`: `Spec => MapIsTrue`, an action property: no step makes `block_map` tell
  something wrong, but a store that fails at `fseeko` and loses the block in the buffer;
* `MarkedIsThere`: so when `fseeko` never fails, whichever other calls do, every block
  marked is in the file or its buffer as long as the client runs;
* `SocketsClosed`: `Spec => []OneSocket`;
* `RightBlocksKept`: `Spec => RightBlocksStay`, an action property;
* `AsksInOrder`: `Spec => AsksForMissing`, an action property;
* `SeederEnough`: with no failing call but a load or an `fclose`,
  `Spec => []SeederCompletes`.

The assumptions are those of `Wire`, `Tcp`, `TorrentFile`, `Client` and
`OpenClient`.  `ClientInv` puts `ClientTypeOK` and `OneSocket` together with `MapOK`, what
`block_map` and the file have to do with each other in every state: what is there is
marked, and unless `fseeko` is among the calls that fail, what is marked is there.  Each
needs the others: a failing `fwrite` spoils the block it was to store, which costs nothing
only if that block was missing, and it was missing because the client goes to
`request` for a block that `block_map` lacks (`PlaceOK`, a conjunct of
`ClientTypeOK`) and nothing sets a bit until the body arrives.  `ClientMoves` says
what a step of one client has to show for all of them to keep `ClientInv`; the lemmas
after it show it action by action.  `LeastBlock` is why `CHOOSE` in `NextRequest` has
a value: a set of numbers that is not empty has a least one, by well-founded
induction.  `MapStaysTrue` looks at steps, since after a failing `fseeko` no state is to
blame: `StoreLoses` has the blocks that each outcome of `fio_store_block` loses,
`MapStays` that no other action of a client loses any.  `RightBlocksKept` follows from `ClientInv` with `StoreOK`, which has
the outcomes of `fio_store_block`.  `AsksInOrder` needs one invariant more,
`AskedOK`: on a connection that a client has not come to nothing was asked for, and
on the one it is on the blocks asked for come before the one it is at.  That a
connection is not met twice is the first half: runs and peers only go up.  TLC found
`AskedOK` true on the instance of `client_faults` before it was proved.

`SeederEnough` does not follow from the invariants above, which say nothing of what a
peer that answers has sent.  `SeederInv` adds that a client is not past the seeder
without every block, and, while it is on the connection with it (`Served`), that every
block before the one it is at is there, and that exactly what it is about to read is on
its way: nothing, the answer asked for, or the data after its header.  `Fresh` is where
that starts: a connection the client has not come to is empty.  The hypotheses are
those under which the property is true: after a failing `connect`, `send` or `recv` the
client goes on to the next peer, and a failing `fseeko` or `fwrite` ends or spoils the
store.  The seeder is an ideal one, which answers each request once and whole; for the
server of `server.c` as it is, `AnswersMatch` has what of this is true.  Strangers before and after the seeder, runs that were killed and failing loads
are allowed.

### Both together

`SwarmProofs` proves, for any number of clients, runs, descriptors and blocks, any
failing calls, any kills and a server that may stop at any moment:

* `ServerAmongClients`: `Spec => [](ArrayInv /\ NeverDiesRemoving)`;
* `ClientsOfServer`: `Spec => MapIsTrue /\ []OneSocket`;
* `SwarmDownloads`: `Spec => DownloadsSafely`, the refinement of the safe half of
  `Download`: initial states map to initial states, and every step to a step of it or a
  stutter;
* `AnswersTheRequest`: when only one connection can come to the server, requests are
  not cut and the server has every block, `Spec => []AnswersMatch`.

The first two reuse the lemmas of `ServerProofs` and `ClientProofs` on every step,
each program seeing the other's steps as those of its environment.  The refinement
needs to know where data comes from: `FromHave` says that all that waits on a
connection are headers and data of blocks the server holds, and that no buffer has
anything else.  A new block on a disk is then one the server holds, which is the guard
of the abstract step; that none is lost is `RightBlocksKept` once more.

`AnswersTheRequest` has the hypotheses of `swarm_solo`, for any numbers of dead peers,
blocks, units and descriptors, any failing calls, responses cut off anywhere, a client
killed and a server stopped at any moment.  Without each of the three TLC finds
`AnswersMatch` violated: with a second client, or a second run of the same one, the
loop visits an entry through its copy; of a request cut in two half is dropped, so
that the server answers an older message or none; and a block it does not have is
refused.  The invariant `SoloInv` says where the one request is.  On its way
(`Asked`), the entry of the descriptor waits for input; read (`Kept`), it waits for
output, and the message found for the descriptor is that request, or none when there
was no memory for it; answered or given up (`Quiet`), there is nothing to read and
`poll` reports nothing, so that the answer is not sent again.  `OnlyOne` bounds the
array at two entries: the loop stands at the client's own entry, never at a copy, and
ends its round there.  `Unopened` is why the connection starts empty, and `AllLater`
why it is not met twice.  TLC found `SoloInv` true on three instances around
`swarm_solo`, with every call failing and the client killed, before it was proved.

### The metainfo file

`MetainfoProofs` proves, for files of any length, block sizes up to half the range of
`uint64_t` (512 KiB in the code), any width of sizes, any count of peers and any `OtherTexts`:

* `EachByteOnce`: `Spec => []BlocksTile`;
* `SharedKept`: `Spec => SharedStays`, an action property, for every name but one that
  fills its array exactly;
* `CutNoticed`: `Spec => []CutIsNoticed`;
* `SharedAccepted`: when every file has a size that `off_t` can say,
  `Spec => []SharedLoads`;
* `TextIsRead`: `Spec => []ReadsTheText`.

The first and the last speak of texts made elsewhere too, with any number of comments
and blank lines anywhere in them; the others of texts the program made, which were cut
or got a comment since.

`PowersOfTwo` states the two facts of arithmetic about `2 ^ Width` that the provers do
not know; TLC evaluates it, like every assumption.

`LoadInv` is enough for the first two.  For the blocks it keeps what was counted from
which size: the addition in `BlockCountOf` wraps only for sizes that `off_t` cannot
say, and a loaded file has none (`BlockBounds`).  For the shared file it says that the
first number of the text is the size of that file, or the last line there is, with
digits missing (`SaysSize`).  A load that reads it then finds no count of peers and is
refused before it resizes anything.

`CutNoticed` and `SharedAccepted` need the whole text.  `ItemsInv` says that the items
of the file, its hash, size, count of peers, hashes and peers, lie in the text in this
order with nothing but comments between (`Laid`), that the stream stands before the
next one that is due (`Standing`), and that all that is read is right, except for a
last line of which the end is missing, after which nothing follows (`Ended`).  So a cut
line other than the last peer leaves nothing for the items after it.  `LaidCreated`,
`LaidCommented` and `LaidCut` establish `Laid` for what the program writes, with a
comment more, and cut anywhere; `ItemDue` and `ItemTaken` are what the calls that skip
comments and white space do in such a text.  In a text that is not cut the item due is
always there, and of its kind, so nothing is refused (`AcceptedNext`).  `MapInv` says
what a bit of `block_map` means, and `SameBlocks` that the blocks `fio_load_block`
reads and the chunks `fio_create_metainfo` hashes, whose bounds are computed by
different code, agree for all blocks exactly when the files do.  `LoadInv`, `ItemsInv`
and `MapInv` were found true by TLC on the instance of `metainfo_load` before they were
proved.

`TextIsRead` counts instead of listing, so that it needs no items to be known
beforehand: the entries of a text are the lines that are neither comments nor blank,
and the n-th is the one with n - 1 before it.  `EntriesInv` says that as many entries
come before the stream as have been read, and that each field has what the entry of its
number says.  `NextEntry` is the step: the calls that skip pass no entry, so the one
that is read has all those read before it, and no others, in front.  Which of the three
calls skips a line makes no difference to it, only to whether the text is refused.

### Model-checked only

* All liveness (`DeadClientsCollected`, `ResumesToTheEnd`, `RunsEnd`, `Downloads`): it
  rests on fairness and `ENABLED`, which are out of the prover's reach.

## 5. Not modelled

* The digits of hashes and numbers: signs, overflow of `%lu`, and entries out of order
  whose digits are read as those of another item: a hash or an address where a number
  is due, a number, or a host name that starts with hexadecimal digits, where a hash is
  due.  `OtherTextsAssumption` and the comment of `PeerLine` leave them out.  A line of 1023 characters or
  more is refused like one without a colon.  Resolving names is external: it fails
  or yields an address.
* Reading while `-c` runs on a file that changes: its outcomes, a size and hashes
  that do not fit, are among `OtherTexts`, and no reader can tell them from others.
* Seeders of `OpenClient` that send in part, twice or not at all: they are what
  `server.c` makes of requests, and are in `Server` and `Swarm`.
* A server and a client on the same file are not composed.  What the server's
  cached `block_map` needs of the client, that a right block on the disk stays right
  through storing, failing, being killed and loading again, is `RightBlocksStay`.
* The server before its first poll: `socket`, `bind`, `listen` and the two inits,
  whose results `server.c:124` ignores.
* The choice of the mode, the port number and the help text; the logger, which
  nothing reads; `merged.c`, which is not built.
* Fair accepting (every connection that stays queued is accepted while a descriptor
  is free) holds by the same argument as `DeadClientsCollected`, but the least
  instance that could refute it, three connections for two descriptors, is too
  large for a liveness check of minutes.

## 6. Plan

1. Done: the server's loop with both its arrays, the client, their composition, the
   metainfo file from its text to its blocks, the proofs about the arrays, the safety
   of the client for any peers and failing calls.
2. Done: every safety invariant and action property of the passing runs as a theorem,
   and the safe half of the refinement.
3. Left: what the violations leave open, once the code answers a client through its
   own entry: `AnswersMatch` and `RequestsAnswered` for any number of connections.  The
   liveness properties stay with TLC.

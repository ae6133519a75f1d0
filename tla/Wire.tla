------------------------------- MODULE Wire -------------------------------
(***************************************************************************)
(* What travels on a connection (enum.h, utils.h): the 13-byte message of  *)
(* both directions and the raw bytes of a block.                           *)
(*                                                                         *)
(* A message keeps the three fields the receivers test; block numbers      *)
(* outside the torrent are all BlockCount.  A request can be cut in two by *)
(* the network, so it is two halves.  A response header is one unit and    *)
(* the data of a block is BlockUnits units, so that a reader that lost its *)
(* place takes headers for data and data for headers, as the code would.   *)
(***************************************************************************)
EXTENDS Naturals, Sequences

CONSTANTS BlockCount,   \* fio_torrent_t.block_count
          BlockUnits    \* units in the data of one block

ASSUME WireAssumption == BlockCount \in Nat /\ BlockUnits \in Nat \ {0}

Blocks == 0 .. BlockCount - 1

MSG_REQUEST     == 0
MSG_RESPONSE_OK == 1
MSG_RESPONSE_NA == 2

\* magic says whether the field magic_number holds MAGIC_NUMBER
Message == [magic : BOOLEAN,
            code  : {MSG_REQUEST, MSG_RESPONSE_OK, MSG_RESPONSE_NA},
            block : 0 .. BlockCount]

Request(b) == [magic |-> TRUE, code |-> MSG_REQUEST, block |-> b]
Ok(b)      == [magic |-> TRUE, code |-> MSG_RESPONSE_OK, block |-> b]

\* Thirteen bytes that do not start where a message starts.
Garbage == [magic |-> FALSE, code |-> MSG_REQUEST, block |-> BlockCount]

Half == [half : {"head", "tail"}, msg : Message]
Halves(m) == << [half |-> "head", msg |-> m], [half |-> "tail", msg |-> m] >>

\* One piece of the data of block of; of = BlockCount for bytes of no block.
Piece == [of : 0 .. BlockCount, part : 1 .. BlockUnits]
Data(b) == [j \in 1 .. BlockUnits |-> [of |-> b, part |-> j]]

Unit == Message \cup Piece
=============================================================================

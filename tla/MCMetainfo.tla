----------------------------- MODULE MCMetainfo -----------------------------
(* Metainfo on small instances. *)
EXTENDS Metainfo

Upto(n) == UNION {[1 .. k -> {0, 1}] : k \in 0 .. n}

(***************************************************************************)
(* Texts made elsewhere.  Plain ones have every size, counts of peers      *)
(* around their limit and the hashes of any file, whether they fit or not. *)
(* Edited ones have three more lines, comments or blank ones, anywhere in  *)
(* a text that has a peer or a hash too many.                              *)
(***************************************************************************)
OtherText(size, peers, bytes, gap, n) ==
    << HashLine(Null), Blank, NumberLine(size), Blank, NumberLine(peers) >>
        \o HashLines(bytes) \o gap \o PeerLines(n)

PlainTexts ==
    {OtherText(size, peers, bytes, gap, n) :
            size \in 0 .. MaxUint, peers \in 0 .. MaxPeers + 1, bytes \in Contents,
            gap \in {<< >>, << Blank >>}, n \in {0, MaxPeers}}

Numbers == << HashLine(Null), NumberLine(3), NumberLine(2) >>

PeerTooMany == Numbers \o HashLines(<< 1, 0, 1 >>) \o PeerLines(3)
HashTooMany == Numbers \o HashLines(<< 1, 0, 1, 1, 0 >>) \o PeerLines(2)

Edited(texts) == UNION {WithLine(q, Comment) \cup WithLine(q, Blank) : q \in texts}

EditedTexts == Edited(Edited(Edited({PeerTooMany, HashTooMany})))

PlainAndEdited == PlainTexts \cup EditedTexts

FewBytes == Upto(2)
MoreBytes == Upto(3) \cup {<< 1, 0, 1, 1, 0 >>, << 1, 0, 1, 1, 1 >>, << 0, 0, 0, 0, 0 >>}
=============================================================================

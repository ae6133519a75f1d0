--------------------------- MODULE MCOpenServer ---------------------------
(* OpenServer on small instances. *)
EXTENDS OpenServer, TLC

CONSTANTS k1, k2, k3

MCConns2 == {k1, k2}
MCConns3 == {k1, k2, k3}
MCFds2 == {1, 2}
MCFds3 == {1, 2, 3}

\* a block the server holds, one it does not, and one out of range
MCHave == {0}
MCRequest == {Request(0)}
MCRequests == {Request(0), Request(1)}
MCBadAndGood == {Request(0), Request(BlockCount)}

\* no constant or definition tells two connections apart
MCSymmetry == Permutations(Conns)
=============================================================================

------------------------------ MODULE MCSwarm ------------------------------
(* Swarm on small instances. *)
EXTENDS Swarm, TLC

CONSTANTS a1, a2

One == {a1}
Two == {a1, a2}
OneConns == One \X (1 .. MaxRuns) \X (1 .. PeerCount)
TwoConns == Two \X (1 .. MaxRuns) \X (1 .. PeerCount)

TwoFds == {1, 2}
All == Blocks
Zero == {0}
SecondIsUp == {2}
FirstIsUp == {1}

\* no constant or definition tells two clients apart
Swapped == Permutations(Two)
=============================================================================

--------------------------- MODULE MCOpenClient ---------------------------
(* OpenClient on small instances. *)
EXTENDS OpenClient

CONSTANT a1

MCClients == {a1}
MCConns == MCClients \X (1 .. MaxRuns) \X (1 .. PeerCount)

NoSeeders == {}
SecondSeeds == {2}
BothSeed == {1, 2}
HoldsNothing == [p \in {} |-> {}]
SecondHoldsAll == [p \in {2} |-> Blocks]
EachHoldsOne == << {1}, {0} >>

\* right and wrong headers and data: each is the wrong one for the other block
MCNoise == {Ok(0), Ok(1), Data(0)[1], Data(1)[1]}
LittleNoise == {Ok(0), Garbage, Data(0)[1]}
NoNoise == {}
=============================================================================

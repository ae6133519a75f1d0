----------------------------- MODULE Download -----------------------------
(***************************************************************************)
(* What a transfer promises, without peers, connections or runs: clients   *)
(* hold any of the blocks at the start, keep what they hold, come to hold  *)
(* blocks of the source and no others, and all of those in the end.        *)
(***************************************************************************)
CONSTANTS Clients,
          Blocks,   \* the blocks of the file
          Source    \* those that can be had

VARIABLE got       \* the blocks each client has on its disk

Init == got \in [Clients -> SUBSET Blocks]

Get(a) ==
    \E more \in SUBSET (Source \ got[a]) :
        /\ more # {}
        /\ got' = [got EXCEPT ![a] = @ \cup more]

Next == \E a \in Clients : Get(a)

Safe == Init /\ [][Next]_got

Spec == Safe /\ \A a \in Clients : WF_got(Get(a))
=============================================================================

------------------------------- MODULE MCPing -------------------------------
EXTENDS Ping

CONSTANTS
    MaxBlocks,      \* blocks finished by all chains together
    MaxTargets,     \* targets of all chains together
    Hub             \* the chain all channels touch

Bounds ==
    /\ MapThenSumSet(LAMBDA p : block'[p] - 1, Paras) <= MaxBlocks
    /\ MapThenSumSet(LAMBDA p : Len(Targets'[p]), Paras) <= MaxTargets
    /\ \A c \in channels' : Hub \in {c[1], c[2]}

MCNext == Next /\ Bounds

MCSpec == Init /\ [][MCNext]_vars

MCFairSpec == MCSpec /\ Fairness

\* Every ping that can be answered is answered: PingAnswered for the blocks
\* within the bound.
PingsAnswered == \A b \in 1 .. MaxBlocks : PingAnswered(b)
=============================================================================

------------------------- MODULE MCAccidentProtocol -------------------------
EXTENDS AccidentProtocol, FiniteSets, TLC

CONSTANTS
    MaxAccidents,   \* accidents on record at Renault
    MaxDeclared     \* declarations on record, at all insurances together

Bounds ==
    /\ Cardinality({k \in Keys : Accidents'[k] # None}) <= MaxAccidents
    /\ Cardinality({pk \in Paras \X Keys :
          DeclaredAccidents'[pk[1]][pk[2]] # None}) <= MaxDeclared
    /\ UNCHANGED <<Subscriptions[Renault], DeclaredAccidents[Renault]>>
                                       \* nobody uses Renault as an insurance
    /\ \A c \in HrmpChannels' : Renault \in {c[1], c[2]}  \* the others stay unused

MCNext == Next /\ Bounds

MCSpec == Init /\ [][MCNext]_vars

MCFairSpec == MCSpec /\ Fairness

\* Data hashes are only stored, copied and compared.
Symmetry == Permutations(Data)
=============================================================================

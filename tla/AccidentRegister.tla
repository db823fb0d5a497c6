-------------------------- MODULE AccidentRegister --------------------------
(***************************************************************************)
(* What the accident workflow promises, without chains, messages or        *)
(* failures: a register of accidents per vehicle that only grows, one      *)
(* index after the other, and copies of it at the insurances that only     *)
(* ever learn what the register holds.                                     *)
(***************************************************************************)
EXTENDS Integers

CONSTANTS Insurances, Cars, Indices, Hashes, None

VARIABLES
    recorded,   \* <<car, index>> -> hash, or None
    learned     \* insurance -> <<car, index>> -> hash, or None

registerVars == <<recorded, learned>>

RegisterInit ==
    /\ recorded = [k \in Cars \X Indices |-> None]
    /\ learned = [p \in Insurances |-> [k \in Cars \X Indices |-> None]]

\* The next accident of a car goes to its lowest free index.
Record(car, i, hash) ==
    /\ recorded[<<car, i>>] = None
    /\ \A j \in Indices : j < i => recorded[<<car, j>>] # None
    /\ recorded' = [recorded EXCEPT ![<<car, i>>] = hash]
    /\ UNCHANGED learned

Learn(p, car, i) ==
    /\ recorded[<<car, i>>] # None
    /\ learned[p][<<car, i>>] = None
    /\ learned' = [learned EXCEPT ![p][<<car, i>>] = recorded[<<car, i>>]]
    /\ UNCHANGED recorded

RegisterNext ==
    \/ \E car \in Cars, i \in Indices, hash \in Hashes : Record(car, i, hash)
    \/ \E p \in Insurances, car \in Cars, i \in Indices : Learn(p, car, i)

RegisterSpec == RegisterInit /\ [][RegisterNext]_registerVars
=============================================================================

--------------------------- MODULE SubstrateChain ---------------------------
(***************************************************************************)
(* What the sim_* pallets of the two parachains share: accounts, the u32   *)
(* counters, the composite storage keys and the outcome of a dispatch.     *)
(*                                                                         *)
(* A FRAME StorageMap with OptionQuery is a total function whose value is  *)
(* None at the absent keys.  A call that fails before it writes leaves the *)
(* storage as it was, so it is no step: every `ensure!` is a guard.  A     *)
(* call that fails after it wrote is a step when the runtime does not wrap *)
(* calls in a storage transaction (Transactional = FALSE).                 *)
(***************************************************************************)
EXTENDS Integers

CONSTANTS
    Accounts,       \* AccountId: factories, vehicles and drivers alike
    Data,           \* [u8; 36]: the IPFS IDs reported as data hashes
    None,           \* the None of an OptionQuery
    CountMod,       \* 2^32 in the code: the accident counters are u32
    Transactional   \* does a failing call roll back what it wrote?

\* The values of a u32 counter.
Counts == 0 .. CountMod - 1

ASSUME ChainAssumption ==
    /\ CountMod \in Nat \ {0}
    /\ Transactional \in BOOLEAN
    /\ None \notin Accounts
    /\ None \notin Counts
    /\ None \notin Data

\* Option::unwrap_or(0), as both report_accident calls read their counter.
CountOrZero(c) == IF c = None THEN 0 ELSE c

\* `count + 1` on a u32 in a release build: it wraps.
NextCount(c) == (c + 1) % CountMod

\* Sha256 of the concatenated parts.  The parts have fixed widths (32 and 4
\* bytes) and Sha256 is taken to be free of collisions, so a key is the pair.
create_composite_key(account, count) == <<account, count>>

Keys == Accounts \X Counts
=============================================================================

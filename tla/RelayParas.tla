----------------------------- MODULE RelayParas -----------------------------
(***************************************************************************)
(* The ids of the paras whose message queues the relay chain keeps.        *)
(***************************************************************************)
EXTENDS Integers

CONSTANT ParaIds

ASSUME ParaIdsAssumption == ParaIds \subseteq Nat \ {0}

\* None, where the code has an Option<ParaId>.
NoPara == 0

=============================================================================

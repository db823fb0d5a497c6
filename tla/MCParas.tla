------------------------------ MODULE MCParas ------------------------------
(***************************************************************************)
(* Instances of Paras for TLC, with a history variable: whether a para     *)
(* ever left while the vote on its upgrade was running.  The vote then     *)
(* decides about a para that is gone (schedule_para_cleanup refuses paras  *)
(* with an announced upgrade, but one may be announced after it).          *)
(***************************************************************************)
EXTENDS Paras

CONSTANT Producers   \* the paras that bring candidates

VARIABLE orphaned    \* history: a vote outlived its para

mcVars == <<parasVars, orphaned>>

MCInit == ParasInit /\ orphaned = FALSE

MCNext ==
    /\ ParasNext
    /\ \A p \in ParaIds \ Producers : pending'[p] = None
    /\ orphaned' = (orphaned \/ ~VotesAreAboutRegisteredParas')

MCSpec == MCInit /\ [][MCNext]_mcVars

\* As long as no vote outlived its para, the reference counts of CodeByHash are
\* the number of its users, through onboarding, upgrades, rejected votes,
\* offboarding and pruning, and code that is used is stored.
RefsMatchUnlessOrphaned == orphaned \/ RefsMatchUsers

\* As long as no vote outlived its para, a live para changes its code only as
\* promised: after its vote, no earlier than the block it was given, with the
\* signal set, seen from the candidate that applies it (note_new_head).
PromisesKeptUnlessOrphaned == [][orphaned \/ UpgradeAsPromised]_mcVars
=============================================================================

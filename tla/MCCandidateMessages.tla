------------------------ MODULE MCCandidateMessages ------------------------
(***************************************************************************)
(* The instance of CandidateMessages that TLC checks.  A light message     *)
(* whose execution costs more than it asks for, one that may have to wait  *)
(* for the next block, and one that is set aside unless it comes first.    *)
(***************************************************************************)
EXTENDS CandidateMessages

Light == [required |-> 1, used |-> 2, size |-> 1]
Medium == [required |-> 2, used |-> 2, size |-> 2]
Heavy == [required |-> 3, used |-> 3, size |-> 1]

MCUpwardMessages == {Light, Medium, Heavy}

\* The first para sends whenever it can, the others now and then.
MCBundles ==
    [p \in ParaIds |->
        CASE p = Min(ParaIds) -> {<<Light>>, <<Light, Medium>>}
          [] p = Max(ParaIds) -> {<<>>, <<Heavy>>}
          [] OTHER -> {<<Medium>>}]

=============================================================================

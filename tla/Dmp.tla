-------------------------------- MODULE Dmp --------------------------------
(***************************************************************************)
(* The relay chain's dmp pallet (runtime/parachains/src/dmp.rs): the queue *)
(* of downward messages of each para and the head of its message queue     *)
(* chain.  A head is a hash over the previous head and a message, so it    *)
(* stands for the sequence of all messages ever queued: the model keeps    *)
(* that sequence.  Every message fits the configured size.                 *)
(***************************************************************************)
EXTENDS RelayParas, Sequences

CONSTANT DownwardMessages

VARIABLES
    dmq,       \* DownwardMessageQueues
    dmqHead    \* DownwardMessageQueueHeads

dmpVars == <<dmq, dmqHead>>

DmpInit ==
    /\ dmq = [p \in ParaIds |-> <<>>]
    /\ dmqHead = [p \in ParaIds |-> <<>>]

\* Also for a para that does not exist (any more).
queue_downward_message(p, msg) ==
    /\ dmqHead' = [dmqHead EXCEPT ![p] = Append(@, msg)]
    /\ dmq' = [dmq EXCEPT ![p] = Append(@, msg)]

NoAdvancementRule(p, processed) == processed <= Len(dmq[p])
NoUnderflowCheck(p, processed) == Len(dmq[p]) > 0 => processed > 0
check_processed_downward_messages(p, processed) ==
    /\ Len(dmq[p]) > 0 => processed > 0
    /\ processed <= Len(dmq[p])

\* Dropping more messages than there are empties the queue.
prune_dmq(p, processed) ==
    /\ dmq' = [dmq EXCEPT ![p] =
          IF processed > Len(@) THEN <<>> ELSE SubSeq(@, processed + 1, Len(@))]
    /\ UNCHANGED dmqHead

KeepsHeads(outgoing) ==
    /\ dmq' = [p \in ParaIds |-> IF p \in outgoing THEN <<>> ELSE dmq[p]]
    /\ dmqHead' = [p \in ParaIds |-> dmqHead[p]]
clean_dmp_after_outgoing(outgoing) ==
    /\ dmq' = [p \in ParaIds |-> IF p \in outgoing THEN <<>> ELSE dmq[p]]
    /\ dmqHead' = [p \in ParaIds |-> IF p \in outgoing THEN <<>> ELSE dmqHead[p]]

=============================================================================

------------------------- MODULE CandidateMessages -------------------------
(***************************************************************************)
(* The messages of parachain candidates on the relay chain: the inclusion  *)
(* pallet checks what a backed candidate does to the message queues,       *)
(* keeps the candidate until it is available, and enacts it blocks later   *)
(* on the queues of the modules Dmp and Ump (inclusion/mod.rs,             *)
(* paras_inherent/mod.rs, initializer.rs).                                 *)
(*                                                                         *)
(* A block first enacts or drops pending candidates, then accepts backed   *)
(* ones, then dispatches upward messages; calls follow, and a session      *)
(* change may end it.  The configuration does not change.                  *)
(***************************************************************************)
EXTENDS Dmp, Ump

CONSTANTS
    Bundles,        \* the upward messages a candidate of each para may have
    Recipients,     \* bound: the paras that are sent downward messages
    MaxDownward,    \* bound: downward messages queued for one of them
    MaxOverweight,  \* bound: heavy messages set aside
    MaxOffboarded   \* bound: offboardings

ASSUME CandidateAssumption ==
    /\ Recipients \subseteq ParaIds
    /\ \A p \in ParaIds : Bundles[p] \subseteq Seq(UpwardMessages)
    /\ MaxDownward \in Nat

VARIABLES
    phase,       \* the part of the block that runs
    live,        \* the registered parachains
    pending,     \* PendingAvailability with its commitments
    paraHead,    \* the downward messages each para has processed, the chain
                 \* whose head the para itself keeps
    offboarded   \* how many offboardings there have been

vars == <<dmpVars, umpVars, phase, live, pending, paraHead, offboarded>>

NoCandidate == [up |-> <<>>, down |-> 0, here |-> FALSE]

Init ==
    /\ DmpInit
    /\ UmpInit
    /\ phase = "enact"
    /\ live = ParaIds
    /\ pending = [p \in ParaIds |-> NoCandidate]
    /\ paraHead = [p \in ParaIds |-> <<>>]
    /\ offboarded = 0

\* Bitfields make a pending candidate available.
enact_candidate(p) ==
    LET c == pending[p] IN
    /\ phase = "enact" /\ c.here
    /\ pending' = [pending EXCEPT ![p] = NoCandidate]
    /\ prune_dmq(p, c.down)
    /\ receive_upward_messages(p, c.up)
    /\ paraHead' = [paraHead EXCEPT ![p] = @ \o SubSeq(dmq[p], 1, c.down)]
    /\ UNCHANGED <<phase, live, offboarded>>

\* A candidate is disputed, or times out.
collect_pending(p) ==
    /\ phase = "enact" /\ pending[p].here
    /\ pending' = [pending EXCEPT ![p] = NoCandidate]
    /\ UNCHANGED <<dmpVars, umpVars, phase, live, paraHead, offboarded>>

\* The cores are scheduled, and candidates come next.
Schedule ==
    /\ phase = "enact"
    /\ phase' = "accept"
    /\ UNCHANGED <<dmpVars, umpVars, live, pending, paraHead, offboarded>>

\* Bound: the heavy messages set aside, on their way and in the candidate.
Heavies(msgs) == Cardinality({i \in DOMAIN msgs : msgs[i].required > MaxIndividualWeight})
WithinOverweightBound(up) ==
    Heavies(up) > 0 =>
        u.overweightCount + Heavies(up) + MapThenSumSet(
            LAMBDA p : Heavies(u.queues[p]) + Heavies(pending[p].up), ParaIds)
        <= MaxOverweight

\* A backed candidate of a para without a pending one.
process_candidates(p) ==
    /\ phase = "accept" /\ p \in live /\ ~pending[p].here
    /\ \E up \in Bundles[p], down \in 0 .. MaxDownward :
          /\ WithinOverweightBound(up)
          /\ check_processed_downward_messages(p, down)
          /\ check_upward_messages(p, up)
          /\ pending' = [pending EXCEPT ![p] = [up |-> up, down |-> down, here |-> TRUE]]
    /\ UNCHANGED <<dmpVars, umpVars, phase, live, paraHead, offboarded>>

\* The inherent ends with process_pending_upward_messages.
Dispatch ==
    /\ \/ phase = "accept" /\ phase' = "dispatch" /\ BeginDispatch
       \/ phase = "dispatch" /\ phase' = "dispatch" /\ DispatchTurn
       \/ phase = "dispatch" /\ phase' = "calls" /\ EndDispatch
    /\ UNCHANGED <<dmpVars, live, pending, paraHead, offboarded>>

SendDownward(p) ==
    /\ phase = "calls" /\ Len(dmqHead[p]) < MaxDownward
    /\ \E msg \in DownwardMessages : queue_downward_message(p, msg)
    /\ UNCHANGED <<umpVars, phase, live, pending, paraHead, offboarded>>

ServiceOverweight ==
    /\ phase = "calls"
    /\ \E entry \in u.overweight : service_overweight(entry)
    /\ UNCHANGED <<dmpVars, phase, live, pending, paraHead, offboarded>>

EndBlock ==
    /\ phase = "calls"
    /\ phase' = "enact"
    /\ UNCHANGED <<dmpVars, umpVars, live, pending, paraHead, offboarded>>

\* The end of a session: paras leave and paras join, every pending candidate is
\* dropped, and the queues of the paras that leave are cleaned.
apply_new_session(outgoing, incoming) ==
    /\ phase = "calls"
    /\ offboarded + Cardinality(outgoing) <= MaxOffboarded
    /\ phase' = "enact"
    /\ live' = (live \ outgoing) \cup incoming
    /\ pending' = [p \in ParaIds |-> NoCandidate]
    /\ clean_dmp_after_outgoing(outgoing)
    /\ clean_ump_after_outgoing(outgoing)
    /\ paraHead' = [p \in ParaIds |-> IF p \in outgoing THEN <<>> ELSE paraHead[p]]
    /\ offboarded' = offboarded + Cardinality(outgoing)

Next ==
    \/ \E p \in ParaIds : enact_candidate(p) \/ collect_pending(p)
    \/ Schedule
    \/ \E p \in ParaIds : process_candidates(p)
    \/ Dispatch
    \/ \E p \in Recipients : SendDownward(p)
    \/ ServiceOverweight
    \/ EndBlock
    \/ \E outgoing \in SUBSET live, incoming \in SUBSET (ParaIds \ live) :
          apply_new_session(outgoing, incoming)

Spec == Init /\ [][Next]_vars

\* Every block runs its inherent and ends.
FairSpec ==
    Spec /\ WF_vars(Schedule \/ Dispatch \/ EndBlock)

-----------------------------------------------------------------------------

\* NeedsDispatch lists exactly the paras with a queue, and the cached count and
\* size of a queue are those of its messages (the invariants stated at
\* ump.rs:298 and ump.rs:308), whatever is received, dispatched and cleaned.
CachesMatchQueues ==
    /\ u.needs = {p \in ParaIds : u.queues[p] # <<>>}
    /\ \A p \in ParaIds : u.count[p] = Len(u.queues[p]) /\ u.size[p] = SizeOf(u.queues[p])

\* A queue of upward messages never exceeds its limits: the check runs when the
\* candidate is backed, the messages are received blocks later
\* (check_upward_messages and receive_upward_messages).
QueuesWithinLimits ==
    \A p \in ParaIds : Len(u.queues[p]) <= MaxQueueCount /\ SizeOf(u.queues[p]) <= MaxQueueSize

\* The dispatch is a round robin over the blocks: while a para waits, no other
\* para is dispatched twice, unless an offboarding starts the round again
\* (process_pending_upward_messages with NextDispatchRoundStartWith).
RoundRobin == \A p, q \in ParaIds : passed[p][q] <= 1

\* Whenever a dispatch may begin, NextDispatchRoundStartWith is in NeedsDispatch
\* (ump.rs:318; the cursor of the dispatch asserts it at ump.rs:711).
StartNeedsDispatch == ~loop.on /\ u.start # NoPara => u.start \in u.needs

\* Whatever a pending candidate says it has processed is still in the queue when
\* it is enacted: the branch of prune_dmq that is "unexpected" is never taken.
PruneWithinQueue == \A p \in ParaIds : pending[p].down <= Len(dmq[p])

\* The chain of the messages a para has processed, continued by the queue, is
\* the chain of the relay chain: otherwise the para could never again match the
\* head in DownwardMessageQueueHeads, in this life or in the next one.
ChainContinuesAtPara == \A p \in ParaIds : paraHead[p] \o dmq[p] = dmqHead[p]

DispatchOf(p) == phase = "dispatch" /\ Len(u'.queues[p]) < Len(u.queues[p])

\* No para starves: its upward messages are dispatched again and again, unless
\* its queue is empty again and again, however much the other paras send.
UpwardDispatched ==
    \A p \in ParaIds : []<><<DispatchOf(p)>>_vars \/ []<>(u.queues[p] = <<>>)

\* A para whose candidates keep being enacted processes every downward message:
\* a candidate that ignores a waiting message is not accepted
\* (check_processed_downward_messages).
DownwardProcessed ==
    \A p \in ParaIds : []<><<enact_candidate(p)>>_vars => []<>(dmq[p] = <<>>)

=============================================================================

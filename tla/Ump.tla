-------------------------------- MODULE Ump --------------------------------
(***************************************************************************)
(* The relay chain's ump pallet (runtime/parachains/src/ump.rs): the queue *)
(* of upward messages of each para, the cached sizes of the queues, the    *)
(* list of paras that need a dispatch with its cursor, and the messages    *)
(* that are too heavy.                                                     *)
(*                                                                         *)
(* The storage is the record u.  A message is what its sink makes of it:   *)
(* the weight the executor asks for, the weight it then reports, and its   *)
(* size.  Paras are numbers: the list NeedsDispatch is sorted, so that it  *)
(* is a set and the cursor is the para it points to.                       *)
(***************************************************************************)
EXTENDS RelayParas, Sequences, FiniteSets, FiniteSetsExt, Functions

CONSTANTS
    UpwardMessages,      \* records of required, used and size
    MaxPerCandidate,     \* config.max_upward_message_num_per_candidate
    MaxMessageSize,      \* config.max_upward_message_size
    MaxQueueCount,       \* config.max_upward_queue_count
    MaxQueueSize,        \* config.max_upward_queue_size
    ServiceWeight,       \* config.ump_service_total_weight
    FirstFactorPercent,  \* FirstMessageFactorPercent
    MaxIndividualWeight  \* config.ump_max_individual_weight

ASSUME UmpAssumption ==
    /\ UpwardMessages \subseteq [required : Nat, used : Nat, size : Nat]
    /\ {MaxPerCandidate, MaxMessageSize, MaxQueueCount, MaxQueueSize,
        ServiceWeight, FirstFactorPercent, MaxIndividualWeight} \subseteq Nat

VARIABLES
    u,       \* the storage of the pallet
    loop,    \* the loop that dispatches: its cursor and the weight it has used
    passed   \* history: how many messages of one para were dispatched while
             \* another para waited for its next dispatch

umpVars == <<u, loop, passed>>

SizeOf(queue) ==
    SumFunctionOnSet([i \in DOMAIN queue |-> queue[i].size], DOMAIN queue)

NonePassed == [p \in ParaIds |-> [q \in ParaIds |-> 0]]

NoLoop == [on |-> FALSE, used |-> 0, cursor |-> NoPara]

UmpInit ==
    /\ u = [queues |-> [p \in ParaIds |-> <<>>],
            count |-> [p \in ParaIds |-> 0], size |-> [p \in ParaIds |-> 0],
            needs |-> {}, start |-> NoPara, overweight |-> {}, overweightCount |-> 0]
    /\ loop = NoLoop
    /\ passed = NonePassed

NoSizeCheck(p, msgs) ==
    /\ Len(msgs) <= MaxPerCandidate
    /\ \A i \in DOMAIN msgs : msgs[i].size <= MaxMessageSize
    /\ u.count[p] + Len(msgs) <= MaxQueueCount
check_upward_messages(p, msgs) ==
    /\ Len(msgs) <= MaxPerCandidate
    /\ \A i \in DOMAIN msgs : msgs[i].size <= MaxMessageSize
    /\ u.count[p] + Len(msgs) <= MaxQueueCount
    /\ u.size[p] + SizeOf(msgs) <= MaxQueueSize

receive_upward_messages(p, msgs) ==
    /\ u' = IF msgs = <<>> THEN u
            ELSE [u EXCEPT !.queues[p] = @ \o msgs,
                           !.count[p] = @ + Len(msgs),
                           !.size[p] = @ + SizeOf(msgs),
                           !.needs = @ \cup {p}]
    /\ UNCHANGED <<loop, passed>>

-----------------------------------------------------------------------------
(* process_pending_upward_messages, once in every block, a turn of its loop *)
(* a step: NeedsDispatchCursor and QueueCache are written back as the loop  *)
(* goes, which nothing can see before it ends.                              *)

\* Where the cursor goes from p: the next para of the list, cyclically.
Lowest(ps) == IF ps = {} THEN NoPara ELSE Min(ps)
StaysOnPara(ps, p) == IF p \in ps THEN p ELSE Lowest(ps)
NextOf(ps, p) ==
    LET later == {q \in ps : q > p} IN IF later = {} THEN Lowest(ps) ELSE Min(later)

\* A start that is not in the list falls back to the first para.
StartsAtFirst ==
    /\ ~loop.on
    /\ loop' = [on |-> TRUE, used |-> 0, cursor |-> Lowest(u.needs)]
    /\ UNCHANGED <<u, passed>>
BeginDispatch ==
    /\ ~loop.on
    /\ loop' = [on |-> TRUE, used |-> 0,
                cursor |-> IF u.start \in u.needs THEN u.start ELSE Lowest(u.needs)]
    /\ UNCHANGED <<u, passed>>

MaxWeight ==
    IF loop.used = 0 THEN (ServiceWeight * FirstFactorPercent) \div 100
    ELSE ServiceWeight - loop.used

\* History: p is dispatched, and passes every other para that waits; more than
\* twice counts as twice.
Passes(p) ==
    [q \in ParaIds |-> [r \in ParaIds |->
        IF q = p \/ u.queues[q] = <<>> THEN 0
        ELSE IF r = p /\ passed[q][r] < 2 THEN passed[q][r] + 1 ELSE passed[q][r]]]

\* The front message of p goes, and p leaves the list if it was the last.
Consume(t, p) ==
    LET left == Tail(t.queues[p])
    IN  [t EXCEPT !.queues[p] = left,
                  !.count[p] = Len(left),
                  !.size[p] = IF left = <<>> THEN 0
                              ELSE Max({0, @ - Head(t.queues[p]).size}),
                  !.needs = IF left = <<>> THEN @ \ {p} ELSE @]

stash_overweight(t, p, msg) ==
    [t EXCEPT !.overweight = @ \cup {[index |-> t.overweightCount, para |-> p, msg |-> msg]},
              !.overweightCount = @ + 1]

TurnRuns == loop.on /\ loop.cursor # NoPara /\ loop.used < ServiceWeight

\* The front message (a listed para has one, see CachesMatchQueues) is executed
\* within the weight that is left, or is too heavy by itself and set aside.
DispatchTurn ==
    LET p == loop.cursor
        msg == Head(u.queues[p])
        fits == msg.required <= MaxWeight
    IN  /\ TurnRuns
        /\ fits \/ msg.required > MaxIndividualWeight
        /\ u' = Consume(IF fits THEN u ELSE stash_overweight(u, p, msg), p)
        /\ loop' = [loop EXCEPT !.used = @ + (IF fits THEN msg.used ELSE 0),
                                !.cursor = NextOf(u'.needs, p)]
        /\ passed' = Passes(p)

\* Nobody waits, the weight is used up, or the front message has to wait for the
\* next block; the next round starts where this one stops.
EndDispatch ==
    /\ loop.on
    /\ TurnRuns => LET msg == Head(u.queues[loop.cursor])
                   IN  msg.required > MaxWeight /\ msg.required <= MaxIndividualWeight
    /\ u' = [u EXCEPT !.start = loop.cursor]
    /\ loop' = NoLoop
    /\ UNCHANGED passed

-----------------------------------------------------------------------------

\* Root has a heavy message executed, with weight enough for it.
service_overweight(entry) ==
    /\ entry \in u.overweight
    /\ u' = [u EXCEPT !.overweight = @ \ {entry}]
    /\ UNCHANGED <<loop, passed>>

\* What becomes of the stored start of the round, para by para: it is kept only
\* if it is the para that leaves.
StartAfter(outgoing) ==
    IF outgoing \subseteq {u.start} THEN u.start ELSE NoPara

KeepsListed(outgoing) == u.needs
NeedsAfter(outgoing) == u.needs \ outgoing

Without(f, outgoing, none) == [p \in ParaIds |-> IF p \in outgoing THEN none ELSE f[p]]

\* The round starts again, and so does the history.
clean_ump_after_outgoing(outgoing) ==
    /\ u' = [u EXCEPT !.queues = Without(@, outgoing, <<>>),
                      !.count = Without(@, outgoing, 0),
                      !.size = Without(@, outgoing, 0),
                      !.needs = NeedsAfter(outgoing),
                      !.start = StartAfter(outgoing)]
    /\ passed' = IF outgoing = {} THEN passed ELSE NonePassed
    /\ UNCHANGED loop

=============================================================================

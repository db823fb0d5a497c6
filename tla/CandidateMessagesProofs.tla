---------------------- MODULE CandidateMessagesProofs ----------------------
(***************************************************************************)
(* Theorems about the message queues of candidates, for every set of       *)
(* paras, every configuration and all weights of messages.                 *)
(***************************************************************************)
EXTENDS CandidateMessages, TLAPS, SequenceTheorems, WellFoundedInduction

USE DEF NoPara

-----------------------------------------------------------------------------
(* The downward queues.                                                    *)

DownwardTypeOK ==
    /\ dmq \in [ParaIds -> Seq(DownwardMessages)]
    /\ dmqHead \in [ParaIds -> Seq(DownwardMessages)]
    /\ paraHead \in [ParaIds -> Seq(DownwardMessages)]
    /\ pending \in [ParaIds -> [up : Seq(UpwardMessages), down : Nat, here : BOOLEAN]]

DownwardInv == DownwardTypeOK /\ PruneWithinQueue /\ ChainContinuesAtPara

\* A chain of messages may be cut anywhere: what prune_dmq moves from the queue to the para.
LEMMA Regroup ==
    ASSUME NEW S, NEW a \in Seq(S), NEW b \in Seq(S), NEW c \in Seq(S)
    PROVE  a \o (b \o c) = (a \o b) \o c
<1>1. (a \o b) \o c = a \o (b \o c)
  BY SMTT(30), ConcatAssociative
<1>. QED  BY Zenon, <1>1

\* At genesis no downward message is queued.
LEMMA DownwardInit == Init => DownwardInv
<1>. SUFFICES ASSUME Init PROVE DownwardInv
  OBVIOUS
<1>1. DownwardTypeOK
  BY DEF Init, DmpInit, NoCandidate, DownwardTypeOK
<1>2. PruneWithinQueue
  <2>1. \A p \in ParaIds : pending[p].down = 0 /\ dmq[p] = <<>>
    BY Zenon DEF Init, DmpInit, NoCandidate
  <2>2. Len(<<>>) = 0
    OBVIOUS
  <2>3. \A p \in ParaIds : pending[p].down = 0 /\ Len(dmq[p]) = 0
    BY <2>1, <2>2, Zenon
  <2>. SUFFICES ASSUME NEW p \in ParaIds PROVE pending[p].down <= Len(dmq[p])
    BY Zenon DEF PruneWithinQueue
  <2>. QED  BY <2>3
<1>3. ChainContinuesAtPara
  <2>1. \A p \in ParaIds : paraHead[p] = <<>> /\ dmq[p] = <<>> /\ dmqHead[p] = <<>>
    BY Zenon DEF Init, DmpInit
  <2>2. <<>> \o <<>> = <<>>
    OBVIOUS
  <2>. QED  BY Zenon, <2>1, <2>2 DEF ChainContinuesAtPara
<1>. QED  BY <1>1, <1>2, <1>3 DEF DownwardInv

\* What an enacted candidate has processed moves from the front of the queue of
\* its para to the chain the para keeps.
LEMMA DownwardEnact ==
    ASSUME DownwardInv, NEW p \in ParaIds, enact_candidate(p)
    PROVE  DownwardInv'
<1>. DEFINE n == pending[p].down
<1>1. /\ n \in Nat /\ n <= Len(dmq[p])
      /\ dmq[p] \in Seq(DownwardMessages)
      /\ paraHead[p] \in Seq(DownwardMessages)
  BY DEF DownwardInv, DownwardTypeOK, PruneWithinQueue
<1>2. /\ dmq' = [dmq EXCEPT ![p] = SubSeq(dmq[p], n + 1, Len(dmq[p]))]
      /\ paraHead' = [paraHead EXCEPT ![p] = paraHead[p] \o SubSeq(dmq[p], 1, n)]
      /\ pending' = [pending EXCEPT ![p] = NoCandidate]
      /\ dmqHead' = dmqHead
  <2>1. ~(n > Len(dmq[p])) /\ dmq \in [ParaIds -> Seq(DownwardMessages)]
    BY <1>1 DEF DownwardInv, DownwardTypeOK
  <2>2. /\ prune_dmq(p, n)
        /\ paraHead' = [paraHead EXCEPT ![p] = paraHead[p] \o SubSeq(dmq[p], 1, n)]
        /\ pending' = [pending EXCEPT ![p] = NoCandidate]
    BY DEF enact_candidate
  <2>. HIDE DEF n
  <2>. QED  BY <2>1, <2>2 DEF prune_dmq
<1>3. /\ SubSeq(dmq[p], n + 1, Len(dmq[p])) \in Seq(DownwardMessages)
      /\ SubSeq(dmq[p], 1, n) \in Seq(DownwardMessages)
      /\ SubSeq(dmq[p], 1, n) \o SubSeq(dmq[p], n + 1, Len(dmq[p])) = dmq[p]
  <2>1. Len(dmq[p]) \in Nat
    BY <1>1
  <2>2. /\ SubSeq(dmq[p], n + 1, Len(dmq[p])) \in Seq(DownwardMessages)
        /\ SubSeq(dmq[p], 1, n) \in Seq(DownwardMessages)
    BY SMTT(30), <1>1, <2>1, SubSeqProperties
  <2>3. SubSeq(dmq[p], 1, n) \o SubSeq(dmq[p], n + 1, Len(dmq[p]))
          = SubSeq(dmq[p], 1, Len(dmq[p]))
    <3>1. /\ 1 \in 1 .. Len(dmq[p]) + 1
          /\ n \in 1 - 1 .. Len(dmq[p])
          /\ Len(dmq[p]) \in n .. Len(dmq[p])
      BY SMTT(30), <1>1, <2>1
    <3>. HIDE DEF n
    <3>. QED  BY <1>1, <3>1, ConcatAdjacentSubSeq, Zenon
  <2>. QED  BY Zenon, <1>1, <2>2, <2>3, SubSeqFull
<1>4. DownwardTypeOK'
  <2>1. paraHead[p] \o SubSeq(dmq[p], 1, n) \in Seq(DownwardMessages)
    BY <1>1, <1>3, ConcatProperties
  <2>2. NoCandidate \in [up : Seq(UpwardMessages), down : Nat, here : BOOLEAN]
    BY DEF NoCandidate
  <2>. QED  BY Zenon, <1>2, <1>3, <2>1, <2>2 DEF DownwardInv, DownwardTypeOK
<1>5. PruneWithinQueue'
  <2>. SUFFICES ASSUME NEW q \in ParaIds PROVE pending'[q].down <= Len(dmq'[q])
    BY DEF PruneWithinQueue
  <2>1. CASE q = p
    <3>1. pending'[p].down = 0 /\ dmq'[p] \in Seq(DownwardMessages)
      BY SMTT(30), <1>2, <1>4 DEF DownwardInv, DownwardTypeOK, NoCandidate
    <3>. QED  BY <2>1, <3>1
  <2>2. CASE q # p
    BY SMTT(30), <1>2, <2>2 DEF DownwardInv, DownwardTypeOK, PruneWithinQueue
  <2>. QED  BY <2>1, <2>2
<1>6. ChainContinuesAtPara'
  <2>. SUFFICES ASSUME NEW q \in ParaIds PROVE paraHead'[q] \o dmq'[q] = dmqHead'[q]
    BY ZenonT(30) DEF ChainContinuesAtPara
  <2>1. CASE q = p
    <3>1. dmq'[p] = SubSeq(dmq[p], n + 1, Len(dmq[p]))
          /\ paraHead'[p] = paraHead[p] \o SubSeq(dmq[p], 1, n)
      BY Zenon, <1>2 DEF DownwardInv, DownwardTypeOK
    <3>2. paraHead'[p] \o dmq'[p] = paraHead[p] \o dmq[p]
      <4>1. \A a, b, c \in Seq(DownwardMessages) : a \o (b \o c) = (a \o b) \o c
        BY SMTT(30), Regroup
      <4>. HIDE DEF n
      <4>2. paraHead[p] \o (SubSeq(dmq[p], 1, n) \o SubSeq(dmq[p], n + 1, Len(dmq[p])))
              = (paraHead[p] \o SubSeq(dmq[p], 1, n)) \o SubSeq(dmq[p], n + 1, Len(dmq[p]))
        BY <1>1, <1>3, <4>1, Zenon
      <4>. QED  BY <1>3, <3>1, <4>2, Zenon
    <3>. QED  BY Zenon, <1>2, <2>1, <3>2 DEF DownwardInv, ChainContinuesAtPara
  <2>2. CASE q # p
    BY Zenon, <1>2, <2>2 DEF DownwardInv, DownwardTypeOK, ChainContinuesAtPara
  <2>. QED  BY Zenon, <2>1, <2>2
<1>. QED  BY <1>4, <1>5, <1>6 DEF DownwardInv

\* A new message only makes the queue and the chain longer.
LEMMA DownwardSend ==
    ASSUME DownwardInv, NEW p \in ParaIds, SendDownward(p)
    PROVE  DownwardInv'
<1>1. PICK msg \in DownwardMessages : queue_downward_message(p, msg)
  BY DEF SendDownward
<1>2. /\ dmq' = [dmq EXCEPT ![p] = Append(dmq[p], msg)]
      /\ dmqHead' = [dmqHead EXCEPT ![p] = Append(dmqHead[p], msg)]
      /\ pending' = pending /\ paraHead' = paraHead
  BY Zenon, <1>1 DEF queue_downward_message, SendDownward
<1>3. /\ dmq[p] \in Seq(DownwardMessages)
      /\ dmqHead[p] \in Seq(DownwardMessages)
      /\ paraHead[p] \in Seq(DownwardMessages)
      /\ pending[p].down \in Nat
  BY DEF DownwardInv, DownwardTypeOK
<1>4. DownwardTypeOK'
  BY SMTT(30), <1>2, <1>3 DEF DownwardInv, DownwardTypeOK
<1>5. PruneWithinQueue'
  <2>. SUFFICES ASSUME NEW q \in ParaIds PROVE pending'[q].down <= Len(dmq'[q])
    BY DEF PruneWithinQueue
  <2>1. CASE q = p
    <3>1. Len(dmq'[p]) = Len(dmq[p]) + 1 /\ Len(dmq[p]) \in Nat
      BY <1>2, <1>3 DEF DownwardInv, DownwardTypeOK
    <3>. QED  BY SMTT(30), <1>2, <1>3, <2>1, <3>1 DEF DownwardInv, PruneWithinQueue
  <2>2. CASE q # p
    BY <1>2, <2>2 DEF DownwardInv, DownwardTypeOK, PruneWithinQueue
  <2>. QED  BY <2>1, <2>2
<1>6. ChainContinuesAtPara'
  <2>. SUFFICES ASSUME NEW q \in ParaIds PROVE paraHead'[q] \o dmq'[q] = dmqHead'[q]
    BY Zenon DEF ChainContinuesAtPara
  <2>1. CASE q = p
    <3>1. paraHead[p] \o Append(dmq[p], msg) = Append(paraHead[p] \o dmq[p], msg)
      <4>1. <<msg>> \in Seq(DownwardMessages) /\ paraHead[p] \o dmq[p] \in Seq(DownwardMessages)
        BY <1>3, ConcatProperties
      <4>2. paraHead[p] \o (dmq[p] \o <<msg>>) = (paraHead[p] \o dmq[p]) \o <<msg>>
        <5>1. \A a, b, c \in Seq(DownwardMessages) : a \o (b \o c) = (a \o b) \o c
          BY SMTT(30), Regroup
        <5>. QED  BY <1>3, <4>1, <5>1, Zenon
      <4>3. /\ Append(dmq[p], msg) = dmq[p] \o <<msg>>
            /\ Append(paraHead[p] \o dmq[p], msg) = (paraHead[p] \o dmq[p]) \o <<msg>>
        BY Zenon, <1>3, <4>1, AppendIsConcat
      <4>. QED  BY Zenon, <4>2, <4>3
    <3>2. dmq'[p] = Append(dmq[p], msg) /\ dmqHead'[p] = Append(dmqHead[p], msg)
      BY SMTT(30), <1>2 DEF DownwardInv, DownwardTypeOK
    <3>. QED  BY Zenon, <1>2, <2>1, <3>1, <3>2 DEF DownwardInv, ChainContinuesAtPara
  <2>2. CASE q # p
    BY SMTT(30), <1>2, <2>2 DEF DownwardInv, DownwardTypeOK, ChainContinuesAtPara
  <2>. QED  BY Zenon, <2>1, <2>2
<1>. QED  BY <1>4, <1>5, <1>6 DEF DownwardInv

\* Every step keeps the invariant about downward messages.
LEMMA DownwardStep == DownwardInv /\ [Next]_vars => DownwardInv'
<1>. SUFFICES ASSUME DownwardInv, [Next]_vars PROVE DownwardInv'
  OBVIOUS
<1>1. ASSUME NEW p \in ParaIds, enact_candidate(p) PROVE DownwardInv'
  BY <1>1, DownwardEnact
<1>2. ASSUME NEW p \in ParaIds, collect_pending(p) PROVE DownwardInv'
  <2>1. /\ pending' = [pending EXCEPT ![p] = NoCandidate]
        /\ dmq' = dmq /\ dmqHead' = dmqHead /\ paraHead' = paraHead
    BY <1>2 DEF collect_pending, dmpVars
  <2>2. DownwardTypeOK'
    BY <2>1 DEF DownwardInv, DownwardTypeOK, NoCandidate
  <2>3. \A q \in ParaIds : pending'[q].down = 0 \/ pending'[q] = pending[q]
    BY <2>1 DEF DownwardInv, DownwardTypeOK, NoCandidate
  <2>4. PruneWithinQueue'
    BY <2>1, <2>2, <2>3 DEF DownwardInv, DownwardTypeOK, PruneWithinQueue
  <2>. QED  BY Zenon, <2>1, <2>2, <2>4 DEF DownwardInv, ChainContinuesAtPara
<1>3. ASSUME NEW p \in ParaIds, process_candidates(p) PROVE DownwardInv'
  <2>1. PICK up \in Bundles[p], down \in 0 .. MaxDownward :
           /\ check_processed_downward_messages(p, down)
           /\ pending' = [pending EXCEPT ![p] = [up |-> up, down |-> down, here |-> TRUE]]
    BY Zenon, <1>3 DEF process_candidates
  <2>2. up \in Seq(UpwardMessages) /\ down \in Nat /\ down <= Len(dmq[p])
    BY <2>1, CandidateAssumption DEF check_processed_downward_messages
  <2>3. dmq' = dmq /\ dmqHead' = dmqHead /\ paraHead' = paraHead
    BY <1>3 DEF process_candidates, dmpVars
  <2>4. DownwardTypeOK'
    BY <2>1, <2>2, <2>3 DEF DownwardInv, DownwardTypeOK
  <2>5. \A q \in ParaIds : (q = p /\ pending'[q].down = down) \/ pending'[q] = pending[q]
    BY <2>1 DEF DownwardInv, DownwardTypeOK
  <2>6. PruneWithinQueue'
    BY <2>2, <2>3, <2>5 DEF DownwardInv, PruneWithinQueue
  <2>. QED  BY Zenon, <2>3, <2>4, <2>6 DEF DownwardInv, ChainContinuesAtPara
<1>4. ASSUME NEW p \in Recipients, SendDownward(p) PROVE DownwardInv'
  BY <1>4, CandidateAssumption, DownwardSend
<1>5. ASSUME NEW outgoing \in SUBSET live, NEW incoming \in SUBSET (ParaIds \ live),
             apply_new_session(outgoing, incoming)
      PROVE  DownwardInv'
  <2>1. /\ pending' = [p \in ParaIds |-> NoCandidate]
        /\ dmq' = [p \in ParaIds |-> IF p \in outgoing THEN <<>> ELSE dmq[p]]
        /\ dmqHead' = [p \in ParaIds |-> IF p \in outgoing THEN <<>> ELSE dmqHead[p]]
        /\ paraHead' = [p \in ParaIds |-> IF p \in outgoing THEN <<>> ELSE paraHead[p]]
    BY <1>5 DEF apply_new_session, clean_dmp_after_outgoing
  <2>2. DownwardTypeOK'
    BY <2>1 DEF DownwardInv, DownwardTypeOK, NoCandidate
  <2>3. PruneWithinQueue'
    <3>1. \A p \in ParaIds : pending'[p].down = 0 /\ Len(dmq'[p]) \in Nat
      BY <2>1, <2>2 DEF DownwardTypeOK, NoCandidate
    <3>. QED  BY <3>1 DEF PruneWithinQueue
  <2>4. ChainContinuesAtPara'
    <3>. SUFFICES ASSUME NEW p \in ParaIds PROVE paraHead'[p] \o dmq'[p] = dmqHead'[p]
      BY Zenon DEF ChainContinuesAtPara
    <3>1. <<>> \o <<>> = <<>>
      OBVIOUS
    <3>2. CASE p \in outgoing
      BY <2>1, <3>1, <3>2
    <3>3. CASE p \notin outgoing
      BY Zenon, <2>1, <3>3 DEF DownwardInv, ChainContinuesAtPara
    <3>. QED  BY Zenon, <3>2, <3>3
  <2>. QED  BY SMTT(30), <2>2, <2>3, <2>4 DEF DownwardInv
<1>6. ASSUME dmq' = dmq, dmqHead' = dmqHead, paraHead' = paraHead, pending' = pending
      PROVE  DownwardInv'
  BY <1>6 DEF DownwardInv, DownwardTypeOK, PruneWithinQueue, ChainContinuesAtPara
<1>7. CASE Schedule \/ Dispatch \/ ServiceOverweight \/ EndBlock \/ UNCHANGED vars
  BY <1>6, <1>7 DEF Schedule, Dispatch, ServiceOverweight, EndBlock, vars, dmpVars
<1>. QED  BY <1>1, <1>2, <1>3, <1>4, <1>5, <1>7 DEF Next

\* Whatever the configuration and however the candidates of all paras are
\* backed, dropped and enacted: prune_dmq (dmp.rs) never has to drop more than
\* there is, although the check ran blocks earlier.
THEOREM PruneStaysWithinQueue == Spec => []PruneWithinQueue
<1>1. DownwardInv => PruneWithinQueue
  BY DEF DownwardInv
<1>. QED  BY <1>1, DownwardInit, DownwardStep, PTL DEF Spec

\* The chain of a para, continued by its queue, is always the chain whose head
\* the relay chain stores (queue_downward_message, prune_dmq and
\* clean_dmp_after_outgoing, dmp.rs).
THEOREM ParaFollowsItsChain == Spec => []ChainContinuesAtPara
<1>1. DownwardInv => ChainContinuesAtPara
  BY DEF DownwardInv
<1>. QED  BY <1>1, DownwardInit, DownwardStep, PTL DEF Spec

-----------------------------------------------------------------------------
(* The round robin of the upward queues.                                   *)

\* From the position c, the cyclic order of the para ids comes to q before r.
Before(c, q, r) == \/ c <= q /\ (q < r \/ r < c)
                   \/ q < r /\ r < c

UpwardTypeOK ==
    /\ u = [queues |-> u.queues, count |-> u.count, size |-> u.size, needs |-> u.needs,
            start |-> u.start, overweight |-> u.overweight,
            overweightCount |-> u.overweightCount]
    /\ u.queues \in [ParaIds -> Seq(UpwardMessages)]
    /\ u.needs = {p \in ParaIds : u.queues[p] # <<>>}
    /\ passed \in [ParaIds -> [ParaIds -> Nat]]
    /\ pending \in [ParaIds -> [up : Seq(UpwardMessages), down : Nat, here : BOOLEAN]]
    /\ loop = [on |-> loop.on, used |-> loop.used, cursor |-> loop.cursor]
    /\ loop.on = IF phase = "dispatch" THEN TRUE ELSE FALSE

CursorOK ==
    loop.on => IF u.needs = {} THEN loop.cursor = NoPara ELSE loop.cursor \in u.needs

\* Where the next dispatch happens, unless an offboarding has moved it.
Position == IF loop.on THEN loop.cursor ELSE u.start

\* The inductive strengthening of RoundRobin: the cursor comes to a para that
\* waits before it comes again to a para that has passed it.
WaitersFirst ==
    \A q, r \in ParaIds : passed[q][r] > 0 =>
        /\ passed[q][r] = 1
        /\ q \in u.needs /\ Position \in u.needs
        /\ Before(Position, q, r)

RoundInv == UpwardTypeOK /\ CursorOK /\ WaitersFirst

\* The least element of a set of numbers (Min of the community modules).
LEMMA MinOfNats ==
    ASSUME NEW T, T \subseteq Nat, T # {}
    PROVE  Min(T) \in T /\ \A y \in T : Min(T) <= y
<1>1. PICK x \in T : \A y \in T : ~(<<y, x>> \in OpToRel(<, Nat))
  BY Zenon, WFMin, NatLessThanWellFounded
<1>2. \A y \in T : ~(y < x)
  BY Zenon, <1>1 DEF OpToRel
<1>3. \A y \in T : x <= y
  BY <1>2
<1>. QED  BY Zenon, <1>3 DEF Min

\* Min of the community modules, the first para of the dispatch list, is its least element.
LEMMA LowestIsLeast ==
    ASSUME NEW ps, ps \subseteq ParaIds, ps # {}
    PROVE  Lowest(ps) \in ps /\ \A q \in ps : Lowest(ps) <= q
  BY Zenon, MinOfNats, ParaIdsAssumption DEF Lowest

\* The cursor goes to the next para of the list, cyclically.
LEMMA NextOfIsNext ==
    ASSUME NEW ps, ps \subseteq ParaIds, ps # {}, NEW p \in ParaIds
    PROVE  /\ NextOf(ps, p) \in ps
           /\ \/ p < NextOf(ps, p) /\ \A q \in ps : q <= p \/ NextOf(ps, p) <= q
              \/ \A q \in ps : q <= p /\ NextOf(ps, p) <= q
<1>. DEFINE later == {q \in ps : q > p}
<1>0. ps \subseteq Nat /\ p \in Nat
  BY ParaIdsAssumption
<1>1. CASE later = {}
  <2>1. NextOf(ps, p) = Lowest(ps)
    BY <1>1 DEF NextOf
  <2>2. Lowest(ps) \in ps /\ \A q \in ps : Lowest(ps) <= q
    BY LowestIsLeast
  <2>3. \A q \in ps : q <= p
    BY <1>0, <1>1
  <2>. QED  BY <2>1, <2>2, <2>3
<1>2. CASE later # {}
  <2>1. NextOf(ps, p) = Min(later)
    BY <1>2 DEF NextOf
  <2>2. later \subseteq Nat
    BY Zenon, <1>0
  <2>3. Min(later) \in later /\ \A y \in later : Min(later) <= y
    BY <1>2, <2>2, MinOfNats
  <2>4. \A q \in ps : q <= p \/ q \in later
    BY <1>0
  <2>. QED  BY <2>1, <2>3, <2>4
<1>. QED  BY <1>1, <1>2

\* When the cursor moves on from p, every para that waits keeps its place, and
\* p falls behind all of them.
LEMMA Rotates ==
    ASSUME NEW ps, ps \subseteq ParaIds, NEW p \in ParaIds, NEW q \in ps, q # p,
           NEW r \in ParaIds, Before(p, q, r) \/ r = p
    PROVE  Before(NextOf(ps, p), q, r)
<1>. DEFINE c == NextOf(ps, p)
<1>1. /\ c \in ps
      /\ \/ p < c /\ (q <= p \/ c <= q)
         \/ q <= p /\ c <= q
  BY NextOfIsNext
<1>2. c \in Nat /\ q \in Nat /\ p \in Nat /\ r \in Nat
  BY Zenon, <1>1, ParaIdsAssumption
<1>. HIDE DEF c
<1>3. Before(c, q, r)
  BY <1>1, <1>2 DEF Before
<1>. QED  BY <1>3 DEF c

\* At genesis nothing waits for a dispatch.
LEMMA RoundInit == Init => RoundInv
<1>. SUFFICES ASSUME Init PROVE RoundInv
  OBVIOUS
<1>1. UpwardTypeOK
  BY DEF Init, UmpInit, NoLoop, NonePassed, NoCandidate, UpwardTypeOK
<1>2. CursorOK
  BY DEF Init, UmpInit, NoLoop, CursorOK
<1>3. WaitersFirst
  BY DEF Init, UmpInit, NonePassed, WaitersFirst
<1>. QED  BY <1>1, <1>2, <1>3 DEF RoundInv

\* Steps that leave the loop alone and at most add a para to the list.
LEMMA RoundKept ==
    ASSUME RoundInv, UpwardTypeOK', loop' = loop, passed' = passed,
           ~loop.on, u.needs \subseteq u'.needs, u'.start = u.start
    PROVE  RoundInv'
<1>1. CursorOK'
  BY DEF CursorOK
<1>2. Position' = Position
  BY SMTT(30) DEF Position
<1>3. WaitersFirst'
  BY <1>2 DEF RoundInv, WaitersFirst
<1>. QED  BY <1>1, <1>3 DEF RoundInv

\* The first turn of a block continues where the last block stopped, or nobody
\* has been passed.
LEMMA RoundBegin ==
    ASSUME RoundInv, BeginDispatch, phase' = "dispatch", UNCHANGED pending
    PROVE  RoundInv'
<1>. USE DEF BeginDispatch
<1>1. UpwardTypeOK'
  BY SMTT(30) DEF RoundInv, UpwardTypeOK
<1>2. u.needs \subseteq ParaIds
  BY DEF RoundInv, UpwardTypeOK
<1>3. loop'.on /\ loop'.cursor = IF u.start \in u.needs THEN u.start ELSE Lowest(u.needs)
  OBVIOUS
<1>4. CursorOK'
  <2>1. CASE u.needs = {}
    BY SMTT(30), <1>3, <2>1 DEF CursorOK, Lowest
  <2>2. CASE u.needs # {}
    BY SMTT(30), <1>2, <1>3, <2>2, LowestIsLeast DEF CursorOK
  <2>. QED  BY SMTT(30), <2>1, <2>2
<1>5. WaitersFirst'
  <2>. SUFFICES ASSUME NEW q \in ParaIds, NEW r \in ParaIds, passed[q][r] > 0
       PROVE  /\ passed[q][r] = 1
              /\ q \in u.needs /\ Position' \in u.needs
              /\ Before(Position', q, r)
    BY SMTT(30) DEF WaitersFirst
  <2>1. /\ passed[q][r] = 1
        /\ q \in u.needs /\ u.start \in u.needs
        /\ Before(u.start, q, r)
    BY SMTT(30) DEF RoundInv, WaitersFirst, Position
  <2>2. Position' = u.start
    BY SMTT(30), <1>3, <2>1 DEF Position
  <2>. QED  BY SMTT(30), <2>1, <2>2
<1>. QED  BY SMTT(30), <1>1, <1>4, <1>5 DEF RoundInv

\* A turn of the loop: the para at the cursor cannot have passed anybody who
\* waits, and falls behind all of them.
LEMMA RoundTurn ==
    ASSUME RoundInv, DispatchTurn, phase = "dispatch", phase' = "dispatch", UNCHANGED pending
    PROVE  RoundInv'
<1>. DEFINE p == loop.cursor
            left == Tail(u.queues[p])
<1>1. p \in u.needs /\ loop.on
  BY SMTT(30) DEF RoundInv, CursorOK, DispatchTurn, TurnRuns
<1>2. /\ p \in ParaIds /\ u.needs \subseteq ParaIds
      /\ u.queues \in [ParaIds -> Seq(UpwardMessages)]
      /\ u.queues[p] # <<>>
      /\ passed \in [ParaIds -> [ParaIds -> Nat]]
  BY SMTT(30), <1>1 DEF RoundInv, UpwardTypeOK
<1>3. left \in Seq(UpwardMessages)
  BY SMTT(30), <1>2
<1>4. /\ u'.queues = [u.queues EXCEPT ![p] = left]
      /\ u'.needs = IF left = <<>> THEN u.needs \ {p} ELSE u.needs
      /\ u' = [queues |-> u'.queues, count |-> u'.count, size |-> u'.size,
               needs |-> u'.needs, start |-> u'.start, overweight |-> u'.overweight,
               overweightCount |-> u'.overweightCount]
  BY ZenonT(30) DEF RoundInv, UpwardTypeOK, DispatchTurn, Consume, stash_overweight
<1>5. /\ loop' = [on |-> TRUE, used |-> loop'.used, cursor |-> loop'.cursor]
      /\ loop'.cursor = NextOf(u'.needs, p)
      /\ passed' = Passes(p)
  BY ZenonT(30), <1>1 DEF RoundInv, UpwardTypeOK, DispatchTurn
<1>. HIDE DEF p, left
<1>6. /\ u'.needs = {q \in ParaIds : u'.queues[q] # <<>>}
      /\ u'.needs \subseteq u.needs
      /\ \A q \in u.needs : q # p => q \in u'.needs
  BY SMTT(30), <1>2, <1>4 DEF RoundInv, UpwardTypeOK
<1>7. passed' \in [ParaIds -> [ParaIds -> Nat]]
  BY SMTT(30), <1>2, <1>5 DEF Passes
<1>8. UpwardTypeOK'
  <2>1. u'.queues \in [ParaIds -> Seq(UpwardMessages)]
    BY <1>2, <1>3, <1>4
  <2>2. pending' \in [ParaIds -> [up : Seq(UpwardMessages), down : Nat, here : BOOLEAN]]
    BY DEF RoundInv, UpwardTypeOK
  <2>3. /\ loop' = [on |-> loop'.on, used |-> loop'.used, cursor |-> loop'.cursor]
        /\ loop'.on = IF phase' = "dispatch" THEN TRUE ELSE FALSE
    <3>1. loop'.on = TRUE
      BY <1>5
    <3>. QED  BY Zenon, <1>5, <3>1
  <2>. QED  BY SMTT(30), <1>4, <1>6, <1>7, <2>1, <2>2, <2>3 DEF UpwardTypeOK
<1>9. CursorOK'
  <2>1. CASE u'.needs = {}
    BY <1>5, <2>1 DEF CursorOK, NextOf, Lowest
  <2>2. CASE u'.needs # {}
    <3>1. u'.needs \subseteq ParaIds
      BY SMTT(30), <1>2, <1>6
    <3>2. NextOf(u'.needs, p) \in u'.needs
      BY Zenon, <1>2, <2>2, <3>1, NextOfIsNext
    <3>. QED  BY <1>5, <2>2, <3>2 DEF CursorOK
  <2>. QED  BY <2>1, <2>2
<1>10. WaitersFirst'
  <2>. SUFFICES ASSUME NEW q \in ParaIds, NEW r \in ParaIds, passed'[q][r] > 0
       PROVE  /\ passed'[q][r] = 1
              /\ q \in u'.needs /\ Position' \in u'.needs
              /\ Before(Position', q, r)
    BY DEF WaitersFirst
  <2>1. /\ q # p /\ u.queues[q] # <<>>
        /\ passed'[q][r] = IF r = p /\ passed[q][r] < 2 THEN passed[q][r] + 1
                           ELSE passed[q][r]
    BY <1>5 DEF Passes
  <2>2. q \in u'.needs
    BY <1>6, <2>1 DEF RoundInv, UpwardTypeOK
  <2>3. Position' = NextOf(u'.needs, p) /\ Position = p
    BY SMTT(30), <1>1, <1>5 DEF Position, p
  <2>4. Position' \in u'.needs
    BY Zenon, <1>2, <1>6, <2>2, <2>3, NextOfIsNext
  <2>5. passed[q][r] > 0 => passed[q][r] = 1 /\ Before(p, q, r)
    BY <2>3 DEF RoundInv, WaitersFirst
  <2>6. passed[q][r] \in Nat /\ p \in Nat /\ q \in Nat
    BY Zenon, <1>2, ParaIdsAssumption
  <2>7. CASE r = p
    <3>1. ~Before(p, q, p)
      BY <2>1, <2>6 DEF Before
    <3>2. passed[q][r] = 0
      BY <2>5, <2>6, <2>7, <3>1
    <3>3. passed'[q][r] = 1
      BY SMTT(30), <2>1, <2>7, <3>2
    <3>. QED  BY Zenon, <1>2, <1>6, <2>1, <2>2, <2>3, <2>4, <2>7, <3>3, Rotates
  <2>8. CASE r # p
    <3>1. passed[q][r] > 0 /\ passed'[q][r] = passed[q][r]
      BY <2>1, <2>8
    <3>. QED  BY Zenon, <1>2, <1>6, <2>1, <2>2, <2>3, <2>4, <2>5, <3>1, Rotates
  <2>. QED  BY <2>7, <2>8
<1>. QED  BY SMTT(30), <1>8, <1>9, <1>10 DEF RoundInv

\* The stored start is the cursor.
LEMMA RoundEnd ==
    ASSUME RoundInv, EndDispatch, phase' = "calls", UNCHANGED pending
    PROVE  RoundInv'
<1>1. /\ u' = [u EXCEPT !.start = loop.cursor]
      /\ loop' = [on |-> FALSE, used |-> 0, cursor |-> NoPara]
      /\ passed' = passed /\ loop.on
  BY DEF EndDispatch, NoLoop
<1>2. u'.queues = u.queues /\ u'.needs = u.needs /\ u'.start = loop.cursor
  BY <1>1 DEF RoundInv, UpwardTypeOK
<1>3. UpwardTypeOK'
  BY Zenon, <1>1, <1>2 DEF RoundInv, UpwardTypeOK
<1>4. CursorOK'
  BY <1>1 DEF CursorOK
<1>5. Position' = Position
  BY <1>1, <1>2 DEF Position
<1>6. WaitersFirst'
  BY <1>1, <1>2, <1>5 DEF RoundInv, WaitersFirst
<1>. QED  BY <1>3, <1>4, <1>6 DEF RoundInv

\* Every step keeps the invariant about the rounds of the dispatch loop.
LEMMA RoundStep == RoundInv /\ [Next]_vars => RoundInv'
<1>. SUFFICES ASSUME RoundInv, [Next]_vars PROVE RoundInv'
  OBVIOUS
<1>. DEFINE Candidate == [up : Seq(UpwardMessages), down : Nat, here : BOOLEAN]
<1>0. NoCandidate \in Candidate
  BY DEF NoCandidate
<1>1. ASSUME NEW p \in ParaIds, enact_candidate(p) PROVE RoundInv'
  <2>1. /\ phase' = phase /\ phase = "enact" /\ loop' = loop /\ passed' = passed
        /\ pending' = [pending EXCEPT ![p] = NoCandidate]
        /\ receive_upward_messages(p, pending[p].up)
    BY SMTT(30), <1>1 DEF enact_candidate, receive_upward_messages
  <2>2. pending' \in [ParaIds -> Candidate] /\ pending[p].up \in Seq(UpwardMessages)
    BY SMTT(30), <1>0, <2>1 DEF RoundInv, UpwardTypeOK
  <2>3. CASE pending[p].up = <<>>
    <3>1. u' = u
      BY <2>1, <2>3 DEF receive_upward_messages
    <3>2. UpwardTypeOK'
      BY Zenon, <2>1, <2>2, <3>1 DEF RoundInv, UpwardTypeOK
    <3>. QED  BY Zenon, <2>1, <3>1, <3>2, RoundKept DEF RoundInv, UpwardTypeOK
  <2>4. CASE pending[p].up # <<>>
    <3>. DEFINE q == u.queues[p] \o pending[p].up
    <3>1. /\ u'.queues = [u.queues EXCEPT ![p] = q]
          /\ u'.needs = u.needs \cup {p}
          /\ u'.start = u.start
          /\ u' = [queues |-> u'.queues, count |-> u'.count, size |-> u'.size,
                   needs |-> u'.needs, start |-> u'.start, overweight |-> u'.overweight,
                   overweightCount |-> u'.overweightCount]
      BY ZenonT(30), <2>1, <2>4 DEF receive_upward_messages, RoundInv, UpwardTypeOK
    <3>2. u.queues[p] \in Seq(UpwardMessages)
      BY DEF RoundInv, UpwardTypeOK
    <3>3. q \in Seq(UpwardMessages) /\ q # <<>>
      BY SMTT(30), <2>2, <2>4, <3>2, ConcatProperties
    <3>. HIDE DEF q
    <3>4. u'.needs = {r \in ParaIds : u'.queues[r] # <<>>}
      BY SMTT(30), <3>1, <3>3 DEF RoundInv, UpwardTypeOK
    <3>5. UpwardTypeOK'
      <4>1. u'.queues \in [ParaIds -> Seq(UpwardMessages)]
        BY SMTT(30), <3>1, <3>3 DEF RoundInv, UpwardTypeOK
      <4>2. /\ passed' \in [ParaIds -> [ParaIds -> Nat]]
            /\ loop' = [on |-> loop'.on, used |-> loop'.used, cursor |-> loop'.cursor]
            /\ loop'.on = IF phase' = "dispatch" THEN TRUE ELSE FALSE
        BY Zenon, <2>1 DEF RoundInv, UpwardTypeOK
      <4>. QED  BY SMTT(30), <2>2, <3>1, <3>4, <4>1, <4>2 DEF UpwardTypeOK
    <3>. QED  BY Zenon, <2>1, <3>1, <3>5, RoundKept DEF RoundInv, UpwardTypeOK
  <2>. QED  BY SMTT(30), <2>3, <2>4
<1>2. ASSUME pending' \in [ParaIds -> Candidate], u' = u, loop' = loop, passed' = passed,
             phase # "dispatch", phase' # "dispatch"
      PROVE  RoundInv'
  <2>1. UpwardTypeOK'
    BY ZenonT(30), <1>2 DEF RoundInv, UpwardTypeOK
  <2>. QED  BY Zenon, <1>2, <2>1, RoundKept DEF RoundInv, UpwardTypeOK
<1>3. ASSUME NEW p \in ParaIds, collect_pending(p) PROVE RoundInv'
  <2>1. pending' \in [ParaIds -> Candidate]
    BY <1>0, <1>3 DEF collect_pending, RoundInv, UpwardTypeOK
  <2>. QED  BY <1>2, <1>3, <2>1 DEF collect_pending, umpVars
<1>4. ASSUME NEW p \in ParaIds, process_candidates(p) PROVE RoundInv'
  <2>1. PICK up \in Bundles[p], down \in 0 .. MaxDownward :
           pending' = [pending EXCEPT ![p] = [up |-> up, down |-> down, here |-> TRUE]]
    BY Zenon, <1>4 DEF process_candidates
  <2>2. up \in Seq(UpwardMessages) /\ down \in Nat
    BY CandidateAssumption
  <2>3. pending' \in [ParaIds -> Candidate]
    BY <2>1, <2>2 DEF RoundInv, UpwardTypeOK
  <2>. QED  BY <1>2, <1>4, <2>3 DEF process_candidates, umpVars
<1>5. ASSUME Schedule \/ EndBlock \/ (\E p \in Recipients : SendDownward(p))
      PROVE  RoundInv'
  <2>1. pending' \in [ParaIds -> Candidate] /\ u' = u /\ loop' = loop /\ passed' = passed
        /\ phase # "dispatch" /\ phase' # "dispatch"
    BY <1>5 DEF Schedule, EndBlock, SendDownward, umpVars, RoundInv, UpwardTypeOK
  <2>. QED  BY <1>2, <2>1
<1>6. ASSUME Dispatch PROVE RoundInv'
  BY SMTT(30), <1>6, RoundBegin, RoundTurn, RoundEnd DEF Dispatch
<1>7. ASSUME ServiceOverweight PROVE RoundInv'
  <2>1. /\ \E entry \in u.overweight : u' = [u EXCEPT !.overweight = @ \ {entry}]
        /\ loop' = loop /\ passed' = passed /\ pending' = pending /\ phase' = phase
        /\ phase = "calls"
    BY SMTT(30), <1>7 DEF ServiceOverweight, service_overweight
  <2>2. /\ u'.queues = u.queues /\ u'.needs = u.needs /\ u'.start = u.start
        /\ u' = [queues |-> u'.queues, count |-> u'.count, size |-> u'.size,
                 needs |-> u'.needs, start |-> u'.start, overweight |-> u'.overweight,
                 overweightCount |-> u'.overweightCount]
    BY Zenon, <2>1 DEF RoundInv, UpwardTypeOK
  <2>3. UpwardTypeOK'
    BY ZenonT(30), <2>1, <2>2 DEF RoundInv, UpwardTypeOK
  <2>. QED  BY Zenon, <2>1, <2>2, <2>3, RoundKept DEF RoundInv, UpwardTypeOK
<1>8. ASSUME NEW outgoing \in SUBSET live, NEW incoming \in SUBSET (ParaIds \ live),
             apply_new_session(outgoing, incoming)
      PROVE  RoundInv'
  <2>1. /\ phase = "calls" /\ phase' = "enact" /\ loop' = loop
        /\ pending' = [p \in ParaIds |-> NoCandidate]
        /\ passed' = IF outgoing = {} THEN passed ELSE NonePassed
        /\ clean_ump_after_outgoing(outgoing)
    BY <1>8 DEF apply_new_session, clean_ump_after_outgoing
  <2>2. /\ u'.queues = [p \in ParaIds |-> IF p \in outgoing THEN <<>> ELSE u.queues[p]]
        /\ u'.needs = u.needs \ outgoing
        /\ u'.start = IF outgoing \subseteq {u.start} THEN u.start ELSE NoPara
        /\ u' = [queues |-> u'.queues, count |-> u'.count, size |-> u'.size,
                 needs |-> u'.needs, start |-> u'.start, overweight |-> u'.overweight,
                 overweightCount |-> u'.overweightCount]
    BY Zenon, <2>1 DEF clean_ump_after_outgoing, NeedsAfter, StartAfter, Without,
                RoundInv, UpwardTypeOK
  <2>3. /\ u'.queues \in [ParaIds -> Seq(UpwardMessages)]
        /\ u'.needs = {p \in ParaIds : u'.queues[p] # <<>>}
    BY <2>2 DEF RoundInv, UpwardTypeOK
  <2>4. passed' \in [ParaIds -> [ParaIds -> Nat]]
    BY <2>1 DEF RoundInv, UpwardTypeOK, NonePassed
  <2>5. pending' \in [ParaIds -> Candidate]
    BY SMTT(30), <1>0, <2>1
  <2>6. loop.on = FALSE /\ loop = [on |-> loop.on, used |-> loop.used, cursor |-> loop.cursor]
    BY SMTT(30), <2>1 DEF RoundInv, UpwardTypeOK
  <2>7. UpwardTypeOK'
    BY Zenon, <2>1, <2>2, <2>3, <2>4, <2>5, <2>6 DEF UpwardTypeOK
  <2>8. CASE outgoing = {}
    BY <2>1, <2>2, <2>6, <2>7, <2>8, RoundKept
  <2>9. CASE outgoing # {}
    <3>1. CursorOK'
      BY SMTT(30), <2>1, <2>6 DEF CursorOK
    <3>2. WaitersFirst'
      BY SMTT(30), <2>1, <2>9 DEF WaitersFirst, NonePassed
    <3>. QED  BY <2>7, <3>1, <3>2 DEF RoundInv
  <2>. QED  BY <2>8, <2>9
<1>9. CASE UNCHANGED vars
  BY Zenon, <1>9 DEF vars, umpVars, RoundInv, UpwardTypeOK, CursorOK, WaitersFirst, Position
<1>. QED  BY SMTT(30), <1>1, <1>3, <1>4, <1>5, <1>6, <1>7, <1>8, <1>9 DEF Next

\* However many paras there are, whatever their messages weigh and however the
\* weight of a block runs out: no para is dispatched twice while another one
\* waits (process_pending_upward_messages, ump.rs), unless a para is offboarded.
THEOREM DispatchIsRoundRobin == Spec => []RoundRobin
<1>1. RoundInv => RoundRobin
  <2>. SUFFICES ASSUME RoundInv, NEW p \in ParaIds, NEW q \in ParaIds
       PROVE  passed[p][q] <= 1
    BY DEF RoundRobin
  <2>1. passed[p][q] \in Nat /\ (passed[p][q] > 0 => passed[p][q] = 1)
    BY DEF RoundInv, UpwardTypeOK, WaitersFirst
  <2>. QED  BY <2>1
<1>. QED  BY <1>1, RoundInit, RoundStep, PTL DEF Spec

-----------------------------------------------------------------------------
(* The caches and the limits of the upward queues.                         *)

\* What the steps need of sizes; proved below, from FoldTheorems.
SizeFacts ==
    /\ SizeOf(<<>>) = 0
    /\ \A s \in Seq(UpwardMessages) : SizeOf(s) \in Nat
    /\ \A s, t \in Seq(UpwardMessages) : SizeOf(s \o t) = SizeOf(s) + SizeOf(t)
    /\ \A s \in Seq(UpwardMessages) : s # <<>> =>
          Head(s).size \in Nat /\ SizeOf(s) = Head(s).size + SizeOf(Tail(s))

\* The cached values of one para, and its queue within the limits even when the
\* candidate that is pending is enacted.
Cached(p) ==
    u.count[p] = Len(u.queues[p]) /\ u.size[p] = SizeOf(u.queues[p])
Limited(p) ==
    /\ Len(u.queues[p]) <= MaxQueueCount
    /\ SizeOf(u.queues[p]) <= MaxQueueSize
    /\ pending[p].here =>
          /\ Len(u.queues[p]) + Len(pending[p].up) <= MaxQueueCount
          /\ SizeOf(u.queues[p]) + SizeOf(pending[p].up) <= MaxQueueSize

CacheInv ==
    /\ DOMAIN u.count = ParaIds /\ DOMAIN u.size = ParaIds
    /\ \A p \in ParaIds : Cached(p) /\ Limited(p)

\* At genesis every queue is empty (the storage of the ump pallet, ump.rs).
LEMMA CacheInit == SizeFacts /\ Init => CacheInv
<1>. SUFFICES ASSUME SizeFacts, Init PROVE CacheInv
  OBVIOUS
<1>1. DOMAIN u.count = ParaIds /\ DOMAIN u.size = ParaIds
  BY DEF Init, UmpInit
<1>2. \A p \in ParaIds : /\ u.queues[p] = <<>> /\ u.count[p] = 0 /\ u.size[p] = 0
                         /\ ~pending[p].here
  BY Zenon DEF Init, UmpInit, NoCandidate
<1>3. Len(<<>>) = 0 /\ SizeOf(<<>>) = 0 /\ 0 <= MaxQueueCount /\ 0 <= MaxQueueSize
  BY UmpAssumption DEF SizeFacts
<1>4. \A p \in ParaIds : Cached(p) /\ Limited(p)
  BY Zenon, <1>2, <1>3 DEF Cached, Limited
<1>. QED  BY Zenon, <1>1, <1>4 DEF CacheInv

\* A step that leaves the queues alone keeps the caches, and the limits of every
\* para whose pending candidate it keeps or drops.
LEMMA CacheKept ==
    ASSUME CacheInv, u'.queues = u.queues, u'.count = u.count, u'.size = u.size,
           \A p \in ParaIds : pending'[p] = pending[p] \/ ~pending'[p].here
    PROVE  CacheInv'
<1>1. \A p \in ParaIds : Cached(p)' /\ Limited(p)'
  BY Zenon DEF CacheInv, Cached, Limited
<1>. QED  BY Zenon, <1>1 DEF CacheInv

\* receive_upward_messages adds what check_upward_messages had room for.
LEMMA CacheEnact ==
    ASSUME SizeFacts, RoundInv, CacheInv, NEW p \in ParaIds, enact_candidate(p)
    PROVE  CacheInv'
<1>. DEFINE up == pending[p].up
            q == u.queues[p]
<1>1. /\ pending' = [pending EXCEPT ![p] = NoCandidate]
      /\ receive_upward_messages(p, up)
      /\ pending[p].here
  BY Zenon DEF enact_candidate
<1>2. \A r \in ParaIds : pending'[r] = pending[r] \/ ~pending'[r].here
  BY <1>1 DEF RoundInv, UpwardTypeOK, NoCandidate
<1>3. CASE up = <<>>
  <2>1. u' = u
    BY Zenon, <1>1, <1>3 DEF receive_upward_messages
  <2>. QED  BY Zenon, <1>2, <2>1, CacheKept
<1>4. CASE up # <<>>
  <2>1. /\ u'.queues = [u.queues EXCEPT ![p] = q \o up]
        /\ u'.count = [u.count EXCEPT ![p] = u.count[p] + Len(up)]
        /\ u'.size = [u.size EXCEPT ![p] = u.size[p] + SizeOf(up)]
    BY ZenonT(30), <1>1, <1>4 DEF receive_upward_messages, RoundInv, UpwardTypeOK
  <2>2. q \in Seq(UpwardMessages) /\ up \in Seq(UpwardMessages)
    BY DEF RoundInv, UpwardTypeOK
  <2>3. Len(q \o up) = Len(q) + Len(up) /\ SizeOf(q \o up) = SizeOf(q) + SizeOf(up)
    BY <2>2 DEF SizeFacts
  <2>4. ~pending'[p].here
    BY <1>1 DEF RoundInv, UpwardTypeOK, NoCandidate
  <2>5. Cached(p) /\ Limited(p) /\ DOMAIN u.count = ParaIds /\ DOMAIN u.size = ParaIds
        /\ DOMAIN u.queues = ParaIds
    BY DEF CacheInv, RoundInv, UpwardTypeOK
  <2>6. /\ u'.queues[p] = q \o up
        /\ u'.count[p] = u.count[p] + Len(up)
        /\ u'.size[p] = u.size[p] + SizeOf(up)
    BY Zenon, <2>1, <2>5
  <2>7. Cached(p)' /\ Limited(p)'
    BY Zenon, <1>1, <2>3, <2>4, <2>5, <2>6 DEF Cached, Limited
  <2>8. ASSUME NEW r \in ParaIds, r # p PROVE Cached(r)' /\ Limited(r)'
    <3>1. /\ u'.queues[r] = u.queues[r] /\ u'.count[r] = u.count[r]
          /\ u'.size[r] = u.size[r] /\ (pending'[r] = pending[r] \/ ~pending'[r].here)
      BY Zenon, <1>2, <2>1, <2>5, <2>8
    <3>. QED  BY Zenon, <3>1 DEF CacheInv, Cached, Limited
  <2>9. DOMAIN u'.count = ParaIds /\ DOMAIN u'.size = ParaIds
    BY Zenon, <2>1, <2>5
  <2>. QED  BY Zenon, <2>7, <2>8, <2>9 DEF CacheInv
<1>. QED  BY <1>3, <1>4

\* A candidate is accepted only if its messages fit into the queue as it is now.
LEMMA CacheAccept ==
    ASSUME SizeFacts, RoundInv, CacheInv, NEW p \in ParaIds, process_candidates(p)
    PROVE  CacheInv'
<1>1. PICK up \in Bundles[p], down \in 0 .. MaxDownward :
         /\ check_upward_messages(p, up)
         /\ pending' = [pending EXCEPT ![p] = [up |-> up, down |-> down, here |-> TRUE]]
  BY Zenon DEF process_candidates
<1>2. u' = u
  BY Zenon DEF process_candidates, umpVars
<1>3. pending'[p].up = up /\ \A r \in ParaIds : r # p => pending'[r] = pending[r]
  BY <1>1 DEF RoundInv, UpwardTypeOK
<1>4. Limited(p)'
  BY Zenon, <1>1, <1>2, <1>3 DEF check_upward_messages, CacheInv, Cached, Limited
<1>5. \A r \in ParaIds : Cached(r)' /\ (r # p => Limited(r)')
  BY Zenon, <1>2, <1>3 DEF CacheInv, Cached, Limited
<1>. QED  BY Zenon, <1>2, <1>4, <1>5 DEF CacheInv

\* A turn of the dispatch takes the front message, and its size, out of one
\* queue: the saturating_sub of the cached size never saturates.
LEMMA CacheTurn ==
    ASSUME SizeFacts, RoundInv, CacheInv, DispatchTurn, UNCHANGED pending,
           NEW p, p = loop.cursor
    PROVE  CacheInv'
<1>. DEFINE q == u.queues[p]
            left == Tail(q)
<1>1. p \in ParaIds /\ q \in Seq(UpwardMessages) /\ q # <<>> /\ DOMAIN u.queues = ParaIds
  BY SMTT(30) DEF RoundInv, UpwardTypeOK, CursorOK, DispatchTurn, TurnRuns
<1>2. Cached(p) /\ Limited(p) /\ DOMAIN u.count = ParaIds /\ DOMAIN u.size = ParaIds
  BY <1>1 DEF CacheInv
<1>3. /\ u'.queues = [u.queues EXCEPT ![p] = left]
      /\ u'.count = [u.count EXCEPT ![p] = Len(left)]
      /\ u'.size = [u.size EXCEPT ![p] = IF left = <<>> THEN 0
                                         ELSE Max({0, u.size[p] - Head(q).size})]
  BY ZenonT(30) DEF RoundInv, UpwardTypeOK, DispatchTurn, Consume, stash_overweight
<1>4. /\ left \in Seq(UpwardMessages) /\ Len(left) <= Len(q)
      /\ Head(q).size \in Nat /\ SizeOf(q) = Head(q).size + SizeOf(left)
      /\ SizeOf(left) \in Nat /\ SizeOf(<<>>) = 0
  <2>1. left \in Seq(UpwardMessages) /\ Len(left) <= Len(q)
    <3>. HIDE DEF q
    <3>. QED  BY <1>1
  <2>. HIDE DEF q
  <2>. QED  BY Zenon, <1>1, <2>1 DEF SizeFacts
<1>. HIDE DEF left, q
<1>5. (IF left = <<>> THEN 0 ELSE Max({0, u.size[p] - Head(q).size})) = SizeOf(left)
  <2>1. u.size[p] - Head(q).size = SizeOf(left)
    BY <1>2, <1>4 DEF Cached, q
  <2>2. Max({0, SizeOf(left)}) = SizeOf(left)
    <3>1. \A n \in Nat : Max({0, n}) = n
      BY DEF Max
    <3>. QED  BY <1>4, <3>1
  <2>. QED  BY Zenon, <1>4, <2>1, <2>2
<1>6. /\ u'.queues[p] = left /\ u'.count[p] = Len(left) /\ u'.size[p] = SizeOf(left)
  BY Zenon, <1>1, <1>2, <1>3, <1>5
<1>7. Cached(p)'
  BY Zenon, <1>6 DEF Cached
<1>8. Limited(p)'
  <2>1. /\ Len(q) <= MaxQueueCount /\ SizeOf(q) <= MaxQueueSize
        /\ pending[p].here => /\ Len(q) + Len(pending[p].up) <= MaxQueueCount
                              /\ SizeOf(q) + SizeOf(pending[p].up) <= MaxQueueSize
    BY Zenon, <1>2 DEF Limited, q
  <2>2. /\ Len(pending[p].up) \in Nat /\ SizeOf(pending[p].up) \in Nat
        /\ Len(q) \in Nat /\ Len(left) \in Nat
        /\ MaxQueueCount \in Nat /\ MaxQueueSize \in Nat
    <3>1. pending[p].up \in Seq(UpwardMessages)
      BY <1>1 DEF RoundInv, UpwardTypeOK
    <3>2. SizeOf(pending[p].up) \in Nat
      BY Zenon, <3>1 DEF SizeFacts
    <3>3. Len(pending[p].up) \in Nat /\ Len(q) \in Nat
      BY <1>1, <3>1 DEF q
    <3>4. Len(left) \in Nat
      BY <1>4
    <3>. QED  BY Zenon, <3>2, <3>3, <3>4, UmpAssumption
  <2>3. /\ Len(left) <= MaxQueueCount /\ SizeOf(left) <= MaxQueueSize
        /\ pending[p].here => /\ Len(left) + Len(pending[p].up) <= MaxQueueCount
                              /\ SizeOf(left) + SizeOf(pending[p].up) <= MaxQueueSize
    <3>1. \A a, b, x, y \in Nat : a <= b /\ b + x <= y => a + x <= y
      OBVIOUS
    <3>2. \A a, b, y \in Nat : a <= b /\ b <= y => a <= y
      OBVIOUS
    <3>3. SizeOf(q) \in Nat /\ SizeOf(left) <= SizeOf(q)
      BY <1>4
    <3>. QED  BY Zenon, <1>4, <2>1, <2>2, <3>1, <3>2, <3>3
  <2>. QED  BY Zenon, <1>6, <2>3 DEF Limited
<1>9. ASSUME NEW r \in ParaIds, r # p PROVE Cached(r)' /\ Limited(r)'
  <2>1. /\ u'.queues[r] = u.queues[r] /\ u'.count[r] = u.count[r] /\ u'.size[r] = u.size[r]
    BY Zenon, <1>1, <1>2, <1>3, <1>9
  <2>. QED  BY Zenon, <2>1 DEF CacheInv, Cached, Limited
<1>10. DOMAIN u'.count = ParaIds /\ DOMAIN u'.size = ParaIds
  BY Zenon, <1>2, <1>3
<1>. QED  BY Zenon, <1>7, <1>8, <1>9, <1>10 DEF CacheInv

\* clean_ump_after_outgoing empties queue and caches together.
LEMMA CacheSession ==
    ASSUME SizeFacts, RoundInv, CacheInv, NEW outgoing, NEW incoming,
           apply_new_session(outgoing, incoming)
    PROVE  CacheInv'
<1>1. /\ pending' = [p \in ParaIds |-> NoCandidate]
      /\ clean_ump_after_outgoing(outgoing)
  BY Zenon DEF apply_new_session
<1>2. /\ u'.queues = Without(u.queues, outgoing, <<>>)
      /\ u'.count = Without(u.count, outgoing, 0)
      /\ u'.size = Without(u.size, outgoing, 0)
  BY Zenon, <1>1 DEF clean_ump_after_outgoing, RoundInv, UpwardTypeOK
<1>3. \A p \in ParaIds : ~pending'[p].here
  BY <1>1 DEF NoCandidate
<1>4. Len(<<>>) = 0 /\ SizeOf(<<>>) = 0 /\ 0 <= MaxQueueCount /\ 0 <= MaxQueueSize
  BY UmpAssumption DEF SizeFacts
<1>5. ASSUME NEW p \in ParaIds PROVE Cached(p)' /\ Limited(p)'
  <2>1. CASE p \in outgoing
    <3>1. u'.queues[p] = <<>> /\ u'.count[p] = 0 /\ u'.size[p] = 0
      BY Zenon, <1>2, <2>1 DEF Without
    <3>. QED  BY Zenon, <1>3, <1>4, <3>1 DEF Cached, Limited
  <2>2. CASE p \notin outgoing
    <3>1. u'.queues[p] = u.queues[p] /\ u'.count[p] = u.count[p] /\ u'.size[p] = u.size[p]
      BY Zenon, <1>2, <2>2 DEF Without
    <3>. QED  BY Zenon, <1>3, <3>1 DEF CacheInv, Cached, Limited
  <2>. QED  BY Zenon, <2>1, <2>2
<1>6. DOMAIN u'.count = ParaIds /\ DOMAIN u'.size = ParaIds
  BY Zenon, <1>2 DEF Without
<1>. QED  BY Zenon, <1>5, <1>6 DEF CacheInv

\* Every step keeps the caches and the limits.
LEMMA CacheStep == SizeFacts /\ RoundInv /\ CacheInv /\ [Next]_vars => CacheInv'
<1>. SUFFICES ASSUME SizeFacts, RoundInv, CacheInv, [Next]_vars PROVE CacheInv'
  OBVIOUS
<1>1. ASSUME NEW p \in ParaIds, enact_candidate(p) PROVE CacheInv'
  BY Zenon, <1>1, CacheEnact
<1>2. ASSUME NEW p \in ParaIds, process_candidates(p) PROVE CacheInv'
  BY Zenon, <1>2, CacheAccept
<1>3. ASSUME NEW p \in ParaIds, collect_pending(p) PROVE CacheInv'
  <2>1. u' = u /\ pending' = [pending EXCEPT ![p] = NoCandidate]
    BY Zenon, <1>3 DEF collect_pending, umpVars
  <2>2. \A r \in ParaIds : pending'[r] = pending[r] \/ ~pending'[r].here
    BY <2>1 DEF RoundInv, UpwardTypeOK, NoCandidate
  <2>. QED  BY Zenon, <2>1, <2>2, CacheKept
<1>4. ASSUME Dispatch PROVE CacheInv'
  <2>1. pending' = pending
    BY Zenon, <1>4 DEF Dispatch
  <2>2. CASE BeginDispatch
    BY Zenon, <2>1, <2>2, CacheKept DEF BeginDispatch
  <2>3. CASE DispatchTurn
    <3>1. PICK p : p = loop.cursor
      OBVIOUS
    <3>. QED  BY Zenon, <2>1, <2>3, <3>1, CacheTurn
  <2>4. CASE EndDispatch
    <3>1. u'.queues = u.queues /\ u'.count = u.count /\ u'.size = u.size
      BY Zenon, <2>4 DEF EndDispatch, RoundInv, UpwardTypeOK
    <3>. QED  BY Zenon, <2>1, <3>1, CacheKept
  <2>. QED  BY Zenon, <1>4, <2>2, <2>3, <2>4 DEF Dispatch
<1>5. ASSUME ServiceOverweight PROVE CacheInv'
  <2>1. pending' = pending /\ \E entry \in u.overweight : u' = [u EXCEPT !.overweight = @ \ {entry}]
    BY Zenon, <1>5 DEF ServiceOverweight, service_overweight
  <2>2. u'.queues = u.queues /\ u'.count = u.count /\ u'.size = u.size
    BY Zenon, <2>1 DEF RoundInv, UpwardTypeOK
  <2>. QED  BY Zenon, <2>1, <2>2, CacheKept
<1>6. ASSUME NEW outgoing \in SUBSET live, NEW incoming \in SUBSET (ParaIds \ live),
             apply_new_session(outgoing, incoming)
      PROVE  CacheInv'
  BY Zenon, <1>6, CacheSession
<1>7. ASSUME Schedule \/ EndBlock \/ (\E p \in Recipients : SendDownward(p)) \/ UNCHANGED vars
      PROVE  CacheInv'
  <2>1. u' = u /\ pending' = pending
    BY Zenon, <1>7 DEF Schedule, EndBlock, SendDownward, umpVars, vars
  <2>. QED  BY Zenon, <2>1, CacheKept
<1>. QED  BY Zenon, <1>1, <1>2, <1>3, <1>4, <1>5, <1>6, <1>7 DEF Next

-----------------------------------------------------------------------------
(* Sizes of queues.                                                        *)

INSTANCE FoldTheorems

\* The size of a message is a number.
LEMMA MessageSize == \A m \in UpwardMessages : m.size \in Nat
  BY UmpAssumption

\* The size of a queue is the sum over its positions.
LEMMA SizeSum ==
    ASSUME NEW s \in Seq(UpwardMessages), NEW f, \A i \in 1 .. Len(s) : f[i] = s[i].size
    PROVE  /\ \A i \in 1 .. Len(s) : f[i] \in Nat
           /\ SizeOf(s) = SumFunctionOnSet(f, 1 .. Len(s))
           /\ SizeOf(s) \in Nat
<1>. DEFINE g == [i \in DOMAIN s |-> s[i].size]
<1>1. DOMAIN s = 1 .. Len(s) /\ Len(s) \in Nat
  OBVIOUS
<1>2. \A i \in 1 .. Len(s) : f[i] \in Nat /\ g[i] = f[i]
  BY <1>1, MessageSize
<1>3. IsFiniteSet(1 .. Len(s))
  BY <1>1, UpTo
<1>4. SizeOf(s) = SumFunctionOnSet(g, DOMAIN s)
  BY DEF SizeOf
<1>. HIDE DEF g
<1>5. SumFunctionOnSet(g, 1 .. Len(s)) = SumFunctionOnSet(f, 1 .. Len(s))
  BY <1>2, <1>3, SumSame
<1>6. SumFunctionOnSet(f, 1 .. Len(s)) \in Nat
  BY <1>2, <1>3, SumType
<1>. QED  BY Zenon, <1>1, <1>2, <1>4, <1>5, <1>6

\* The sizes of two queues add up when one is put after the other
\* (receive_upward_messages).
LEMMA SizeConcat ==
    ASSUME NEW s \in Seq(UpwardMessages), NEW t \in Seq(UpwardMessages)
    PROVE  SizeOf(s \o t) = SizeOf(s) + SizeOf(t)
<1>. DEFINE m == Len(s)
            n == Len(t)
            r == s \o t
            f == [i \in 1 .. m + n |-> r[i].size]
            g == [i \in 1 .. n |-> t[i].size]
            S == 1 .. m + n
            T == 1 .. m
            R == S \ T
            b == [i \in 1 .. n |-> m + i]
<1>1. m \in Nat /\ n \in Nat
  OBVIOUS
<1>2. /\ r \in Seq(UpwardMessages) /\ Len(r) = m + n
      /\ \A i \in 1 .. m : r[i] = s[i]
      /\ \A i \in 1 .. n : r[m + i] = t[i]
  OBVIOUS
<1>. HIDE DEF m, n, r
<1>3. /\ T \in SUBSET S /\ \A i \in 1 .. n : m + i \in S
      /\ \A j \in R : j - m \in 1 .. n /\ m + (j - m) = j
      /\ \A i \in 1 .. n : m + i \in R
  BY <1>1
<1>4. \A i \in S : f[i] = r[i].size
  OBVIOUS
<1>5. \A i \in T : f[i] = s[i].size
  BY Zenon, <1>2, <1>3
<1>6. \A i \in 1 .. n : g[i] = t[i].size /\ f[m + i] = t[i].size /\ b[i] = m + i
  BY Zenon, <1>2, <1>3
<1>7. b \in Bijection(1 .. n, R)
  <2>1. b \in [1 .. n -> R]
    BY Zenon, <1>3
  <2>2. \A i, j \in 1 .. n : b[i] = b[j] => i = j
    BY <1>1
  <2>3. \A j \in R : \E i \in 1 .. n : b[i] = j
    BY Zenon, <1>3
  <2>. HIDE DEF b, R
  <2>. QED  BY Zenon, <2>1, <2>2, <2>3 DEF Bijection, Injection, Surjection, IsInjective
<1>. HIDE DEF f, g, b
<1>8. /\ \A i \in S : f[i] \in Nat
      /\ SizeOf(r) = SumFunctionOnSet(f, S)
  BY Zenon, <1>2, <1>4, SizeSum
<1>9. SizeOf(s) = SumFunctionOnSet(f, T)
  BY Zenon, <1>5, SizeSum DEF m
<1>10. SizeOf(t) = SumFunctionOnSet(g, 1 .. n) /\ \A i \in 1 .. n : g[i] \in Nat
  BY Zenon, <1>6, SizeSum DEF n
<1>11. IsFiniteSet(S) /\ IsFiniteSet(1 .. n)
  BY <1>1, UpTo
<1>12. \A i \in 1 .. n : f[b[i]] \in Nat /\ g[i] = f[b[i]]
  BY Zenon, <1>6, <1>10
<1>. HIDE DEF S, T, R
<1>13. SumFunctionOnSet(f, S) = SumFunctionOnSet(f, T) + SumFunctionOnSet(f, S \ T)
  BY <1>3, <1>8, <1>11, SumSplit
<1>14. SumFunctionOnSet(g, 1 .. n) = SumFunctionOnSet(f, R)
  <2>. DEFINE N == 1 .. n
  <2>. HIDE DEF N
  <2>1. IsFiniteSet(N) /\ b \in Bijection(N, R) /\ \A i \in N : f[b[i]] \in Nat /\ g[i] = f[b[i]]
    BY Zenon, <1>7, <1>11, <1>12 DEF N
  <2>2. SumFunctionOnSet(g, N) = SumFunctionOnSet(f, R)
    BY SMTT(30), <2>1, SumMoved
  <2>. QED  BY Zenon, <2>2 DEF N
<1>. QED  BY Zenon, <1>8, <1>9, <1>10, <1>13, <1>14 DEF r, R

\* An empty queue has no bytes.
LEMMA SizeEmpty == SizeOf(<<>>) = 0
<1>1. DOMAIN <<>> = {}
  OBVIOUS
<1>. QED  BY <1>1, SumEmpty DEF SizeOf

\* The front message takes its own size with it (Consume).
LEMMA SizeTail ==
    ASSUME NEW s \in Seq(UpwardMessages), s # <<>>
    PROVE  Head(s).size \in Nat /\ SizeOf(s) = Head(s).size + SizeOf(Tail(s))
<1>1. /\ Head(s) \in UpwardMessages /\ Tail(s) \in Seq(UpwardMessages)
      /\ <<Head(s)>> \in Seq(UpwardMessages) /\ <<Head(s)>> \o Tail(s) = s
  OBVIOUS
<1>2. SizeOf(s) = SizeOf(<<Head(s)>>) + SizeOf(Tail(s))
  BY Zenon, <1>1, SizeConcat
<1>3. SizeOf(<<Head(s)>>) = Head(s).size
  <2>. DEFINE x == Head(s)
              f == [i \in 1 .. 1 |-> x.size]
              e == [i \in {} |-> 0]
  <2>1. /\ Len(<<x>>) = 1 /\ 1 .. 1 = {1} /\ {1} = {} \cup {1} /\ f[1] = x.size
        /\ \A i \in 1 .. 1 : f[i] = <<x>>[i].size
    OBVIOUS
  <2>2. x.size \in Nat
    BY <1>1, MessageSize
  <2>. HIDE DEF x, f
  <2>3. SizeOf(<<x>>) = SumFunctionOnSet(f, 1 .. Len(<<x>>))
    BY Zenon, <1>1, <2>1, SizeSum DEF x
  <2>4. SumFunctionOnSet(f, {} \cup {1}) = f[1] + SumFunctionOnSet(f, {})
    BY Zenon, <2>1, <2>2, SumAdd, FS_EmptySet
  <2>5. SumFunctionOnSet(f, {}) = 0
    BY SumEmpty
  <2>. QED  BY <2>1, <2>2, <2>3, <2>4, <2>5 DEF x
<1>. QED  BY Zenon, <1>1, <1>2, <1>3, MessageSize

\* What the steps assume of sizes is true.
LEMMA SizeFactsHold == SizeFacts
<1>1. \A s \in Seq(UpwardMessages) : SizeOf(s) \in Nat
  <2>. TAKE s \in Seq(UpwardMessages)
  <2>. DEFINE f == [i \in 1 .. Len(s) |-> s[i].size]
  <2>1. \A i \in 1 .. Len(s) : f[i] = s[i].size
    OBVIOUS
  <2>. HIDE DEF f
  <2>. QED  BY Zenon, <2>1, SizeSum
<1>. QED  BY Zenon, <1>1, SizeEmpty, SizeConcat, SizeTail DEF SizeFacts

\* The inductive invariant holds in every reachable state.
LEMMA CacheInvHolds == Spec => [](RoundInv /\ CacheInv)
<1>1. Init => RoundInv /\ CacheInv
  BY Zenon, SizeFactsHold, RoundInit, CacheInit
<1>2. RoundInv /\ CacheInv /\ [Next]_vars => (RoundInv /\ CacheInv)'
  BY Zenon, SizeFactsHold, RoundStep, CacheStep
<1>. QED  BY <1>1, <1>2, PTL DEF Spec

\* For any paras, messages and limits, NeedsDispatch lists the paras with a queue
\* and RelayDispatchQueueSize is the count and the size of what is queued,
\* through receive_upward_messages, the dispatch with its QueueCache, and
\* clean_ump_after_outgoing (ump.rs).
THEOREM CachesAreExact == Spec => []CachesMatchQueues
<1>1. RoundInv /\ CacheInv => CachesMatchQueues
  BY Zenon DEF CacheInv, Cached, RoundInv, UpwardTypeOK, CachesMatchQueues
<1>. QED  BY <1>1, CacheInvHolds, PTL

\* For any limits, no queue of upward messages outgrows max_upward_queue_count or
\* max_upward_queue_size: what check_upward_messages saw room for still has it
\* when receive_upward_messages runs, blocks later.
THEOREM QueuesStayWithinLimits == Spec => []QueuesWithinLimits
<1>1. CacheInv => QueuesWithinLimits
  BY Zenon DEF CacheInv, Limited, QueuesWithinLimits
<1>. QED  BY <1>1, CacheInvHolds, PTL

=============================================================================

-------------------------------- MODULE Ping --------------------------------
(***************************************************************************)
(* The pallet ping (Spambot), once per parachain.  At the end of each      *)
(* block a chain pings its targets over XCM; a pinged chain answers with a *)
(* pong, and the pong takes the record of its ping out of Pings.  A pong   *)
(* is matched to a ping by the sequence number alone.                      *)
(*                                                                         *)
(* The payload is echoed and never read; it is left out.  Messages carry   *)
(* two fields the code's messages do not have, `from` and `at` (the chain  *)
(* that sent the ping, and in which block): no action reads them, they     *)
(* let the properties say which ping a number stands for.                  *)
(***************************************************************************)
EXTENDS Integers, Sequences, SequencesExt

CONSTANTS
    Paras,          \* the parachains, all with this runtime
    UnpaidParas,    \* the siblings the barrier lists
    CountMod,         \* 2^32 in the code: PingCount is a u32
    None            \* the None of an OptionQuery

Seqs == 0 .. CountMod - 1

ASSUME PingAssumption ==
    /\ CountMod \in Nat \ {0}
    /\ UnpaidParas \subseteq Paras
    /\ None \notin Nat

VARIABLES
    block,          \* para -> the block being built
    Targets,        \* para -> the chains to ping, with repetitions
    PingCount,      \* para -> the last number used
    Pings,          \* para -> number -> block of the ping, or None
    channels,       \* the open HRMP channels
    queue,          \* <<sender, recipient>> -> messages on their way
    overwritten     \* history: chains that lost a record to a new ping

pingVars == <<Targets, PingCount, Pings>>
vars == <<block, Targets, PingCount, Pings, channels, queue, overwritten>>

Messages == [kind : {"ping", "pong"}, seq : Seqs, from : Paras, at : Nat]

\* Type invariant: numbers stay within a u32, records are blocks.
TypeOK ==
    /\ block \in [Paras -> Nat]
    /\ Targets \in [Paras -> Seq(Paras)]
    /\ PingCount \in [Paras -> Seqs]
    /\ Pings \in [Paras -> [Seqs -> Nat \cup {None}]]
    /\ channels \subseteq Paras \X Paras
    /\ queue \in [Paras \X Paras -> Seq(Messages)]
    /\ overwritten \subseteq Paras

Init ==
    /\ block = [p \in Paras |-> 1]
    /\ Targets = [p \in Paras |-> <<>>]
    /\ PingCount = [p \in Paras |-> 0]
    /\ Pings = [p \in Paras |-> [s \in Seqs |-> None]]
    /\ channels = {}
    /\ queue = [c \in Paras \X Paras |-> <<>>]
    /\ overwritten = {}
-----------------------------------------------------------------------------
\* build_HRMP_channel.js: one direction per run.
OpenChannel(sender, recipient) ==
    /\ sender # recipient
    /\ channels' = channels \cup {<<sender, recipient>>}
    /\ UNCHANGED <<block, Targets, PingCount, Pings, queue, overwritten>>

\* send_xcm answers Ok exactly when there is a channel.
SendOk(sender, recipient) == <<sender, recipient>> \in channels

\* Calls of the root account.
SetTargets(p, targets) ==
    /\ Targets' = [Targets EXCEPT ![p] = targets]
    /\ UNCHANGED <<block, PingCount, Pings, channels, queue, overwritten>>

start(p, para) == SetTargets(p, Append(Targets[p], para))

start_many(p, para, count) ==
    SetTargets(p, Targets[p] \o [i \in 1 .. count |-> para])

\* Vec::swap_remove: the last element takes the place of the removed one.
SwapRemove(s, i) == Front([s EXCEPT ![i] = Last(s)])

\* The first entry for the chain goes; without one the call does nothing.
stop(p, para) ==
    LET found == {i \in DOMAIN Targets[p] : Targets[p][i] = para} IN
    SetTargets(p, IF found = {} THEN Targets[p]
                  ELSE SwapRemove(Targets[p], CHOOSE i \in found : \A j \in found : i <= j))

\* With a chain: its entries go; with None: all of them.
stop_all(p, maybe_para) ==
    SetTargets(p, IF maybe_para = None THEN <<>>
                  ELSE SelectSeq(Targets[p], LAMBDA t : t # maybe_para))
-----------------------------------------------------------------------------
\* `*seq += 1` for the i-th target of a block; a release build wraps.
PingSeq(p, i) == (PingCount[p] + i) % CountMod

\* Pings::insert(seq, n)
PingBlock(p) == block[p]

\* The end of a block: every target is pinged.  The number is used up and
\* the loop goes on whether or not the send succeeds; only a ping that was
\* sent leaves a record.
on_finalize(p) ==
    LET targets == Targets[p]
        sent    == {i \in DOMAIN targets : SendOk(p, targets[i])}
        used    == {PingSeq(p, i) : i \in sent}
        pings   == [i \in DOMAIN targets |->
                       [to |-> targets[i],
                        msg |-> [kind |-> "ping", seq |-> PingSeq(p, i),
                                 from |-> p, at |-> block[p]]]]
        to(q)   == LET for == SelectSeq(pings, LAMBDA m : m.to = q) IN
                   [i \in DOMAIN for |-> for[i].msg]
    IN
    /\ PingCount' = [PingCount EXCEPT ![p] = PingSeq(p, Len(targets))]
    /\ Pings' = [Pings EXCEPT ![p] =
          [s \in Seqs |-> IF s \in used THEN PingBlock(p) ELSE @[s]]]
    /\ queue' = [c \in Paras \X Paras |->
          IF c[1] = p /\ SendOk(p, c[2]) THEN queue[c] \o to(c[2]) ELSE queue[c]]
    /\ overwritten' = IF \/ \E s \in used : Pings[p][s] # None
                         \/ \E i, j \in sent : i # j /\ PingSeq(p, i) = PingSeq(p, j)
                      THEN overwritten \cup {p} ELSE overwritten
    /\ block' = [block EXCEPT ![p] = @ + 1]
    /\ UNCHANGED <<Targets, channels>>

\* The queue without the message q has just taken from p, and with the pong
\* q sends back, if any.
QueueAfter(p, q, pong) ==
    LET rest == [queue EXCEPT ![<<p, q>>] = Tail(@)] IN
    [rest EXCEPT ![<<q, p>>] = @ \o pong]

\* q executes a ping from p: it answers if there is a channel back.  The
\* barrier refuses a chain it does not list; the message is gone either way.
ping(p, q) ==
    /\ queue[<<p, q>>] # <<>>
    /\ LET m == Head(queue[<<p, q>>]) IN
       /\ m.kind = "ping"
       /\ queue' = QueueAfter(p, q,
             IF p \in UnpaidParas /\ SendOk(q, p)
             THEN <<[m EXCEPT !.kind = "pong"]>> ELSE <<>>)
    /\ UNCHANGED <<block, Targets, PingCount, Pings, channels, overwritten>>

\* Mutant: the record stays.
RecordKept(q, seq) == UNCHANGED Pings

\* Mutant: the record of the next number is taken.
TakeNextRecord(q, seq) == Pings' = [Pings EXCEPT ![q][(seq + 1) % CountMod] = None]

\* Pings::take: the event is Ponged if there was a record, else UnknownPong.
TakePing(q, seq) == Pings' = [Pings EXCEPT ![q][seq] = None]

\* q executes a pong from p.
pong(p, q) ==
    /\ queue[<<p, q>>] # <<>>
    /\ LET m == Head(queue[<<p, q>>]) IN
       /\ m.kind = "pong"
       /\ \/ p \in UnpaidParas /\ TakePing(q, m.seq)
          \/ p \notin UnpaidParas /\ UNCHANGED Pings
    /\ queue' = QueueAfter(p, q, <<>>)
    /\ UNCHANGED <<block, Targets, PingCount, channels, overwritten>>

Next ==
    \/ \E p, q \in Paras : OpenChannel(p, q)
    \/ \E p, q \in Paras : start(p, q)
    \/ \E p, q \in Paras : \E n \in Seqs : start_many(p, q, n)
    \/ \E p, q \in Paras : stop(p, q)
    \/ \E p \in Paras, q \in Paras \cup {None} : stop_all(p, q)
    \/ \E p \in Paras : on_finalize(p)
    \/ \E p, q \in Paras : ping(p, q)
    \/ \E p, q \in Paras : pong(p, q)

Spec == Init /\ [][Next]_vars

\* The relay chain delivers, and the queue of a chain is serviced in each of
\* its blocks.  No call of the root account has to happen.
Fairness ==
    \A p \in Paras : \A q \in Paras \ {p} : WF_vars(ping(p, q)) /\ WF_vars(pong(p, q))

FairSpec == Spec /\ Fairness
-----------------------------------------------------------------------------
\* The pings of p on their way, as pings or as pongs, with the chain that
\* answers: an element is <<that chain, the position, the message>>.
OnTheWay(p) ==
    UNION {{<<q, "out", i, queue[<<p, q>>][i]>> : i \in
               {j \in DOMAIN queue[<<p, q>>] : queue[<<p, q>>][j].kind = "ping"}}
           \cup
           {<<q, "back", i, queue[<<q, p>>][i]>> : i \in
               {j \in DOMAIN queue[<<q, p>>] : queue[<<q, p>>][j].kind = "pong"}}
           : q \in Paras}

\* As long as no new ping took the number of an unanswered one, a number
\* names one ping: whatever is on its way finds the record of exactly its
\* own ping, so the Ponged event reports the round trip of that ping, and
\* UnknownPong ("a ping we apparently didn't send?!") is never deposited; the
\* record is from an earlier block, so that the saturating subtraction of the
\* round trip never saturates.  The pong handler compares the number only.
PongFindsItsPing ==
    \A p \in Paras \ overwritten :
        \A x, y \in OnTheWay(p) :
            /\ x[4].from = p
            /\ Pings[p][x[4].seq] = x[4].at
            /\ x[4].at < block[p]
            /\ x[4].seq = y[4].seq => x = y

\* Every ping sent in block b between chains that list each other and have both
\* channels is answered: its record is taken, or a later ping took over its
\* number.  Pings that were refused or could not be answered keep their
\* record for ever.
PingAnswered(b) ==
    \A p \in UnpaidParas, s \in Seqs : \A q \in UnpaidParas \ {p} :
        (/\ SendOk(q, p)
         /\ \E i \in DOMAIN queue[<<p, q>>] :
               LET m == queue[<<p, q>>][i] IN m.kind = "ping" /\ m.seq = s /\ m.at = b)
            ~> (Pings[p][s] # b)
=============================================================================

------------------------- MODULE HrmpChannelsProofs -------------------------
(***************************************************************************)
(* Theorems about the storage of the hrmp pallet, for every set of paras,  *)
(* every configuration and any number of channels and forced calls: the    *)
(* list of requests, the two indexes and the channels agree; nothing       *)
(* survives a party; the reserves cover the deposits; the limits hold.     *)
(*                                                                         *)
(* First, what each routine does to a sound storage: one lemma says how it *)
(* changes the fields, one that the storage stays sound, one that it keeps *)
(* the limits, one that it keeps the deposits covered.  Then the actions,  *)
(* which are compositions of the routines.  What the lemmas need of        *)
(* cardinalities and sums is the assumption Arithmetic, proved at the end, *)
(* where FoldTheorems comes in.                                            *)
(***************************************************************************)
EXTENDS HrmpChannels, TLAPS

-----------------------------------------------------------------------------
(* A sound storage.                                                        *)

Requests == [confirmed : BOOLEAN, sender_deposit : Nat]
Deposits == [sender_deposit : Nat, recipient_deposit : Nat]

\* The fields of the storage.
Fields(s) ==
    s = [requests |-> s.requests, list |-> s.list, openCount |-> s.openCount,
         acceptedCount |-> s.acceptedCount, closeRequests |-> s.closeRequests,
         channels |-> s.channels, ingress |-> s.ingress, egress |-> s.egress,
         reserved |-> s.reserved]

Typed(s) ==
    /\ Fields(s)
    /\ s.requests \in [Channels -> Requests \cup {None}]
    /\ s.channels \in [Channels -> Deposits \cup {None}]
    /\ s.closeRequests \subseteq Channels
    /\ s.ingress \in [Paras -> SUBSET Paras]
    /\ s.egress \in [Paras -> SUBSET Paras]
    /\ s.openCount \in [Paras -> Nat]
    /\ s.acceptedCount \in [Paras -> Nat]
    /\ s.reserved \in [Paras -> Nat]

Indexed(s) ==
    \A c \in Channels :
        /\ c \in Open(s) <=> c[2] \in s.egress[c[1]]
        /\ c \in Open(s) <=> c[1] \in s.ingress[c[2]]

Sound(s) ==
    /\ Typed(s)
    /\ s.list = Requested(s)
    /\ Indexed(s)
    /\ Open(s) \cap Requested(s) = {}

OutOf(cs, p) == {c \in cs : c[1] = p}
Into(cs, p) == {c \in cs : c[2] = p}

\* The counters are not behind the requests, and the limits hold.
Within(s, p) ==
    /\ Cardinality(OutOf(Requested(s), p)) <= s.openCount[p]
    /\ Cardinality(Into(Confirmed(s), p)) = s.acceptedCount[p]
    /\ Cardinality(OutOf(Open(s) \cup Requested(s), p)) <= OutboundLimit[p]
    /\ Cardinality(Into(Open(s) \cup Confirmed(s), p)) <= InboundLimit[p]
Limited(s) == \A p \in Paras : Within(s, p)

\* What the storage s owes a para under the configuration cfg, per channel and
\* in all.
Due(s, cfg, p) == [c \in Channels |-> RequestDue(s, cfg, c, p) + ChannelDue(s, c, p)]
OwedIn(s, cfg, p) == SumFunctionOnSet(Due(s, cfg, p), Channels)

Covered(s, cfg) == \A p \in Paras : OwedIn(s, cfg, p) <= s.reserved[p]

\* A request and a deposit are not None (the Option types of the maps
\* HrmpOpenChannelRequests and HrmpChannels, hrmp.rs).
LEMMA NoneIsNeither == None \notin Requests /\ None \notin Deposits
  BY DEF None, Requests, Deposits

\* A channel is determined by its parties (HrmpChannelId, hrmp.rs).
LEMMA ChannelPairs ==
    /\ \A c \in Channels : c[1] \in Paras /\ c[2] \in Paras /\ c = <<c[1], c[2]>>
    /\ \A c, d \in Channels : c[1] = d[1] /\ c[2] = d[2] => c = d
  BY HrmpChannelsAssumption

\* The sets of channels and requests of a storage are sets of channels.
LEMMA SetsOfChannels ==
    ASSUME NEW s
    PROVE  /\ Open(s) \subseteq Channels /\ Requested(s) \subseteq Channels
           /\ Confirmed(s) \subseteq Requested(s) /\ Confirmed(s) \subseteq Channels
  BY DEF Open, Requested, Confirmed

-----------------------------------------------------------------------------
(* What the lemmas need of cardinalities and sums.                         *)

\* The channels of a para are counted by a natural number.
Countable ==
    /\ Cardinality({}) = 0
    /\ \A cs \in SUBSET Channels, p \in Paras :
          Cardinality(OutOf(cs, p)) \in Nat /\ Cardinality(Into(cs, p)) \in Nat

\* Fewer channels, and what is left when some are taken away.
CountFewer ==
    \A ds \in SUBSET Channels : \A cs \in SUBSET ds, p \in Paras :
        /\ Cardinality(OutOf(cs, p)) <= Cardinality(OutOf(ds, p))
        /\ Cardinality(Into(cs, p)) <= Cardinality(Into(ds, p))
        /\ Cardinality(OutOf(ds \ cs, p))
              = Cardinality(OutOf(ds, p)) - Cardinality(OutOf(cs, p))
        /\ Cardinality(Into(ds \ cs, p))
              = Cardinality(Into(ds, p)) - Cardinality(Into(cs, p))

\* One channel more.
CountOneMore ==
    \A cs \in SUBSET Channels, p \in Paras : \A c \in Channels \ cs :
        /\ Cardinality(OutOf(cs \cup {c}, p))
              = Cardinality(OutOf(cs, p)) + (IF c[1] = p THEN 1 ELSE 0)
        /\ Cardinality(Into(cs \cup {c}, p))
              = Cardinality(Into(cs, p)) + (IF c[2] = p THEN 1 ELSE 0)

\* Two sets of channels together.
CountTogether ==
    \A cs, ds \in SUBSET Channels, p \in Paras :
        /\ Cardinality(OutOf(cs \cup ds, p))
              <= Cardinality(OutOf(cs, p)) + Cardinality(OutOf(ds, p))
        /\ Cardinality(Into(cs \cup ds, p))
              <= Cardinality(Into(cs, p)) + Cardinality(Into(ds, p))

\* An index that names the other end of every channel is as long as they are
\* many.
CountIndex ==
    \A cs \in SUBSET Channels, index \in SUBSET Paras, p \in Paras :
        /\ Cardinality(index) \in Nat
        /\ (\A c \in OutOf(cs, p) : c[2] \in index)
              => Cardinality(OutOf(cs, p)) <= Cardinality(index)
        /\ (\A c \in Into(cs, p) : c[1] \in index)
              => Cardinality(Into(cs, p)) <= Cardinality(index)

SumNatural ==
    \A f, cs : cs \subseteq Channels /\ (\A c \in cs : f[c] \in Nat)
                  => SumFunctionOnSet(f, cs) \in Nat

SumZero ==
    \A f : (\A c \in Channels : f[c] = 0) => SumFunctionOnSet(f, Channels) = 0

SumMonotone ==
    \A f, g : (\A c \in Channels : f[c] \in Nat /\ g[c] \in Nat /\ g[c] <= f[c])
                 => SumFunctionOnSet(g, Channels) <= SumFunctionOnSet(f, Channels)

SumMinus ==
    \A f, g, r, cs :
        /\ cs \subseteq Channels
        /\ \A c \in Channels : f[c] \in Nat /\ g[c] \in Nat
        /\ \A c \in cs : r[c] \in Nat /\ g[c] + r[c] <= f[c]
        /\ \A c \in Channels \ cs : g[c] <= f[c]
        => SumFunctionOnSet(g, Channels) + SumFunctionOnSet(r, cs)
              <= SumFunctionOnSet(f, Channels)

SumOneChanged ==
    \A f, g : \A c \in Channels :
        /\ \A d \in Channels : f[d] \in Nat /\ g[d] \in Nat
        /\ \A d \in Channels \ {c} : g[d] = f[d]
        => SumFunctionOnSet(g, Channels) = SumFunctionOnSet(f, Channels) - f[c] + g[c]

Arithmetic ==
    /\ Countable /\ CountFewer /\ CountOneMore /\ CountTogether /\ CountIndex
    /\ SumNatural /\ SumZero /\ SumMonotone /\ SumMinus /\ SumOneChanged

\* A storage with fewer requests and channels, and counters that still fit, is
\* within the limits: whatever only removes channels and requests cannot break
\* them (close_hrmp_channel, cancel_open_request, hrmp.rs).
LEMMA FewerCounted ==
    ASSUME Arithmetic, NEW s, NEW t, Limited(s),
           Open(t) \subseteq Open(s), Requested(t) \subseteq Requested(s),
           Confirmed(t) \subseteq Confirmed(s),
           \A p \in Paras : /\ t.acceptedCount[p] = Cardinality(Into(Confirmed(t), p))
                            /\ Cardinality(OutOf(Requested(t), p)) <= t.openCount[p]
    PROVE  Limited(t)
<1>. SUFFICES ASSUME NEW p \in Paras
     PROVE  /\ Cardinality(OutOf(Open(t) \cup Requested(t), p)) <= OutboundLimit[p]
            /\ Cardinality(Into(Open(t) \cup Confirmed(t), p)) <= InboundLimit[p]
  BY Zenon DEF Limited, Within
<1>. DEFINE a == Open(s) \cup Requested(s)
            a2 == Open(t) \cup Requested(t)
            b == Open(s) \cup Confirmed(s)
            b2 == Open(t) \cup Confirmed(t)
<1>1. a \in SUBSET Channels /\ b \in SUBSET Channels /\ a2 \in SUBSET a /\ b2 \in SUBSET b
  BY SetsOfChannels
<1>2. /\ Cardinality(OutOf(a, p)) <= OutboundLimit[p]
      /\ Cardinality(Into(b, p)) <= InboundLimit[p]
  BY Zenon DEF Limited, Within
<1>. HIDE DEF a, a2, b, b2
<1>3. /\ Cardinality(OutOf(a2, p)) <= Cardinality(OutOf(a, p))
      /\ Cardinality(Into(b2, p)) <= Cardinality(Into(b, p))
  BY Zenon, <1>1 DEF Arithmetic, CountFewer
<1>4. /\ Cardinality(OutOf(a2, p)) \in Nat /\ Cardinality(OutOf(a, p)) \in Nat
      /\ Cardinality(Into(b2, p)) \in Nat /\ Cardinality(Into(b, p)) \in Nat
  BY <1>1 DEF Arithmetic, Countable
<1>5. OutboundLimit[p] \in Nat /\ InboundLimit[p] \in Nat
  BY HrmpChannelsAssumption
<1>6. Cardinality(OutOf(a2, p)) <= OutboundLimit[p] /\ Cardinality(Into(b2, p)) <= InboundLimit[p]
  BY <1>2, <1>3, <1>4, <1>5
<1>. QED  BY <1>6 DEF a2, b2

\* saturating_sub, by which the counters and unreserve decrease (hrmp.rs).
LEMMA MinusIs ==
    ASSUME NEW a \in Nat, NEW b \in Nat
    PROVE  Minus(a, b) \in Nat /\ a - b <= Minus(a, b) /\ (b <= a => Minus(a, b) = a - b)
  BY DEF Minus

\* What is owed for a channel or a request is a balance.
LEMMA DueType ==
    ASSUME NEW s, Typed(s), NEW cfg \in Configs, NEW c \in Channels, NEW p
    PROVE  /\ RequestDue(s, cfg, c, p) \in Nat /\ ChannelDue(s, c, p) \in Nat
           /\ Due(s, cfg, p)[c] = RequestDue(s, cfg, c, p) + ChannelDue(s, c, p)
           /\ Due(s, cfg, p)[c] \in Nat
<1>1. s.requests[c] # None => s.requests[c].sender_deposit \in Nat
  BY DEF Typed, Requests
<1>2. s.channels[c] # None => /\ s.channels[c].sender_deposit \in Nat
                             /\ s.channels[c].recipient_deposit \in Nat
  BY DEF Typed, Deposits
<1>3. cfg.recipient \in Nat
  BY HrmpChannelsAssumption
<1>4. RequestDue(s, cfg, c, p) \in Nat /\ ChannelDue(s, c, p) \in Nat
  BY <1>1, <1>2, <1>3 DEF RequestDue, ChannelDue
<1>. QED  BY <1>4 DEF Due

\* What close_hrmp_channel returns to a para (hrmp.rs) is a balance.
LEMMA ChannelDepositsType ==
    ASSUME Arithmetic, NEW s, Typed(s), NEW cfg \in Configs, NEW cs \in SUBSET Channels,
           NEW p \in Paras
    PROVE  ChannelDeposits(s, cs)[p] \in Nat
<1>. DEFINE f == [c \in cs |-> ChannelDue(s, c, p)]
<1>1. \A c \in cs : f[c] \in Nat
  BY DueType
<1>2. ChannelDeposits(s, cs)[p] = SumFunctionOnSet(f, cs)
  BY DEF ChannelDeposits
<1>. HIDE DEF f
<1>. QED  BY <1>1, <1>2 DEF Arithmetic, SumNatural

\* What clean_open_channel_requests returns to a para (hrmp.rs) is a balance.
LEMMA RequestDepositsType ==
    ASSUME Arithmetic, NEW s, Typed(s), NEW cfg \in Configs, NEW cs \in SUBSET Channels,
           NEW outgoing, NEW p \in Paras
    PROVE  RequestDeposits(s, cfg, cs, outgoing)[p] \in Nat
<1>. DEFINE f == [c \in cs |-> RequestDue(s, cfg, c, p)]
<1>1. \A c \in cs : f[c] \in Nat
  BY DueType
<1>2. RequestDeposits(s, cfg, cs, outgoing)[p] = IF p \in outgoing THEN 0 ELSE SumFunctionOnSet(f, cs)
  BY DEF RequestDeposits
<1>. HIDE DEF f
<1>3. SumFunctionOnSet(f, cs) \in Nat
  BY <1>1 DEF Arithmetic, SumNatural
<1>. QED  BY <1>2, <1>3

\* A step that returns to a para at most what the channels of cs owe it, and
\* that makes every other channel owe no more, leaves the rest covered
\* (close_hrmp_channel, clean_open_channel_requests, hrmp.rs).
LEMMA Repaid ==
    ASSUME Arithmetic, NEW s, NEW t, Typed(s), Typed(t), NEW cfg \in Configs, Covered(s, cfg),
           NEW cs, cs \subseteq Channels, NEW p \in Paras, NEW r,
           \A c \in cs : r[c] \in Nat /\ Due(t, cfg, p)[c] + r[c] <= Due(s, cfg, p)[c],
           \A c \in Channels \ cs : Due(t, cfg, p)[c] <= Due(s, cfg, p)[c],
           s.reserved[p] - SumFunctionOnSet(r, cs) <= t.reserved[p]
    PROVE  OwedIn(t, cfg, p) <= t.reserved[p]
<1>. DEFINE f == Due(s, cfg, p)
            g == Due(t, cfg, p)
<1>1. \A c \in Channels : f[c] \in Nat /\ g[c] \in Nat
  BY DueType
<1>. HIDE DEF f, g
<1>2. /\ \A c \in cs : r[c] \in Nat /\ g[c] + r[c] <= f[c]
      /\ \A c \in Channels \ cs : g[c] <= f[c]
  BY DEF f, g
<1>3. SumFunctionOnSet(g, Channels) + SumFunctionOnSet(r, cs) <= SumFunctionOnSet(f, Channels)
  BY <1>1, <1>2 DEF Arithmetic, SumMinus
<1>4. /\ SumFunctionOnSet(g, Channels) \in Nat /\ SumFunctionOnSet(f, Channels) \in Nat
      /\ SumFunctionOnSet(r, cs) \in Nat
  BY <1>1, <1>2 DEF Arithmetic, SumNatural
<1>5. /\ SumFunctionOnSet(f, Channels) <= s.reserved[p]
      /\ s.reserved[p] \in Nat /\ t.reserved[p] \in Nat
  BY DEF Covered, OwedIn, f, Typed
<1>. QED  BY <1>3, <1>4, <1>5 DEF OwedIn, g

\* A step that reserves or returns for one channel what it now owes more or
\* less leaves the reserves sufficient (the calls of hrmp.rs).
LEMMA Settled ==
    ASSUME Arithmetic, NEW s, NEW t, Typed(s), Typed(t), NEW cfg \in Configs, Covered(s, cfg),
           NEW p \in Paras, NEW c \in Channels,
           \A d \in Channels \ {c} : Due(t, cfg, p)[d] = Due(s, cfg, p)[d],
           Due(t, cfg, p)[c] + s.reserved[p] <= Due(s, cfg, p)[c] + t.reserved[p]
    PROVE  OwedIn(t, cfg, p) <= t.reserved[p]
<1>. DEFINE f == Due(s, cfg, p)
            g == Due(t, cfg, p)
<1>1. \A d \in Channels : f[d] \in Nat /\ g[d] \in Nat
  BY DueType
<1>. HIDE DEF f, g
<1>2. \A d \in Channels \ {c} : g[d] = f[d]
  BY DEF f, g
<1>3. SumFunctionOnSet(g, Channels) = SumFunctionOnSet(f, Channels) - f[c] + g[c]
  BY <1>1, <1>2 DEF Arithmetic, SumOneChanged
<1>4. SumFunctionOnSet(f, Channels) \in Nat
  BY <1>1 DEF Arithmetic, SumNatural
<1>5. /\ SumFunctionOnSet(f, Channels) <= s.reserved[p]
      /\ s.reserved[p] \in Nat /\ t.reserved[p] \in Nat
      /\ g[c] + s.reserved[p] <= f[c] + t.reserved[p]
  BY DEF Covered, OwedIn, f, g, Typed
<1>. QED  BY <1>1, <1>3, <1>4, <1>5 DEF OwedIn, g

\* A step that returns nothing and makes no channel owe more, also under
\* another configuration, leaves the reserves sufficient
\* (process_hrmp_open_channel_requests, hrmp.rs).
LEMMA Lighter ==
    ASSUME Arithmetic, NEW s, NEW t, Typed(s), Typed(t), NEW cfg \in Configs, Covered(s, cfg),
           NEW other \in Configs, NEW p \in Paras,
           \A c \in Channels : Due(t, other, p)[c] <= Due(s, cfg, p)[c],
           t.reserved[p] = s.reserved[p]
    PROVE  OwedIn(t, other, p) <= t.reserved[p]
<1>. DEFINE f == Due(s, cfg, p)
            g == Due(t, other, p)
<1>1. \A c \in Channels : f[c] \in Nat /\ g[c] \in Nat
  BY DueType
<1>. HIDE DEF f, g
<1>2. \A c \in Channels : g[c] <= f[c]
  BY DEF f, g
<1>3. SumFunctionOnSet(g, Channels) <= SumFunctionOnSet(f, Channels)
  BY <1>1, <1>2 DEF Arithmetic, SumMonotone
<1>4. SumFunctionOnSet(f, Channels) \in Nat /\ SumFunctionOnSet(g, Channels) \in Nat
  BY <1>1 DEF Arithmetic, SumNatural
<1>5. SumFunctionOnSet(f, Channels) <= s.reserved[p] /\ s.reserved[p] \in Nat
  BY DEF Covered, OwedIn, f, Typed
<1>. QED  BY <1>3, <1>4, <1>5 DEF OwedIn, g

-----------------------------------------------------------------------------
(* The routines.                                                           *)

\* Only the counters and the reserves of t differ from those of s.
Recounted(s, oc, ac, res, t) ==
    /\ Fields(t)
    /\ t.requests = s.requests /\ t.list = s.list
    /\ t.closeRequests = s.closeRequests /\ t.channels = s.channels
    /\ t.ingress = s.ingress /\ t.egress = s.egress
    /\ t.openCount = oc /\ t.acceptedCount = ac /\ t.reserved = res

Unreserved(s, a) == [p \in Paras |-> Minus(s.reserved[p], a[p])]
OpenLess(s, cs) == [p \in Paras |-> Minus(s.openCount[p], Cardinality(OutOf(cs, p)))]
AcceptedLess(s, cs) == [p \in Paras |-> Minus(s.acceptedCount[p], Cardinality(Into(cs, p)))]

\* T::Currency::unreserve (hrmp.rs) changes the reserves only.
LEMMA UnreserveEffect ==
    ASSUME NEW s, Fields(s), NEW a, NEW t, t = Unreserve(s, a)
    PROVE  Recounted(s, s.openCount, s.acceptedCount, Unreserved(s, a), t)
<1>1. t = [s EXCEPT !.reserved = Unreserved(s, a)]
  BY DEF Unreserve, Unreserved
<1>. QED  BY Zenon, <1>1 DEF Fields, Recounted

\* decrease_open_channel_request_count (hrmp.rs) changes one counter only.
LEMMA DecreaseOpenEffect ==
    ASSUME NEW s, Fields(s), NEW cs, NEW t, t = DecreaseOpen(s, cs)
    PROVE  Recounted(s, OpenLess(s, cs), s.acceptedCount, s.reserved, t)
<1>1. t = [s EXCEPT !.openCount = OpenLess(s, cs)]
  BY DEF DecreaseOpen, OpenLess, OutOf
<1>. QED  BY Zenon, <1>1 DEF Fields, Recounted

\* decrease_accepted_channel_request_count (hrmp.rs) changes one counter only.
LEMMA DecreaseAcceptedEffect ==
    ASSUME NEW s, Fields(s), NEW cs, NEW t, t = DecreaseAccepted(s, cs)
    PROVE  Recounted(s, s.openCount, AcceptedLess(s, cs), s.reserved, t)
<1>1. t = [s EXCEPT !.acceptedCount = AcceptedLess(s, cs)]
  BY DEF DecreaseAccepted, AcceptedLess, Into
<1>. QED  BY Zenon, <1>1 DEF Fields, Recounted

\* The reduced counters are still natural numbers.
LEMMA CountersType ==
    ASSUME Arithmetic, NEW s, Typed(s), NEW cs \in SUBSET Channels
    PROVE  OpenLess(s, cs) \in [Paras -> Nat] /\ AcceptedLess(s, cs) \in [Paras -> Nat]
<1>1. ASSUME NEW p \in Paras
      PROVE  /\ Minus(s.openCount[p], Cardinality(OutOf(cs, p))) \in Nat
             /\ Minus(s.acceptedCount[p], Cardinality(Into(cs, p))) \in Nat
  <2>1. s.openCount[p] \in Nat /\ s.acceptedCount[p] \in Nat
    BY DEF Typed
  <2>2. Cardinality(OutOf(cs, p)) \in Nat /\ Cardinality(Into(cs, p)) \in Nat
    BY DEF Arithmetic, Countable
  <2>. QED  BY Zenon, <2>1, <2>2, MinusIs
<1>. QED  BY <1>1 DEF OpenLess, AcceptedLess

\* The reduced reserves are still natural numbers, and drop by no more than is
\* returned.
LEMMA ReservesType ==
    ASSUME NEW s, Typed(s), NEW a, \A p \in Paras : a[p] \in Nat
    PROVE  /\ Unreserved(s, a) \in [Paras -> Nat]
           /\ \A p \in Paras : s.reserved[p] - a[p] <= Unreserved(s, a)[p]
<1>1. ASSUME NEW p \in Paras
      PROVE  /\ Minus(s.reserved[p], a[p]) \in Nat
             /\ s.reserved[p] - a[p] <= Minus(s.reserved[p], a[p])
  <2>1. s.reserved[p] \in Nat
    BY DEF Typed
  <2>. QED  BY Zenon, <2>1, MinusIs
<1>. QED  BY <1>1 DEF Unreserved

\* close_hrmp_channel takes the channels cs away, their index entries and their
\* deposits.
Closed(s, cs, t) ==
    /\ Fields(t)
    /\ t.requests = s.requests /\ t.list = s.list
    /\ t.closeRequests = s.closeRequests
    /\ t.openCount = s.openCount /\ t.acceptedCount = s.acceptedCount
    /\ t.channels = [c \in Channels |-> IF c \in cs THEN None ELSE s.channels[c]]
    /\ t.egress = [p \in Paras |-> s.egress[p] \ {c[2] : c \in {d \in cs : d[1] = p}}]
    /\ t.ingress = [p \in Paras |-> s.ingress[p] \ {c[1] : c \in {d \in cs : d[2] = p}}]
    /\ t.reserved = Unreserved(s, ChannelDeposits(s, cs))

\* What close_hrmp_channel (hrmp.rs) does to each field.
LEMMA CloseEffect ==
    ASSUME NEW s, Fields(s), NEW cs, NEW t, t = close_hrmp_channel(s, cs)
    PROVE  Closed(s, cs, t)
<1>. DEFINE v == Unreserve(s, ChannelDeposits(s, cs))
            ch == [c \in Channels |-> IF c \in cs THEN None ELSE v.channels[c]]
            eg == [p \in Paras |-> v.egress[p] \ {c[2] : c \in {d \in cs : d[1] = p}}]
            in == [p \in Paras |-> v.ingress[p] \ {c[1] : c \in {d \in cs : d[2] = p}}]
<1>1. t = [v EXCEPT !.channels = ch, !.egress = eg, !.ingress = in]
  BY DEF close_hrmp_channel
<1>2. Recounted(s, s.openCount, s.acceptedCount, Unreserved(s, ChannelDeposits(s, cs)), v)
  BY UnreserveEffect
<1>3. /\ ch = [c \in Channels |-> IF c \in cs THEN None ELSE s.channels[c]]
      /\ eg = [p \in Paras |-> s.egress[p] \ {c[2] : c \in {d \in cs : d[1] = p}}]
      /\ in = [p \in Paras |-> s.ingress[p] \ {c[1] : c \in {d \in cs : d[2] = p}}]
  BY Zenon, <1>2 DEF Recounted
<1>. HIDE DEF v, ch, eg, in
<1>4. /\ Fields(t) /\ t.channels = ch /\ t.egress = eg /\ t.ingress = in
      /\ t.requests = v.requests /\ t.list = v.list /\ t.closeRequests = v.closeRequests
      /\ t.openCount = v.openCount /\ t.acceptedCount = v.acceptedCount
      /\ t.reserved = v.reserved
  BY Zenon, <1>1, <1>2 DEF Fields, Recounted
<1>. QED  BY Zenon, <1>2, <1>3, <1>4 DEF Closed, Recounted

\* Closing channels keeps the fields in their types.
LEMMA ClosedTyped ==
    ASSUME Arithmetic, NEW s, Typed(s), NEW cfg \in Configs, NEW cs \in SUBSET Channels,
           NEW t, Closed(s, cs, t)
    PROVE  Typed(t)
<1>1. t.reserved \in [Paras -> Nat]
  <2>1. \A p \in Paras : ChannelDeposits(s, cs)[p] \in Nat
    BY ChannelDepositsType
  <2>. QED  BY <2>1, ReservesType DEF Closed
<1>2. t.channels \in [Channels -> Deposits \cup {None}]
  BY DEF Closed, Typed
<1>3. t.ingress \in [Paras -> SUBSET Paras] /\ t.egress \in [Paras -> SUBSET Paras]
  BY DEF Closed, Typed
<1>. QED  BY <1>1, <1>2, <1>3 DEF Closed, Typed

Unindexed(s, cs, t) ==
    \A c \in Channels :
        /\ c[2] \in t.egress[c[1]] <=> c[2] \in s.egress[c[1]] /\ c \notin cs
        /\ c[1] \in t.ingress[c[2]] <=> c[1] \in s.ingress[c[2]] /\ c \notin cs

\* Closing channels removes them from the map and from both indexes, and leaves
\* the requests alone.
LEMMA ClosedSets ==
    ASSUME NEW s, NEW cs \in SUBSET Channels, NEW t, Closed(s, cs, t)
    PROVE  /\ Requested(t) = Requested(s) /\ Confirmed(t) = Confirmed(s)
           /\ Open(t) = Open(s) \ cs /\ Unindexed(s, cs, t)
<1>1. Requested(t) = Requested(s) /\ Confirmed(t) = Confirmed(s)
  BY DEF Requested, Confirmed, Closed
<1>2. Open(t) = Open(s) \ cs
  BY DEF Open, Closed
<1>3. ASSUME NEW c \in Channels
      PROVE  /\ c[2] \in t.egress[c[1]] <=> c[2] \in s.egress[c[1]] /\ c \notin cs
             /\ c[1] \in t.ingress[c[2]] <=> c[1] \in s.ingress[c[2]] /\ c \notin cs
  <2>1. c[2] \in {d[2] : d \in {e \in cs : e[1] = c[1]}} <=> c \in cs
    BY ChannelPairs
  <2>2. c[1] \in {d[1] : d \in {e \in cs : e[2] = c[2]}} <=> c \in cs
    BY ChannelPairs
  <2>. QED  BY <2>1, <2>2, ChannelPairs DEF Closed
<1>. QED  BY <1>1, <1>2, <1>3 DEF Unindexed

\* A storage stays sound when channels are closed.
LEMMA ClosedSound ==
    ASSUME Arithmetic, NEW s, Sound(s), NEW cfg \in Configs, NEW cs \in SUBSET Channels,
           NEW t, Closed(s, cs, t)
    PROVE  Sound(t)
<1>1. Typed(t)
  BY ClosedTyped DEF Sound
<1>2. Indexed(t)
  BY ClosedSets DEF Sound, Indexed, Unindexed
<1>3. t.list = Requested(t) /\ Open(t) \cap Requested(t) = {}
  BY ClosedSets DEF Sound, Closed
<1>. QED  BY <1>1, <1>2, <1>3 DEF Sound

\* Closing channels keeps the limits.
LEMMA ClosedLimited ==
    ASSUME Arithmetic, NEW s, Limited(s), NEW cs \in SUBSET Channels, NEW t, Closed(s, cs, t)
    PROVE  Limited(t)
<1>1. /\ Requested(t) = Requested(s) /\ Confirmed(t) = Confirmed(s)
      /\ Open(t) \subseteq Open(s)
  BY ClosedSets
<1>2. \A p \in Paras : /\ t.acceptedCount[p] = Cardinality(Into(Confirmed(t), p))
                       /\ Cardinality(OutOf(Requested(t), p)) <= t.openCount[p]
  BY Zenon, <1>1 DEF Limited, Within, Closed
<1>. QED  BY Zenon, <1>1, <1>2, FewerCounted

\* What close_hrmp_channel returns (hrmp.rs) is what the channels it closes
\* owed.
LEMMA ClosedCovered ==
    ASSUME Arithmetic, NEW s, Typed(s), NEW cfg \in Configs, Covered(s, cfg),
           NEW cs \in SUBSET Channels, NEW t, Closed(s, cs, t)
    PROVE  Covered(t, cfg)
<1>. SUFFICES ASSUME NEW p \in Paras PROVE OwedIn(t, cfg, p) <= t.reserved[p]
  BY DEF Covered
<1>. DEFINE r == [c \in cs |-> ChannelDue(s, c, p)]
<1>1. Typed(t)
  BY ClosedTyped
<1>2. \A c \in Channels : RequestDue(t, cfg, c, p) = RequestDue(s, cfg, c, p)
  BY DEF RequestDue, Closed
<1>3. /\ \A c \in cs : ChannelDue(t, c, p) = 0
      /\ \A c \in Channels \ cs : ChannelDue(t, c, p) = ChannelDue(s, c, p)
  BY DEF ChannelDue, Closed
<1>4. /\ \A c \in cs : r[c] \in Nat /\ Due(t, cfg, p)[c] + r[c] <= Due(s, cfg, p)[c]
      /\ \A c \in Channels \ cs : Due(t, cfg, p)[c] <= Due(s, cfg, p)[c]
  BY <1>1, <1>2, <1>3, DueType
<1>5. s.reserved[p] - SumFunctionOnSet(r, cs) <= t.reserved[p]
  <2>1. ChannelDeposits(s, cs)[p] = SumFunctionOnSet(r, cs)
    BY DEF ChannelDeposits
  <2>2. \A q \in Paras : ChannelDeposits(s, cs)[q] \in Nat
    BY ChannelDepositsType
  <2>. QED  BY <2>1, <2>2, ReservesType DEF Closed
<1>. HIDE DEF r
<1>. QED  BY <1>1, <1>4, <1>5, Repaid

\* What a routine keeps of a storage that owes and is limited.
Kept(s, t) ==
    /\ Limited(s) => Limited(t)
    /\ \A cfg \in Configs : Covered(s, cfg) => Covered(t, cfg)

\* Two storages that differ in their close requests only.
LEMMA OnlyCloseRequests ==
    ASSUME NEW s, Sound(s), NEW cr \in SUBSET Channels, NEW t, t = [s EXCEPT !.closeRequests = cr]
    PROVE  /\ Sound(t) /\ t.closeRequests = cr
           /\ Requested(t) = Requested(s) /\ Confirmed(t) = Confirmed(s) /\ Open(t) = Open(s)
           /\ Kept(s, t)
<1>1. Fields(s)
  BY DEF Sound, Typed
<1>2. /\ Fields(t) /\ t.closeRequests = cr
      /\ t.requests = s.requests /\ t.list = s.list /\ t.channels = s.channels
      /\ t.openCount = s.openCount /\ t.acceptedCount = s.acceptedCount
      /\ t.ingress = s.ingress /\ t.egress = s.egress /\ t.reserved = s.reserved
  BY Zenon, <1>1 DEF Fields
<1>3. Requested(t) = Requested(s) /\ Open(t) = Open(s) /\ Confirmed(t) = Confirmed(s)
  BY <1>2 DEF Open, Requested, Confirmed
<1>4. Typed(t)
  BY <1>2 DEF Sound, Typed
<1>5. Sound(t)
  BY <1>2, <1>3, <1>4 DEF Sound, Indexed
<1>6. Limited(s) => Limited(t)
  BY Zenon, <1>2, <1>3 DEF Limited, Within
<1>7. ASSUME NEW cfg \in Configs, Covered(s, cfg) PROVE Covered(t, cfg)
  <2>1. \A p \in Paras : Due(t, cfg, p) = Due(s, cfg, p)
    BY <1>2 DEF Due, RequestDue, ChannelDue
  <2>. QED  BY Zenon, <1>2, <1>7, <2>1 DEF Covered, OwedIn
<1>. QED  BY <1>2, <1>3, <1>5, <1>6, <1>7 DEF Kept

\* process_hrmp_close_channel_requests (hrmp.rs) forgets the close requests and
\* closes what they named.
Flushed(s, t) ==
    /\ Sound(t) /\ Requested(t) = Requested(s) /\ Confirmed(t) = Confirmed(s)
    /\ Open(t) \subseteq Open(s)
    /\ t.closeRequests = {}
    /\ Kept(s, t)

\* The effect of process_hrmp_close_channel_requests (hrmp.rs).
LEMMA ClosingRequested ==
    ASSUME Arithmetic, NEW s, Sound(s), NEW any \in Configs,
           NEW t, t = process_hrmp_close_channel_requests(s)
    PROVE  Flushed(s, t)
<1>. DEFINE v == [s EXCEPT !.closeRequests = {}]
            cs == s.closeRequests
<1>1. t = close_hrmp_channel(v, cs) /\ cs \in SUBSET Channels
  BY DEF process_hrmp_close_channel_requests, Sound, Typed
<1>2. /\ Sound(v) /\ v.closeRequests = {} /\ Kept(s, v)
      /\ Requested(v) = Requested(s) /\ Open(v) = Open(s) /\ Confirmed(v) = Confirmed(s)
  BY OnlyCloseRequests
<1>. HIDE DEF v, cs
<1>3. Closed(v, cs, t)
  BY <1>1, <1>2, CloseEffect DEF Sound, Typed
<1>4. /\ Requested(t) = Requested(v) /\ Confirmed(t) = Confirmed(v) /\ Open(t) \subseteq Open(v)
      /\ t.closeRequests = {}
  <2>1. t.closeRequests = {}
    BY <1>2, <1>3 DEF Closed
  <2>2. /\ Requested(t) = Requested(v) /\ Confirmed(t) = Confirmed(v)
        /\ Open(t) = Open(v) \ cs
    BY Zenon, <1>1, <1>3, ClosedSets
  <2>. QED  BY <2>1, <2>2
<1>5. Sound(t)
  BY <1>1, <1>2, <1>3, ClosedSound
<1>6. Kept(s, t)
  <2>1. Limited(s) => Limited(t)
    BY <1>1, <1>2, <1>3, ClosedLimited DEF Kept
  <2>2. ASSUME NEW cfg \in Configs, Covered(s, cfg) PROVE Covered(t, cfg)
    <3>1. Typed(v) /\ Covered(v, cfg)
      BY <1>2, <2>2 DEF Kept, Sound
    <3>. QED  BY <1>1, <1>3, <3>1, ClosedCovered
  <2>. QED  BY <2>1, <2>2 DEF Kept
<1>. QED  BY <1>2, <1>4, <1>5, <1>6 DEF Flushed

-----------------------------------------------------------------------------
(* Paras that leave.                                                       *)

\* Requests with a party that leaves are dropped, from the map and from the
\* list.
Leaving(s, outgoing) == {c \in s.list : Participants(c) \cap outgoing # {}}

Dropped(s, cfg, outgoing, go, t) ==
    /\ Fields(t)
    /\ t.list = s.list \ go
    /\ t.requests = [c \in Channels |-> IF c \in go THEN None ELSE s.requests[c]]
    /\ t.closeRequests = s.closeRequests /\ t.channels = s.channels
    /\ t.ingress = s.ingress /\ t.egress = s.egress
    /\ t.openCount = s.openCount
    /\ t.acceptedCount = AcceptedLess(s, go \cap Confirmed(s))
    /\ t.reserved = Unreserved(s, RequestDeposits(s, cfg, go, outgoing))

\* What clean_open_channel_requests (hrmp.rs) does to each field.
LEMMA DropEffect ==
    ASSUME NEW s, Fields(s), NEW cfg, NEW outgoing, NEW go, go = Leaving(s, outgoing),
           NEW t, t = clean_open_channel_requests(s, cfg, outgoing)
    PROVE  Dropped(s, cfg, outgoing, go, t)
<1>. DEFINE w == Unreserve(s, RequestDeposits(s, cfg, go, outgoing))
            gone == go \cap Confirmed(s)
            v == DecreaseAccepted(w, gone)
            li == v.list \ go
            rq == [c \in Channels |-> IF c \in go THEN None ELSE v.requests[c]]
<1>1. t = [v EXCEPT !.list = li, !.requests = rq]
  BY DEF clean_open_channel_requests, Leaving
<1>2. Recounted(s, s.openCount, s.acceptedCount,
                Unreserved(s, RequestDeposits(s, cfg, go, outgoing)), w)
  BY UnreserveEffect
<1>. HIDE DEF w, gone
<1>3. Recounted(w, w.openCount, AcceptedLess(w, gone), w.reserved, v)
  BY <1>2, DecreaseAcceptedEffect DEF Recounted
<1>4. AcceptedLess(w, gone) = AcceptedLess(s, gone)
  BY Zenon, <1>2 DEF AcceptedLess, Recounted
<1>5. /\ li = s.list \ go
      /\ rq = [c \in Channels |-> IF c \in go THEN None ELSE s.requests[c]]
  BY Zenon, <1>2, <1>3 DEF Recounted
<1>. HIDE DEF v, li, rq
<1>6. /\ Fields(t) /\ t.list = li /\ t.requests = rq
      /\ t.closeRequests = v.closeRequests /\ t.channels = v.channels
      /\ t.ingress = v.ingress /\ t.egress = v.egress
      /\ t.openCount = v.openCount /\ t.acceptedCount = v.acceptedCount
      /\ t.reserved = v.reserved
  BY Zenon, <1>1, <1>3 DEF Fields, Recounted
<1>. QED  BY Zenon, <1>2, <1>3, <1>4, <1>5, <1>6 DEF Dropped, Recounted, gone

\* Dropping requests keeps the fields in their types.
LEMMA DroppedTyped ==
    ASSUME Arithmetic, NEW s, Typed(s), NEW cfg \in Configs, NEW outgoing,
           NEW go \in SUBSET Channels, NEW t, Dropped(s, cfg, outgoing, go, t)
    PROVE  Typed(t)
<1>1. t.reserved \in [Paras -> Nat]
  <2>1. \A p \in Paras : RequestDeposits(s, cfg, go, outgoing)[p] \in Nat
    BY RequestDepositsType
  <2>. QED  BY <2>1, ReservesType DEF Dropped
<1>2. t.acceptedCount \in [Paras -> Nat]
  <2>1. go \cap Confirmed(s) \in SUBSET Channels
    OBVIOUS
  <2>. QED  BY <2>1, CountersType DEF Dropped
<1>3. t.requests \in [Channels -> Requests \cup {None}]
  BY DEF Dropped, Typed
<1>. QED  BY Zenon, <1>1, <1>2, <1>3 DEF Dropped, Typed

\* The requests that are left, and the channels, after requests are dropped.
LEMMA DroppedSets ==
    ASSUME NEW s, NEW cfg, NEW outgoing, NEW go, NEW t, Dropped(s, cfg, outgoing, go, t)
    PROVE  /\ Open(t) = Open(s)
           /\ Requested(t) = Requested(s) \ go /\ Confirmed(t) = Confirmed(s) \ go
<1>1. Open(t) = Open(s)
  BY DEF Dropped, Open
<1>2. Requested(t) = Requested(s) \ go
  BY DEF Dropped, Requested
<1>3. \A c \in Requested(s) \ go : t.requests[c] = s.requests[c]
  BY DEF Dropped, Requested
<1>. QED  BY <1>1, <1>2, <1>3 DEF Confirmed

\* A storage stays sound when requests are dropped.
LEMMA DroppedSound ==
    ASSUME Arithmetic, NEW s, Sound(s), NEW cfg \in Configs, NEW outgoing,
           NEW go \in SUBSET Channels, NEW t, Dropped(s, cfg, outgoing, go, t)
    PROVE  Sound(t)
<1>1. Typed(t)
  BY DroppedTyped DEF Sound
<1>2. Open(t) = Open(s) /\ Requested(t) = Requested(s) \ go
  BY DroppedSets
<1>3. Indexed(t)
  BY <1>2 DEF Sound, Indexed, Dropped
<1>4. t.list = Requested(t) /\ Open(t) \cap Requested(t) = {}
  BY <1>2 DEF Sound, Dropped
<1>. QED  BY <1>1, <1>3, <1>4 DEF Sound

\* The counter of the accepted requests drops by exactly the accepted requests
\* that are dropped (clean_open_channel_requests, hrmp.rs).
LEMMA DroppedLimited ==
    ASSUME Arithmetic, NEW s, Sound(s), Limited(s), NEW cfg, NEW outgoing,
           NEW go \in SUBSET Channels, NEW t, Dropped(s, cfg, outgoing, go, t)
    PROVE  Limited(t)
<1>1. /\ Open(t) = Open(s)
      /\ Requested(t) = Requested(s) \ go /\ Confirmed(t) = Confirmed(s) \ go
  BY DroppedSets
<1>2. ASSUME NEW p \in Paras
      PROVE  t.acceptedCount[p] = Cardinality(Into(Confirmed(t), p))
  <2>. DEFINE gone == go \cap Confirmed(s)
              sure == Confirmed(s)
  <2>1. /\ sure \in SUBSET Channels /\ gone \in SUBSET sure /\ gone \in SUBSET Channels
        /\ Confirmed(t) = sure \ gone
    BY <1>1, SetsOfChannels
  <2>2. t.acceptedCount[p] = Minus(s.acceptedCount[p], Cardinality(Into(gone, p)))
    BY DEF Dropped, AcceptedLess
  <2>3. s.acceptedCount[p] = Cardinality(Into(sure, p))
    BY DEF Limited, Within
  <2>. HIDE DEF gone, sure
  <2>4. /\ Cardinality(Into(gone, p)) <= Cardinality(Into(sure, p))
        /\ Cardinality(Into(sure \ gone, p))
              = Cardinality(Into(sure, p)) - Cardinality(Into(gone, p))
    BY Zenon, <2>1 DEF Arithmetic, CountFewer
  <2>5. Cardinality(Into(gone, p)) \in Nat /\ Cardinality(Into(sure, p)) \in Nat
    BY Zenon, <2>1 DEF Arithmetic, Countable
  <2>6. Minus(Cardinality(Into(sure, p)), Cardinality(Into(gone, p)))
           = Cardinality(Into(sure, p)) - Cardinality(Into(gone, p))
    BY <2>4, <2>5, MinusIs
  <2>. QED  BY <2>1, <2>2, <2>3, <2>4, <2>6
<1>3. ASSUME NEW p \in Paras
      PROVE  Cardinality(OutOf(Requested(t), p)) <= t.openCount[p]
  <2>1. /\ Requested(s) \in SUBSET Channels /\ Requested(t) \in SUBSET Requested(s)
        /\ Requested(t) \in SUBSET Channels
    BY <1>1, SetsOfChannels
  <2>2. Cardinality(OutOf(Requested(t), p)) <= Cardinality(OutOf(Requested(s), p))
    BY Zenon, <2>1 DEF Arithmetic, CountFewer
  <2>3. Cardinality(OutOf(Requested(t), p)) \in Nat /\ Cardinality(OutOf(Requested(s), p)) \in Nat
    BY Zenon, <2>1 DEF Arithmetic, Countable
  <2>4. s.openCount[p] \in Nat /\ Cardinality(OutOf(Requested(s), p)) <= s.openCount[p]
    BY DEF Limited, Within, Sound, Typed
  <2>5. t.openCount = s.openCount
    BY DEF Dropped
  <2>. QED  BY <2>2, <2>3, <2>4, <2>5
<1>. QED  BY <1>1, <1>2, <1>3, FewerCounted

\* What clean_open_channel_requests returns (hrmp.rs) is at most what the
\* requests it drops owed.
LEMMA DroppedCovered ==
    ASSUME Arithmetic, NEW s, Typed(s), NEW cfg \in Configs, Covered(s, cfg), NEW outgoing,
           NEW go \in SUBSET Channels, NEW t, Dropped(s, cfg, outgoing, go, t)
    PROVE  Covered(t, cfg)
<1>. SUFFICES ASSUME NEW p \in Paras PROVE OwedIn(t, cfg, p) <= t.reserved[p]
  BY DEF Covered
<1>. DEFINE r == [c \in go |-> RequestDue(s, cfg, c, p)]
            a == RequestDeposits(s, cfg, go, outgoing)
<1>1. Typed(t)
  BY DroppedTyped
<1>2. \A c \in Channels : ChannelDue(t, c, p) = ChannelDue(s, c, p)
  BY DEF ChannelDue, Dropped
<1>3. /\ \A c \in go : RequestDue(t, cfg, c, p) = 0
      /\ \A c \in Channels \ go : RequestDue(t, cfg, c, p) = RequestDue(s, cfg, c, p)
  BY DEF RequestDue, Dropped
<1>4. /\ \A c \in go : r[c] \in Nat /\ Due(t, cfg, p)[c] + r[c] <= Due(s, cfg, p)[c]
      /\ \A c \in Channels \ go : Due(t, cfg, p)[c] <= Due(s, cfg, p)[c]
  BY <1>1, <1>2, <1>3, DueType
<1>5. a[p] = IF p \in outgoing THEN 0 ELSE SumFunctionOnSet(r, go)
  BY DEF RequestDeposits
<1>6. \A q \in Paras : a[q] \in Nat
  BY RequestDepositsType
<1>. HIDE DEF r, a
<1>7. SumFunctionOnSet(r, go) \in Nat
  BY <1>4 DEF Arithmetic, SumNatural
<1>8. s.reserved[p] - SumFunctionOnSet(r, go) <= t.reserved[p]
  <2>1. s.reserved[p] - a[p] <= t.reserved[p]
    BY <1>6, ReservesType DEF Dropped, a
  <2>2. s.reserved[p] \in Nat /\ t.reserved[p] \in Nat
    BY <1>1 DEF Typed
  <2>. QED  BY <1>5, <1>6, <1>7, <2>1, <2>2
<1>. QED  BY <1>1, <1>4, <1>8, Repaid

\* Every channel of a para that leaves is closed, and its counters go.
Cleaned(s, outgoing, t) ==
    /\ Sound(t) /\ Requested(t) = Requested(s) /\ Confirmed(t) = Confirmed(s)
    /\ Open(t) = {c \in Open(s) : Participants(c) \cap outgoing = {}}
    /\ t.closeRequests = s.closeRequests
    /\ t.openCount = [p \in Paras |-> IF p \in outgoing THEN 0 ELSE s.openCount[p]]
    /\ t.acceptedCount = [p \in Paras |-> IF p \in outgoing THEN 0 ELSE s.acceptedCount[p]]
    /\ \A cfg \in Configs : Covered(s, cfg) => Covered(t, cfg)

\* The storage in which clean_hrmp_after_outgoing (hrmp.rs) has removed the
\* counters and the indexes of the outgoing paras, but closed nothing yet.
Forgot(s, outgoing, v) ==
    /\ Fields(v)
    /\ v.requests = s.requests /\ v.list = s.list
    /\ v.closeRequests = s.closeRequests /\ v.channels = s.channels
    /\ v.reserved = s.reserved
    /\ v.openCount = [p \in Paras |-> IF p \in outgoing THEN 0 ELSE s.openCount[p]]
    /\ v.acceptedCount = [p \in Paras |-> IF p \in outgoing THEN 0 ELSE s.acceptedCount[p]]
    /\ v.ingress = [p \in Paras |-> IF p \in outgoing THEN {} ELSE s.ingress[p]]
    /\ v.egress = [p \in Paras |-> IF p \in outgoing THEN {} ELSE s.egress[p]]

ToClose(s, outgoing) ==
    {c \in Channels : \/ c[2] \in outgoing /\ c[1] \in s.ingress[c[2]]
                      \/ c[1] \in outgoing /\ c[2] \in s.egress[c[1]]}

\* clean_hrmp_after_outgoing (hrmp.rs) forgets the indexes and closes what they
\* named.
LEMMA ForgetEffect ==
    ASSUME NEW s, Fields(s), NEW outgoing, NEW t, t = clean_hrmp_after_outgoing(s, outgoing)
    PROVE  \E v : Forgot(s, outgoing, v) /\ t = close_hrmp_channel(v, ToClose(s, outgoing))
<1>. DEFINE oc == [p \in Paras |-> IF p \in outgoing THEN 0 ELSE s.openCount[p]]
            ac == [p \in Paras |-> IF p \in outgoing THEN 0 ELSE s.acceptedCount[p]]
            in == [p \in Paras |-> IF p \in outgoing THEN {} ELSE s.ingress[p]]
            eg == [p \in Paras |-> IF p \in outgoing THEN {} ELSE s.egress[p]]
            v == [s EXCEPT !.openCount = oc, !.acceptedCount = ac, !.ingress = in, !.egress = eg]
<1>1. t = close_hrmp_channel(v, ToClose(s, outgoing))
  BY DEF clean_hrmp_after_outgoing, ToClose
<1>2. /\ Fields(v)
      /\ v.requests = s.requests /\ v.list = s.list
      /\ v.closeRequests = s.closeRequests /\ v.channels = s.channels
      /\ v.ingress = in /\ v.egress = eg /\ v.openCount = oc /\ v.acceptedCount = ac
      /\ v.reserved = s.reserved
  <2>. HIDE DEF oc, ac, in, eg
  <2>1. v = [s EXCEPT !.openCount = oc, !.acceptedCount = ac, !.ingress = in, !.egress = eg]
    OBVIOUS
  <2>. HIDE DEF v
  <2>. QED  BY Zenon, <2>1 DEF Fields
<1>. HIDE DEF v
<1>3. Forgot(s, outgoing, v)
  BY Zenon, <1>2 DEF Forgot
<1>. QED  BY <1>1, <1>3

\* Without the indexes of the outgoing paras the storage still has its types
\* and owes the same.
LEMMA ForgotKeeps ==
    ASSUME NEW s, Typed(s), NEW outgoing, NEW v, Forgot(s, outgoing, v)
    PROVE  /\ Typed(v) /\ Open(v) = Open(s)
           /\ Requested(v) = Requested(s) /\ Confirmed(v) = Confirmed(s)
           /\ \A cfg \in Configs : Covered(s, cfg) => Covered(v, cfg)
<1>1. Typed(v)
  BY DEF Forgot, Typed
<1>2. Open(v) = Open(s) /\ Requested(v) = Requested(s) /\ Confirmed(v) = Confirmed(s)
  BY DEF Forgot, Open, Requested, Confirmed
<1>3. ASSUME NEW cfg \in Configs, Covered(s, cfg) PROVE Covered(v, cfg)
  <2>1. \A p \in Paras : Due(v, cfg, p) = Due(s, cfg, p)
    BY DEF Forgot, Due, RequestDue, ChannelDue
  <2>2. v.reserved = s.reserved
    BY DEF Forgot
  <2>. QED  BY Zenon, <1>3, <2>1, <2>2 DEF Covered, OwedIn
<1>. QED  BY <1>1, <1>2, <1>3

\* In a sound storage the indexes of the outgoing paras name exactly their
\* channels.
LEMMA ToCloseIs ==
    ASSUME NEW s, Sound(s), NEW outgoing, NEW c \in Channels
    PROVE  c \in ToClose(s, outgoing) <=> c \in Open(s) /\ Participants(c) \cap outgoing # {}
  BY DEF Sound, Indexed, Participants, ToClose

\* The effect of clean_hrmp_after_outgoing (hrmp.rs): the two indexes of every
\* counterparty are brought up to date too.
LEMMA CleaningOutgoing ==
    ASSUME Arithmetic, NEW s, Sound(s), NEW any \in Configs, NEW outgoing,
           NEW t, t = clean_hrmp_after_outgoing(s, outgoing)
    PROVE  Cleaned(s, outgoing, t)
<1>. DEFINE cs == ToClose(s, outgoing)
<1>1. PICK v : Forgot(s, outgoing, v) /\ t = close_hrmp_channel(v, cs)
  BY ForgetEffect DEF Sound, Typed
<1>2. /\ Typed(v) /\ Open(v) = Open(s)
      /\ Requested(v) = Requested(s) /\ Confirmed(v) = Confirmed(s)
      /\ \A cfg \in Configs : Covered(s, cfg) => Covered(v, cfg)
  BY <1>1, ForgotKeeps DEF Sound
<1>3. cs \in SUBSET Channels
  BY DEF ToClose
<1>4. \A c \in Channels : c \in cs <=> c \in Open(s) /\ Participants(c) \cap outgoing # {}
  BY ToCloseIs
<1>. HIDE DEF cs
<1>5. Closed(v, cs, t)
  BY <1>1, <1>2, CloseEffect DEF Typed
<1>6. /\ Requested(t) = Requested(s) /\ Confirmed(t) = Confirmed(s) /\ Open(t) = Open(s) \ cs
      /\ Unindexed(v, cs, t)
  <2>1. /\ Requested(t) = Requested(v) /\ Confirmed(t) = Confirmed(v)
        /\ Open(t) = Open(v) \ cs /\ Unindexed(v, cs, t)
    BY Zenon, <1>3, <1>5, ClosedSets
  <2>. QED  BY Zenon, <1>2, <2>1
<1>7. Open(t) = {c \in Open(s) : Participants(c) \cap outgoing = {}}
  BY <1>4, <1>6 DEF Open
<1>8. Indexed(t)
  <2>. SUFFICES ASSUME NEW c \in Channels
       PROVE  /\ c \in Open(t) <=> c[2] \in t.egress[c[1]]
              /\ c \in Open(t) <=> c[1] \in t.ingress[c[2]]
    BY DEF Indexed
  <2>1. /\ c[2] \in v.egress[c[1]] <=> c[1] \notin outgoing /\ c \in Open(s)
        /\ c[1] \in v.ingress[c[2]] <=> c[2] \notin outgoing /\ c \in Open(s)
    BY <1>1, ChannelPairs DEF Sound, Indexed, Forgot
  <2>2. c \notin cs /\ c \in Open(s) => c[1] \notin outgoing /\ c[2] \notin outgoing
    BY <1>4 DEF Participants
  <2>. QED  BY <1>6, <2>1, <2>2 DEF Unindexed
<1>9. Typed(t)
  BY <1>2, <1>3, <1>5, ClosedTyped
<1>10. t.list = Requested(t) /\ Open(t) \cap Requested(t) = {}
  BY <1>1, <1>5, <1>6 DEF Closed, Forgot, Sound
<1>11. Sound(t)
  BY <1>8, <1>9, <1>10 DEF Sound
<1>12. ASSUME NEW cfg \in Configs, Covered(s, cfg) PROVE Covered(t, cfg)
  BY <1>2, <1>3, <1>5, <1>12, ClosedCovered
<1>13. /\ t.openCount = v.openCount /\ t.acceptedCount = v.acceptedCount
       /\ t.closeRequests = v.closeRequests
  BY <1>5 DEF Closed
<1>. QED  BY Zenon, <1>1, <1>6, <1>7, <1>11, <1>12, <1>13 DEF Cleaned, Forgot

\* When no request of the leaving paras is left, resetting their counters is
\* right: the order of the two clean-ups in initializer_on_new_session (hrmp.rs).
LEMMA CleaningOutgoingLimited ==
    ASSUME Arithmetic, NEW s, Limited(s), NEW outgoing,
           \A c \in Requested(s) : Participants(c) \cap outgoing = {},
           NEW t, Cleaned(s, outgoing, t)
    PROVE  Limited(t)
<1>1. /\ Requested(t) = Requested(s) /\ Confirmed(t) = Confirmed(s)
      /\ Open(t) \subseteq Open(s)
  BY DEF Cleaned
<1>2. ASSUME NEW p \in Paras
      PROVE  /\ t.acceptedCount[p] = Cardinality(Into(Confirmed(t), p))
             /\ Cardinality(OutOf(Requested(t), p)) <= t.openCount[p]
  <2>1. /\ t.openCount[p] = IF p \in outgoing THEN 0 ELSE s.openCount[p]
        /\ t.acceptedCount[p] = IF p \in outgoing THEN 0 ELSE s.acceptedCount[p]
    BY DEF Cleaned
  <2>2. CASE p \notin outgoing
    BY Zenon, <1>1, <2>1, <2>2 DEF Limited, Within
  <2>3. CASE p \in outgoing
    <3>1. Into(Confirmed(t), p) = {} /\ OutOf(Requested(t), p) = {}
      BY <1>1, <2>3 DEF Into, OutOf, Confirmed, Participants
    <3>2. Cardinality({}) = 0
      BY DEF Arithmetic, Countable
    <3>. QED  BY <2>1, <2>3, <3>1, <3>2
  <2>. QED  BY <2>2, <2>3
<1>. QED  BY <1>1, <1>2, FewerCounted

-----------------------------------------------------------------------------
(* Channels that open.                                                     *)

\* Confirmed requests leave the list and become channels, if both parties are
\* valid.
Opened(s, cfg, new, t) ==
    /\ Fields(t)
    /\ t.list = s.list \ Confirmed(s)
    /\ t.requests = [c \in Channels |-> IF c \in Confirmed(s) THEN None ELSE s.requests[c]]
    /\ t.channels = [c \in Channels |->
          IF c \in new
          THEN [sender_deposit |-> s.requests[c].sender_deposit,
                recipient_deposit |-> cfg.recipient]
          ELSE s.channels[c]]
    /\ t.closeRequests = s.closeRequests
    /\ t.ingress = [p \in Paras |-> s.ingress[p] \cup {c[1] : c \in {d \in new : d[2] = p}}]
    /\ t.egress = [p \in Paras |-> s.egress[p] \cup {c[2] : c \in {d \in new : d[1] = p}}]
    /\ t.openCount = OpenLess(s, Confirmed(s))
    /\ t.acceptedCount = AcceptedLess(s, Confirmed(s))
    /\ t.reserved = s.reserved

\* What process_hrmp_open_channel_requests (hrmp.rs) does to each field.
LEMMA OpenEffect ==
    ASSUME NEW s, Fields(s), Confirmed(s) \subseteq s.list, NEW cfg, NEW l,
           NEW new, new = {c \in Confirmed(s) : \A p \in Participants(c) : is_valid_para(l, p)},
           NEW t, t = process_hrmp_open_channel_requests(s, cfg, l)
    PROVE  Opened(s, cfg, new, t)
<1>. DEFINE sure == Confirmed(s)
            w == DecreaseOpen(s, sure)
            v == DecreaseAccepted(w, sure)
            li == v.list \ sure
            rq == [c \in Channels |-> IF c \in sure THEN None ELSE v.requests[c]]
            ch == [c \in Channels |->
                IF c \in new
                THEN [sender_deposit |-> s.requests[c].sender_deposit,
                      recipient_deposit |-> cfg.recipient]
                ELSE v.channels[c]]
            in == [p \in Paras |-> v.ingress[p] \cup {c[1] : c \in {d \in new : d[2] = p}}]
            eg == [p \in Paras |-> v.egress[p] \cup {c[2] : c \in {d \in new : d[1] = p}}]
<1>1. t = [v EXCEPT !.list = li, !.requests = rq, !.channels = ch,
                    !.ingress = in, !.egress = eg]
  <2>1. s.list \cap Confirmed(s) = Confirmed(s)
    OBVIOUS
  <2>. QED  BY Zenon, <2>1 DEF process_hrmp_open_channel_requests
<1>. HIDE DEF sure
<1>2. Recounted(s, OpenLess(s, sure), s.acceptedCount, s.reserved, w)
  BY DecreaseOpenEffect
<1>. HIDE DEF w
<1>3. Recounted(w, w.openCount, AcceptedLess(w, sure), w.reserved, v)
  BY <1>2, DecreaseAcceptedEffect DEF Recounted
<1>4. AcceptedLess(w, sure) = AcceptedLess(s, sure)
  BY Zenon, <1>2 DEF AcceptedLess, Recounted
<1>. HIDE DEF v
<1>5. /\ v.requests = s.requests /\ v.list = s.list /\ v.channels = s.channels
      /\ v.ingress = s.ingress /\ v.egress = s.egress /\ v.closeRequests = s.closeRequests
      /\ v.openCount = OpenLess(s, sure) /\ v.acceptedCount = AcceptedLess(s, sure)
      /\ v.reserved = s.reserved /\ Fields(v)
  BY Zenon, <1>2, <1>3, <1>4 DEF Recounted
<1>6. /\ Fields(t) /\ t.list = li /\ t.requests = rq /\ t.channels = ch
      /\ t.ingress = in /\ t.egress = eg /\ t.closeRequests = v.closeRequests
      /\ t.openCount = v.openCount /\ t.acceptedCount = v.acceptedCount
      /\ t.reserved = v.reserved
  <2>. HIDE DEF li, rq, ch, in, eg
  <2>. QED  BY Zenon, <1>1, <1>5 DEF Fields
<1>. QED  BY Zenon, <1>5, <1>6 DEF Opened, sure

\* What opens is a confirmed request, and its deposits are the ones of the
\* request and of the configuration.
LEMMA OpenedDeposits ==
    ASSUME NEW s, Typed(s), NEW cfg \in Configs, NEW c \in Confirmed(s)
    PROVE  [sender_deposit |-> s.requests[c].sender_deposit,
            recipient_deposit |-> cfg.recipient] \in Deposits
<1>1. s.requests[c] \in Requests
  BY DEF Typed, Requested, Confirmed
<1>2. cfg.recipient \in Nat
  BY HrmpChannelsAssumption
<1>. QED  BY <1>1, <1>2 DEF Requests, Deposits

\* Opening channels keeps the fields in their types.
LEMMA OpenedTyped ==
    ASSUME Arithmetic, NEW s, Typed(s), NEW cfg \in Configs, NEW new \in SUBSET Confirmed(s),
           NEW t, Opened(s, cfg, new, t)
    PROVE  Typed(t)
<1>1. t.channels \in [Channels -> Deposits \cup {None}]
  <2>1. \A c \in Channels : s.channels[c] \in Deposits \cup {None}
    BY DEF Typed
  <2>2. \A c \in new : [sender_deposit |-> s.requests[c].sender_deposit,
                        recipient_deposit |-> cfg.recipient] \in Deposits
    BY OpenedDeposits
  <2>. DEFINE dep(c) == [sender_deposit |-> s.requests[c].sender_deposit,
                         recipient_deposit |-> cfg.recipient]
  <2>3. t.channels = [c \in Channels |-> IF c \in new THEN dep(c) ELSE s.channels[c]]
    BY DEF Opened
  <2>4. \A c \in new : dep(c) \in Deposits
    BY <2>2
  <2>. HIDE DEF dep
  <2>. QED  BY <2>1, <2>3, <2>4
<1>2. t.requests \in [Channels -> Requests \cup {None}]
  BY DEF Opened, Typed
<1>3. t.ingress \in [Paras -> SUBSET Paras] /\ t.egress \in [Paras -> SUBSET Paras]
  <2>1. \A c \in new : c[1] \in Paras /\ c[2] \in Paras
    BY ChannelPairs, SetsOfChannels
  <2>. QED  BY <2>1 DEF Opened, Typed
<1>4. t.openCount \in [Paras -> Nat] /\ t.acceptedCount \in [Paras -> Nat]
  <2>1. Confirmed(s) \in SUBSET Channels
    BY SetsOfChannels
  <2>. QED  BY <2>1, CountersType DEF Opened
<1>. QED  BY Zenon, <1>1, <1>2, <1>3, <1>4 DEF Opened, Typed

\* The requests that are left, and the channels, after the confirmed requests
\* are enacted.
LEMMA OpenedSets ==
    ASSUME NEW s, Typed(s), NEW cfg \in Configs, NEW new \in SUBSET Confirmed(s),
           NEW t, Opened(s, cfg, new, t)
    PROVE  /\ Requested(t) = Requested(s) \ Confirmed(s) /\ Confirmed(t) = {}
           /\ Open(t) = Open(s) \cup new
<1>1. Requested(t) = Requested(s) \ Confirmed(s)
  BY DEF Requested, Opened
<1>2. Confirmed(t) = {}
  <2>1. \A c \in Requested(t) : t.requests[c] = s.requests[c]
    BY <1>1 DEF Requested, Opened
  <2>2. \A c \in Requested(s) \ Confirmed(s) : ~s.requests[c].confirmed
    BY DEF Confirmed
  <2>. QED  BY <1>1, <2>1, <2>2 DEF Confirmed
<1>3. Open(t) = Open(s) \cup new
  <2>1. \A c \in new : c \in Channels /\ t.channels[c] # None
    <3>1. \A c \in new : c \in Channels /\ [sender_deposit |-> s.requests[c].sender_deposit,
                                            recipient_deposit |-> cfg.recipient] # None
      BY OpenedDeposits, NoneIsNeither, SetsOfChannels
    <3>. QED  BY <3>1 DEF Opened
  <2>2. \A c \in Channels \ new : t.channels[c] = s.channels[c]
    BY DEF Opened
  <2>. QED  BY <2>1, <2>2 DEF Open
<1>. QED  BY <1>1, <1>2, <1>3

\* A storage stays sound when the confirmed requests are enacted.
LEMMA OpenedSound ==
    ASSUME Arithmetic, NEW s, Sound(s), NEW cfg \in Configs, NEW new \in SUBSET Confirmed(s),
           NEW t, Opened(s, cfg, new, t)
    PROVE  Sound(t)
<1>1. Typed(t)
  BY OpenedTyped DEF Sound
<1>2. Requested(t) = Requested(s) \ Confirmed(s) /\ Open(t) = Open(s) \cup new
  BY OpenedSets DEF Sound
<1>3. Indexed(t)
  <2>. SUFFICES ASSUME NEW c \in Channels
       PROVE  /\ c \in Open(t) <=> c[2] \in t.egress[c[1]]
              /\ c \in Open(t) <=> c[1] \in t.ingress[c[2]]
    BY DEF Indexed
  <2>1. new \subseteq Channels
    BY SetsOfChannels
  <2>2. c[2] \in {d[2] : d \in {e \in new : e[1] = c[1]}} <=> c \in new
    BY <2>1, ChannelPairs
  <2>3. c[1] \in {d[1] : d \in {e \in new : e[2] = c[2]}} <=> c \in new
    BY <2>1, ChannelPairs
  <2>4. /\ c \in Open(s) <=> c[2] \in s.egress[c[1]]
        /\ c \in Open(s) <=> c[1] \in s.ingress[c[2]]
    BY DEF Sound, Indexed
  <2>5. c[1] \in Paras /\ c[2] \in Paras
    BY ChannelPairs
  <2>6. /\ t.egress[c[1]] = s.egress[c[1]] \cup {d[2] : d \in {e \in new : e[1] = c[1]}}
        /\ t.ingress[c[2]] = s.ingress[c[2]] \cup {d[1] : d \in {e \in new : e[2] = c[2]}}
    BY <2>5 DEF Opened
  <2>. QED  BY Zenon, <1>2, <2>2, <2>3, <2>4, <2>6
<1>4. t.list = Requested(t) /\ Open(t) \cap Requested(t) = {}
  <2>1. new \subseteq Confirmed(s) /\ Open(s) \cap Requested(s) = {} /\ s.list = Requested(s)
    BY DEF Sound
  <2>2. t.list = s.list \ Confirmed(s)
    BY DEF Opened
  <2>. QED  BY <1>2, <2>1, <2>2
<1>. QED  BY <1>1, <1>3, <1>4 DEF Sound

\* Enacting a request takes it off both counters: the accepted counter is then
\* zero, and no para has more channels than it had channels and requests
\* (process_hrmp_open_channel_requests, hrmp.rs).
LEMMA OpenedLimited ==
    ASSUME Arithmetic, NEW s, Typed(s), Limited(s), NEW cfg \in Configs,
           NEW new \in SUBSET Confirmed(s), NEW t, Opened(s, cfg, new, t)
    PROVE  Limited(t)
<1>. DEFINE sure == Confirmed(s)
            all == Requested(s)
<1>1. /\ Requested(t) = all \ sure /\ Confirmed(t) = {} /\ Open(t) = Open(s) \cup new
      /\ all \in SUBSET Channels /\ sure \in SUBSET all /\ sure \in SUBSET Channels
      /\ new \in SUBSET sure /\ Open(s) \in SUBSET Channels
  BY OpenedSets, SetsOfChannels
<1>. SUFFICES ASSUME NEW p \in Paras PROVE Within(t, p)
  BY DEF Limited
<1>2. /\ Cardinality(OutOf(all, p)) <= s.openCount[p]
      /\ Cardinality(Into(sure, p)) = s.acceptedCount[p]
      /\ Cardinality(OutOf(Open(s) \cup all, p)) <= OutboundLimit[p]
      /\ Cardinality(Into(Open(s) \cup sure, p)) <= InboundLimit[p]
  BY Zenon DEF Limited, Within
<1>3. /\ t.openCount[p] = Minus(s.openCount[p], Cardinality(OutOf(sure, p)))
      /\ t.acceptedCount[p] = Minus(s.acceptedCount[p], Cardinality(Into(sure, p)))
  BY Zenon DEF Opened, OpenLess, AcceptedLess
<1>4. s.openCount[p] \in Nat /\ s.acceptedCount[p] \in Nat
  BY DEF Typed
<1>. HIDE DEF sure, all
<1>5. Cardinality(OutOf(all, p)) \in Nat /\ Cardinality(OutOf(sure, p)) \in Nat
  BY Zenon, <1>1 DEF Arithmetic, Countable
<1>6. Cardinality(OutOf(all \ sure, p)) <= t.openCount[p]
  <2>1. /\ Cardinality(OutOf(all \ sure, p))
              = Cardinality(OutOf(all, p)) - Cardinality(OutOf(sure, p))
        /\ Cardinality(OutOf(sure, p)) <= Cardinality(OutOf(all, p))
    BY Zenon, <1>1 DEF Arithmetic, CountFewer
  <2>2. Cardinality(OutOf(sure, p)) <= s.openCount[p]
    BY <1>2, <1>4, <1>5, <2>1
  <2>3. t.openCount[p] = s.openCount[p] - Cardinality(OutOf(sure, p))
    BY Zenon, <1>3, <1>4, <1>5, <2>2, MinusIs
  <2>. QED  BY <1>2, <1>4, <1>5, <2>1, <2>3
<1>7. Cardinality(Into({}, p)) = t.acceptedCount[p]
  <2>1. Into({}, p) = {}
    BY DEF Into
  <2>2. Cardinality({}) = 0
    BY DEF Arithmetic, Countable
  <2>3. t.acceptedCount[p] = 0
    BY <1>2, <1>3, <1>4 DEF Minus
  <2>. QED  BY <2>1, <2>2, <2>3
<1>8. Cardinality(OutOf(Open(t) \cup (all \ sure), p)) <= OutboundLimit[p]
  <2>. DEFINE a == Open(s) \cup all
              a2 == Open(t) \cup (all \ sure)
  <2>1. a2 \in SUBSET a /\ a \in SUBSET Channels /\ a2 \in SUBSET Channels
    BY <1>1
  <2>2. Cardinality(OutOf(a, p)) <= OutboundLimit[p]
    BY <1>2
  <2>. HIDE DEF a, a2
  <2>3. Cardinality(OutOf(a2, p)) <= Cardinality(OutOf(a, p))
    BY Zenon, <2>1 DEF Arithmetic, CountFewer
  <2>4. Cardinality(OutOf(a2, p)) \in Nat /\ Cardinality(OutOf(a, p)) \in Nat
    BY Zenon, <2>1 DEF Arithmetic, Countable
  <2>5. OutboundLimit[p] \in Nat
    BY HrmpChannelsAssumption
  <2>6. Cardinality(OutOf(a2, p)) <= OutboundLimit[p]
    BY <2>2, <2>3, <2>4, <2>5
  <2>. QED  BY <2>6 DEF a2
<1>9. Cardinality(Into(Open(t) \cup {}, p)) <= InboundLimit[p]
  <2>. DEFINE a == Open(s) \cup sure
              a2 == Open(t) \cup {}
  <2>1. a2 \in SUBSET a /\ a \in SUBSET Channels /\ a2 \in SUBSET Channels
    BY <1>1
  <2>2. Cardinality(Into(a, p)) <= InboundLimit[p]
    BY <1>2
  <2>. HIDE DEF a, a2
  <2>3. Cardinality(Into(a2, p)) <= Cardinality(Into(a, p))
    BY Zenon, <2>1 DEF Arithmetic, CountFewer
  <2>4. Cardinality(Into(a2, p)) \in Nat /\ Cardinality(Into(a, p)) \in Nat
    BY Zenon, <2>1 DEF Arithmetic, Countable
  <2>5. InboundLimit[p] \in Nat
    BY HrmpChannelsAssumption
  <2>6. Cardinality(Into(a2, p)) <= InboundLimit[p]
    BY <2>2, <2>3, <2>4, <2>5
  <2>. QED  BY <2>6 DEF a2
<1>. QED  BY Zenon, <1>1, <1>6, <1>7, <1>8, <1>9 DEF Within

\* What a channel owes when it opens is what its request owed.  Afterwards no
\* request is confirmed, so that what is owed no longer depends on the
\* configuration (process_hrmp_open_channel_requests, hrmp.rs).
LEMMA OpenedCovered ==
    ASSUME Arithmetic, NEW s, Sound(s), NEW cfg \in Configs, Covered(s, cfg),
           NEW other \in Configs, NEW new \in SUBSET Confirmed(s),
           NEW t, Opened(s, cfg, new, t)
    PROVE  Covered(t, other)
<1>1. Typed(s) /\ Typed(t)
  BY OpenedTyped DEF Sound
<1>2. /\ Requested(t) = Requested(s) \ Confirmed(s) /\ Confirmed(t) = {}
      /\ Open(s) \cap Requested(s) = {}
  BY <1>1, OpenedSets DEF Sound
<1>. SUFFICES ASSUME NEW p \in Paras PROVE OwedIn(t, other, p) <= t.reserved[p]
  BY DEF Covered
<1>3. ASSUME NEW c \in Channels
      PROVE  Due(t, other, p)[c] <= Due(s, cfg, p)[c]
  <2>1. /\ RequestDue(s, cfg, c, p) \in Nat /\ ChannelDue(s, c, p) \in Nat
        /\ RequestDue(t, other, c, p) \in Nat /\ ChannelDue(t, c, p) \in Nat
        /\ Due(s, cfg, p)[c] = RequestDue(s, cfg, c, p) + ChannelDue(s, c, p)
        /\ Due(t, other, p)[c] = RequestDue(t, other, c, p) + ChannelDue(t, c, p)
    BY <1>1, DueType
  <2>2. CASE c \in new
    <3>1. c \in Confirmed(s) /\ c \in Requested(s) /\ c \notin Open(s) /\ c \notin Requested(t)
      BY <1>2, <2>2, SetsOfChannels
    <3>2. s.channels[c] = None /\ t.requests[c] = None
      BY <3>1 DEF Open, Requested
    <3>3. s.requests[c] # None /\ s.requests[c].confirmed
      BY <3>1 DEF Confirmed, Requested
    <3>4. t.channels[c] = [sender_deposit |-> s.requests[c].sender_deposit,
                           recipient_deposit |-> cfg.recipient]
      BY <2>2 DEF Opened
    <3>5. t.channels[c] # None
      BY <1>1, <3>1, <3>4, OpenedDeposits, NoneIsNeither
    <3>6. RequestDue(t, other, c, p) = 0 /\ ChannelDue(s, c, p) = 0
      BY <3>2 DEF RequestDue, ChannelDue
    <3>7. ChannelDue(t, c, p) = RequestDue(s, cfg, c, p)
      BY <3>3, <3>4, <3>5 DEF RequestDue, ChannelDue
    <3>. QED  BY <2>1, <3>6, <3>7
  <2>3. CASE c \notin new
    <3>1. t.channels[c] = s.channels[c]
      BY <2>3 DEF Opened
    <3>2. ChannelDue(t, c, p) = ChannelDue(s, c, p)
      BY <3>1 DEF ChannelDue
    <3>3. CASE c \in Requested(t)
      <4>1. t.requests[c] = s.requests[c] /\ ~t.requests[c].confirmed
        BY <1>2, <3>3 DEF Opened, Confirmed
      <4>2. RequestDue(t, other, c, p) = RequestDue(s, cfg, c, p)
        BY <4>1 DEF RequestDue
      <4>. QED  BY <2>1, <3>2, <4>2
    <3>4. CASE c \notin Requested(t)
      <4>1. RequestDue(t, other, c, p) = 0
        BY <3>4 DEF RequestDue, Requested
      <4>. QED  BY <2>1, <3>2, <4>1
    <3>. QED  BY <3>3, <3>4
  <2>. QED  BY <2>2, <2>3
<1>4. t.reserved[p] = s.reserved[p]
  BY DEF Opened
<1>. QED  BY <1>1, <1>3, <1>4, Lighter

\* The effect of process_hrmp_open_channel_requests (hrmp.rs) on a sound
\* storage.
Enacted(s, cfg, new, t) ==
    /\ Sound(t)
    /\ Requested(t) \subseteq Requested(s) /\ Open(t) = Open(s) \cup new
    /\ Limited(s) => Limited(t)
    /\ Covered(s, cfg) => \A other \in Configs : Covered(t, other)
    /\ t.closeRequests = s.closeRequests

\* process_hrmp_open_channel_requests (hrmp.rs) keeps the storage sound, within
\* the limits and covered.
LEMMA Opening ==
    ASSUME Arithmetic, NEW s, Sound(s), NEW cfg \in Configs, NEW l,
           NEW new, new = {c \in Confirmed(s) : \A p \in Participants(c) : is_valid_para(l, p)},
           NEW t, t = process_hrmp_open_channel_requests(s, cfg, l)
    PROVE  Enacted(s, cfg, new, t)
<1>1. Typed(s) /\ Fields(s) /\ new \in SUBSET Confirmed(s) /\ Confirmed(s) \subseteq s.list
  BY SetsOfChannels DEF Sound, Typed
<1>2. Opened(s, cfg, new, t)
  BY <1>1, OpenEffect
<1>3. Sound(t)
  BY <1>1, <1>2, OpenedSound
<1>4. Requested(t) \subseteq Requested(s) /\ Open(t) = Open(s) \cup new
  BY <1>1, <1>2, OpenedSets
<1>5. Limited(s) => Limited(t)
  BY <1>1, <1>2, OpenedLimited
<1>6. Covered(s, cfg) => \A other \in Configs : Covered(t, other)
  BY <1>1, <1>2, OpenedCovered
<1>7. t.closeRequests = s.closeRequests
  BY <1>2 DEF Opened
<1>. QED  BY <1>3, <1>4, <1>5, <1>6, <1>7 DEF Enacted

-----------------------------------------------------------------------------
(* The calls on requests.                                                  *)

\* The indexes, which the calls measure, are as long as there are channels
\* (init_open_channel and accept_open_channel, hrmp.rs).
LEMMA IndexesCount ==
    ASSUME Arithmetic, NEW s, Sound(s), NEW p \in Paras
    PROVE  /\ Cardinality(s.egress[p]) \in Nat /\ Cardinality(s.ingress[p]) \in Nat
           /\ Cardinality(OutOf(Open(s), p)) <= Cardinality(s.egress[p])
           /\ Cardinality(Into(Open(s), p)) <= Cardinality(s.ingress[p])
<1>1. s.egress[p] \in SUBSET Paras /\ s.ingress[p] \in SUBSET Paras
  BY DEF Sound, Typed
<1>2. /\ \A c \in OutOf(Open(s), p) : c[2] \in s.egress[p]
      /\ \A c \in Into(Open(s), p) : c[1] \in s.ingress[p]
  BY DEF OutOf, Into, Open, Sound, Indexed
<1>3. Open(s) \in SUBSET Channels
  BY SetsOfChannels
<1>. QED  BY Zenon, <1>1, <1>2, <1>3 DEF Arithmetic, CountIndex

\* What a request of the channel c, or None, owes a para.
Owes(r, cfg, c, p) ==
    IF r = None THEN 0
    ELSE (IF c[1] = p THEN r.sender_deposit ELSE 0)
         + (IF c[2] = p /\ r.confirmed THEN cfg.recipient ELSE 0)

\* The request of the channel c becomes r, or goes when r is None; the counters
\* and the reserves change too.
Revised(s, c, r, oc, ac, res, t) ==
    /\ Fields(t)
    /\ t.requests = [s.requests EXCEPT ![c] = r]
    /\ t.list = IF r = None THEN s.list \ {c} ELSE s.list \cup {c}
    /\ t.closeRequests = s.closeRequests /\ t.channels = s.channels
    /\ t.ingress = s.ingress /\ t.egress = s.egress
    /\ t.openCount = oc /\ t.acceptedCount = ac /\ t.reserved = res

\* Read by channel: only the request of c changes, to r.
Rewritten(s, c, r, t) ==
    \A d \in Channels : t.requests[d] = IF d = c THEN r ELSE s.requests[d]

\* The three calls on a request keep the fields in their types
\* (init_open_channel, accept_open_channel and cancel_open_request, hrmp.rs).
LEMMA RevisedTyped ==
    ASSUME NEW s, Typed(s), NEW c \in Channels, NEW r \in Requests \cup {None},
           NEW oc \in [Paras -> Nat], NEW ac \in [Paras -> Nat], NEW res \in [Paras -> Nat],
           NEW t, Revised(s, c, r, oc, ac, res, t)
    PROVE  Typed(t) /\ Rewritten(s, c, r, t)
<1>1. t.requests \in [Channels -> Requests \cup {None}]
  BY DEF Revised, Typed
<1>2. Rewritten(s, c, r, t)
  BY DEF Revised, Typed, Rewritten
<1>3. Typed(t)
  BY Zenon, <1>1 DEF Revised, Typed
<1>. QED  BY <1>2, <1>3

Reset(s, c, r, t) ==
    /\ Open(t) = Open(s)
    /\ Requested(t) = IF r = None THEN Requested(s) \ {c} ELSE Requested(s) \cup {c}
    /\ Confirmed(t) = IF r # None /\ r.confirmed
                      THEN Confirmed(s) \cup {c} ELSE Confirmed(s) \ {c}

\* What the calls on a request do to the sets of requests and channels.
LEMMA RevisedSets ==
    ASSUME NEW s, NEW c \in Channels, NEW r, NEW t, t.channels = s.channels,
           Rewritten(s, c, r, t)
    PROVE  Reset(s, c, r, t)
<1>1. Open(t) = Open(s)
  BY DEF Open
<1>2. Requested(t) = IF r = None THEN Requested(s) \ {c} ELSE Requested(s) \cup {c}
  BY DEF Requested, Rewritten
<1>3. \A d \in Channels \ {c} : d \in Confirmed(t) <=> d \in Confirmed(s)
  BY <1>2 DEF Confirmed, Requested, Rewritten
<1>4. c \in Confirmed(t) <=> r # None /\ r.confirmed
  BY <1>2 DEF Confirmed, Rewritten
<1>5. Confirmed(t) \subseteq Channels /\ Confirmed(s) \subseteq Channels
  BY SetsOfChannels
<1>6. Confirmed(t) = IF r # None /\ r.confirmed
                     THEN Confirmed(s) \cup {c} ELSE Confirmed(s) \ {c}
  BY <1>3, <1>4, <1>5
<1>. QED  BY Zenon, <1>1, <1>2, <1>6 DEF Reset

\* The calls on a request keep the storage sound.
LEMMA RevisedSound ==
    ASSUME NEW s, Sound(s), NEW c \in Channels, c \notin Open(s),
           NEW r \in Requests \cup {None},
           NEW oc \in [Paras -> Nat], NEW ac \in [Paras -> Nat], NEW res \in [Paras -> Nat],
           NEW t, Revised(s, c, r, oc, ac, res, t)
    PROVE  Sound(t)
<1>. Typed(s)
  BY DEF Sound
<1>1. Typed(t) /\ Rewritten(s, c, r, t)
  BY Zenon, RevisedTyped
<1>2. t.channels = s.channels
  BY DEF Revised
<1>3. Reset(s, c, r, t)
  BY Zenon, <1>1, <1>2, RevisedSets
<1>4. Indexed(t)
  BY <1>3 DEF Sound, Indexed, Revised, Reset
<1>5. t.list = Requested(t)
  BY <1>3 DEF Sound, Revised, Reset
<1>6. Open(t) \cap Requested(t) = {}
  BY <1>3 DEF Sound, Reset
<1>. QED  BY <1>1, <1>4, <1>5, <1>6 DEF Sound

\* The calls on a request keep the deposits covered, when they reserve what the
\* request owes more and return no more than it owes less.
LEMMA RevisedCovered ==
    ASSUME Arithmetic, NEW s, Typed(s), NEW cfg \in Configs, Covered(s, cfg),
           NEW c \in Channels, NEW r \in Requests \cup {None},
           NEW oc \in [Paras -> Nat], NEW ac \in [Paras -> Nat], NEW res \in [Paras -> Nat],
           NEW t, Revised(s, c, r, oc, ac, res, t),
           \A p \in Paras : Owes(r, cfg, c, p) + s.reserved[p]
                               <= Owes(s.requests[c], cfg, c, p) + res[p]
    PROVE  Covered(t, cfg)
<1>1. Typed(t) /\ Rewritten(s, c, r, t)
  BY Zenon, RevisedTyped
<1>. SUFFICES ASSUME NEW p \in Paras PROVE OwedIn(t, cfg, p) <= t.reserved[p]
  BY DEF Covered
<1>2. \A d \in Channels : ChannelDue(t, d, p) = ChannelDue(s, d, p)
  BY DEF ChannelDue, Revised
<1>3. \A d \in Channels \ {c} : RequestDue(t, cfg, d, p) = RequestDue(s, cfg, d, p)
  BY <1>1 DEF RequestDue, Rewritten
<1>4. /\ RequestDue(t, cfg, c, p) = Owes(r, cfg, c, p)
      /\ RequestDue(s, cfg, c, p) = Owes(s.requests[c], cfg, c, p)
  <2>1. t.requests[c] = r
    BY <1>1 DEF Rewritten
  <2>. QED  BY Zenon, <2>1 DEF RequestDue, Owes
<1>5. \A d \in Channels \ {c} : Due(t, cfg, p)[d] = Due(s, cfg, p)[d]
  BY <1>2, <1>3 DEF Due
<1>6. /\ Due(t, cfg, p)[c] = RequestDue(t, cfg, c, p) + ChannelDue(t, c, p)
      /\ Due(s, cfg, p)[c] = RequestDue(s, cfg, c, p) + ChannelDue(s, c, p)
      /\ RequestDue(t, cfg, c, p) \in Nat /\ RequestDue(s, cfg, c, p) \in Nat
      /\ ChannelDue(s, c, p) \in Nat
  BY Zenon, <1>1, DueType
<1>7. t.reserved[p] = res[p] /\ res[p] \in Nat /\ s.reserved[p] \in Nat
  BY DEF Revised, Typed
<1>8. Due(t, cfg, p)[c] + s.reserved[p] <= Due(s, cfg, p)[c] + t.reserved[p]
  <2>1. ASSUME NEW a \in Nat, NEW b \in Nat, NEW d \in Nat, NEW x \in Nat, NEW y \in Nat,
               a + x <= b + y
        PROVE  (a + d) + x <= (b + d) + y
    BY <2>1
  <2>2. Owes(r, cfg, c, p) + s.reserved[p] <= Owes(s.requests[c], cfg, c, p) + res[p]
    OBVIOUS
  <2>. QED  BY Zenon, <1>2, <1>4, <1>6, <1>7, <2>1, <2>2
<1>. QED  BY Zenon, <1>1, <1>5, <1>8, Settled

\* A new request is within the outbound limit: the index and the counter that
\* init_open_channel adds up (hrmp.rs) are together not less than the channels
\* and the requests.
LEMMA AskedLimited ==
    ASSUME Arithmetic, NEW s, Sound(s), Limited(s), NEW c \in Channels,
           c \notin Open(s), c \notin Requested(s),
           Cardinality(s.egress[c[1]]) + s.openCount[c[1]] < OutboundLimit[c[1]],
           NEW t, Open(t) = Open(s), Requested(t) = Requested(s) \cup {c},
           Confirmed(t) = Confirmed(s), t.acceptedCount = s.acceptedCount,
           \A p \in Paras : t.openCount[p] = s.openCount[p] + (IF p = c[1] THEN 1 ELSE 0)
    PROVE  Limited(t)
<1>. SUFFICES ASSUME NEW p \in Paras PROVE Within(t, p)
  BY DEF Limited
<1>. DEFINE open == Open(s)
            asked == Requested(s)
            all == open \cup asked
<1>1. /\ Cardinality(Into(Confirmed(t), p)) = t.acceptedCount[p]
      /\ Cardinality(Into(Open(t) \cup Confirmed(t), p)) <= InboundLimit[p]
      /\ Cardinality(OutOf(asked, p)) <= s.openCount[p]
      /\ Cardinality(OutOf(all, p)) <= OutboundLimit[p]
  BY Zenon DEF Limited, Within
<1>2. open \in SUBSET Channels /\ asked \in SUBSET Channels /\ all \in SUBSET Channels
  BY SetsOfChannels
<1>3. c \in Channels \ all /\ c \in Channels \ asked /\ Open(t) \cup Requested(t) = all \cup {c}
  OBVIOUS
<1>4. Requested(t) = asked \cup {c}
  OBVIOUS
<1>5. /\ Cardinality(s.egress[p]) \in Nat
      /\ Cardinality(OutOf(open, p)) <= Cardinality(s.egress[p])
  BY IndexesCount
<1>. HIDE DEF asked, open
<1>6. Cardinality(OutOf(all, p)) <= Cardinality(OutOf(open, p)) + Cardinality(OutOf(asked, p))
  BY Zenon, <1>2 DEF Arithmetic, CountTogether
<1>. HIDE DEF all
<1>7. /\ Cardinality(OutOf(all \cup {c}, p))
            = Cardinality(OutOf(all, p)) + (IF c[1] = p THEN 1 ELSE 0)
      /\ Cardinality(OutOf(asked \cup {c}, p))
            = Cardinality(OutOf(asked, p)) + (IF c[1] = p THEN 1 ELSE 0)
  BY Zenon, <1>2, <1>3 DEF Arithmetic, CountOneMore
<1>8. /\ Cardinality(OutOf(all, p)) \in Nat /\ Cardinality(OutOf(open, p)) \in Nat
      /\ Cardinality(OutOf(asked, p)) \in Nat
  BY Zenon, <1>2 DEF Arithmetic, Countable
<1>9. s.openCount[p] \in Nat /\ OutboundLimit[p] \in Nat
  BY HrmpChannelsAssumption DEF Sound, Typed
<1>10. Cardinality(OutOf(asked \cup {c}, p)) <= t.openCount[p]
  BY <1>1, <1>7, <1>8, <1>9
<1>11. Cardinality(OutOf(all \cup {c}, p)) <= OutboundLimit[p]
  <2>1. CASE c[1] # p
    BY <1>1, <1>7, <1>8, <2>1
  <2>2. CASE c[1] = p
    <3>1. Cardinality(s.egress[p]) + s.openCount[p] < OutboundLimit[p]
      BY <2>2
    <3>. QED  BY <1>1, <1>5, <1>6, <1>7, <1>8, <1>9, <2>2, <3>1
  <2>. QED  BY <2>1, <2>2
<1>. QED  BY Zenon, <1>1, <1>3, <1>4, <1>10, <1>11 DEF Within

\* An accepted request is within the inbound limit (accept_open_channel,
\* hrmp.rs).
LEMMA AcceptedLimited ==
    ASSUME Arithmetic, NEW s, Sound(s), Limited(s), NEW c \in Channels,
           c \notin Open(s), c \notin Confirmed(s),
           Cardinality(s.ingress[c[2]]) + s.acceptedCount[c[2]] < InboundLimit[c[2]],
           NEW t, Open(t) = Open(s), Requested(t) = Requested(s),
           Confirmed(t) = Confirmed(s) \cup {c}, t.openCount = s.openCount,
           \A p \in Paras : t.acceptedCount[p] = s.acceptedCount[p] + (IF p = c[2] THEN 1 ELSE 0)
    PROVE  Limited(t)
<1>. SUFFICES ASSUME NEW p \in Paras PROVE Within(t, p)
  BY DEF Limited
<1>. DEFINE open == Open(s)
            sure == Confirmed(s)
            all == open \cup sure
<1>1. /\ Cardinality(OutOf(Requested(t), p)) <= t.openCount[p]
      /\ Cardinality(OutOf(Open(t) \cup Requested(t), p)) <= OutboundLimit[p]
      /\ Cardinality(Into(sure, p)) = s.acceptedCount[p]
      /\ Cardinality(Into(all, p)) <= InboundLimit[p]
  BY Zenon DEF Limited, Within
<1>2. open \in SUBSET Channels /\ sure \in SUBSET Channels /\ all \in SUBSET Channels
  BY SetsOfChannels
<1>3. c \in Channels \ all /\ c \in Channels \ sure /\ Open(t) \cup Confirmed(t) = all \cup {c}
  OBVIOUS
<1>4. Confirmed(t) = sure \cup {c}
  OBVIOUS
<1>5. /\ Cardinality(s.ingress[p]) \in Nat
      /\ Cardinality(Into(open, p)) <= Cardinality(s.ingress[p])
  BY IndexesCount
<1>. HIDE DEF sure, open
<1>6. Cardinality(Into(all, p)) <= Cardinality(Into(open, p)) + Cardinality(Into(sure, p))
  BY Zenon, <1>2 DEF Arithmetic, CountTogether
<1>. HIDE DEF all
<1>7. /\ Cardinality(Into(all \cup {c}, p))
            = Cardinality(Into(all, p)) + (IF c[2] = p THEN 1 ELSE 0)
      /\ Cardinality(Into(sure \cup {c}, p))
            = Cardinality(Into(sure, p)) + (IF c[2] = p THEN 1 ELSE 0)
  BY Zenon, <1>2, <1>3 DEF Arithmetic, CountOneMore
<1>8. /\ Cardinality(Into(all, p)) \in Nat /\ Cardinality(Into(open, p)) \in Nat
      /\ Cardinality(Into(sure, p)) \in Nat
  BY Zenon, <1>2 DEF Arithmetic, Countable
<1>9. InboundLimit[p] \in Nat
  BY HrmpChannelsAssumption
<1>10. Cardinality(Into(sure \cup {c}, p)) = t.acceptedCount[p]
  BY <1>1, <1>7, <1>8
<1>11. Cardinality(Into(all \cup {c}, p)) <= InboundLimit[p]
  <2>1. CASE c[2] # p
    BY <1>1, <1>7, <1>8, <2>1
  <2>2. CASE c[2] = p
    <3>1. Cardinality(s.ingress[p]) + Cardinality(Into(sure, p)) < InboundLimit[p]
      BY <1>1, <2>2
    <3>. QED  BY <1>5, <1>6, <1>7, <1>8, <1>9, <2>2, <3>1
  <2>. QED  BY <2>1, <2>2
<1>. QED  BY Zenon, <1>1, <1>3, <1>4, <1>10, <1>11 DEF Within

\* A cancelled request leaves the counter of the open requests sufficient
\* (cancel_open_request, hrmp.rs).
LEMMA CancelledLimited ==
    ASSUME Arithmetic, NEW s, Sound(s), Limited(s), NEW c \in Requested(s),
           NEW t, Open(t) = Open(s), Requested(t) = Requested(s) \ {c},
           Confirmed(t) = Confirmed(s), t.acceptedCount = s.acceptedCount,
           t.openCount = OpenLess(s, {c})
    PROVE  Limited(t)
<1>1. ASSUME NEW p \in Paras
      PROVE  /\ t.acceptedCount[p] = Cardinality(Into(Confirmed(t), p))
             /\ Cardinality(OutOf(Requested(t), p)) <= t.openCount[p]
  <2>. DEFINE one == {c}
              asked == Requested(s)
  <2>1. t.acceptedCount[p] = Cardinality(Into(Confirmed(t), p))
    BY Zenon DEF Limited, Within
  <2>2. /\ asked \in SUBSET Channels /\ one \in SUBSET asked /\ one \in SUBSET Channels
        /\ Requested(t) = asked \ one
    BY SetsOfChannels
  <2>3. t.openCount[p] = Minus(s.openCount[p], Cardinality(OutOf(one, p)))
    BY DEF OpenLess
  <2>4. Cardinality(OutOf(asked, p)) <= s.openCount[p] /\ s.openCount[p] \in Nat
    BY DEF Limited, Within, Sound, Typed
  <2>. HIDE DEF one, asked
  <2>5. /\ Cardinality(OutOf(one, p)) <= Cardinality(OutOf(asked, p))
        /\ Cardinality(OutOf(asked \ one, p))
              = Cardinality(OutOf(asked, p)) - Cardinality(OutOf(one, p))
    BY Zenon, <2>2 DEF Arithmetic, CountFewer
  <2>6. Cardinality(OutOf(asked, p)) \in Nat /\ Cardinality(OutOf(one, p)) \in Nat
    BY Zenon, <2>2 DEF Arithmetic, Countable
  <2>7. Cardinality(OutOf(one, p)) <= s.openCount[p]
    BY <2>4, <2>5, <2>6
  <2>8. t.openCount[p] = s.openCount[p] - Cardinality(OutOf(one, p))
    BY Zenon, <2>3, <2>4, <2>6, <2>7, MinusIs
  <2>. QED  BY <2>1, <2>2, <2>4, <2>5, <2>6, <2>8
<1>. QED  BY <1>1, FewerCounted

-----------------------------------------------------------------------------
(* The inductive invariant.                                                *)

LivesOn(l, cs) == \A c \in cs : l[c[1]] # "gone" /\ l[c[2]] # "gone"

LifeCycle == {"valid", "offboarding", "leaving", "gone"}

\* What the calls of root may break.
Unforced(s) == Limited(s) /\ s.closeRequests \subseteq Open(s)

ChannelInv ==
    /\ Sound(h)
    /\ config \in Configs
    /\ life \in [Paras -> LifeCycle]
    /\ forced \in Nat
    /\ LivesOn(life, Open(h) \cup Requested(h))
    /\ Covered(h, config)
    /\ forced = 0 => Unforced(h)

\* Storage starts empty, with every para valid (Init of the hrmp pallet, hrmp.rs).
LEMMA ChannelInit == Arithmetic /\ Init => ChannelInv
<1>. SUFFICES ASSUME Arithmetic, Init PROVE ChannelInv
  OBVIOUS
<1>1. Typed(h)
  BY DEF Init, Typed, Fields
<1>2. /\ Open(h) = {} /\ Requested(h) = {} /\ h.list = {} /\ Confirmed(h) = {}
      /\ h.closeRequests = {}
  BY DEF Init, Open, Requested, Confirmed
<1>3. \A p \in Paras : /\ h.ingress[p] = {} /\ h.egress[p] = {}
                       /\ h.openCount[p] = 0 /\ h.acceptedCount[p] = 0
                       /\ h.reserved[p] = 0
  BY DEF Init
<1>4. Indexed(h)
  BY <1>2, <1>3, ChannelPairs DEF Indexed
<1>5. Limited(h)
  <2>. SUFFICES ASSUME NEW p \in Paras PROVE Within(h, p)
    BY DEF Limited
  <2>1. OutOf({}, p) = {} /\ Into({}, p) = {} /\ {} \cup {} = {}
    BY DEF OutOf, Into
  <2>2. Cardinality({}) = 0
    BY Zenon DEF Arithmetic, Countable
  <2>3. 0 <= OutboundLimit[p] /\ 0 <= InboundLimit[p] /\ 0 <= 0
    BY HrmpChannelsAssumption
  <2>. QED  BY Zenon, <1>2, <1>3, <2>1, <2>2, <2>3 DEF Within
<1>6. Covered(h, config)
  <2>. SUFFICES ASSUME NEW p \in Paras PROVE OwedIn(h, config, p) <= h.reserved[p]
    BY DEF Covered
  <2>. DEFINE f == Due(h, config, p)
  <2>1. \A c \in Channels : f[c] = 0
    BY DEF Init, Due, RequestDue, ChannelDue
  <2>. HIDE DEF f
  <2>2. SumFunctionOnSet(f, Channels) = 0
    BY Zenon, <2>1 DEF Arithmetic, SumZero
  <2>. QED  BY <1>3, <2>2 DEF OwedIn, f
<1>7. Sound(h)
  BY Zenon, <1>1, <1>2, <1>4 DEF Sound
<1>8. LivesOn(life, Open(h) \cup Requested(h))
  BY <1>2 DEF LivesOn
<1>9. config \in Configs /\ life \in [Paras -> LifeCycle] /\ forced \in Nat
  BY DEF Init, LifeCycle
<1>10. Unforced(h)
  BY <1>2, <1>5 DEF Unforced
<1>. QED  BY Zenon, <1>6, <1>7, <1>8, <1>9, <1>10 DEF ChannelInv

\* A step that leaves the paras alone and makes no new channel and no new
\* request but between paras that are not gone (every call of hrmp.rs).
LEMMA KeepsChannelInv ==
    ASSUME ChannelInv, Sound(h'), life' = life, config' = config, forced' \in Nat,
           Covered(h', config),
           forced' = 0 => Unforced(h'),
           \A c \in Open(h') \cup Requested(h') :
               c \in Open(h) \cup Requested(h) \/ (life[c[1]] # "gone" /\ life[c[2]] # "gone")
    PROVE  ChannelInv'
<1>1. LivesOn(life', Open(h') \cup Requested(h'))
  BY DEF ChannelInv, LivesOn
<1>2. Covered(h', config') /\ config' \in Configs /\ life' \in [Paras -> LifeCycle]
  BY DEF ChannelInv
<1>. QED  BY Zenon, <1>1, <1>2 DEF ChannelInv

\* A counter, or a reserve, that grew by n for the para q.
Raised(f, q, n, g) ==
    /\ g \in [Paras -> Nat]
    /\ \A p \in Paras : g[p] = f[p] + (IF p = q THEN n ELSE 0)

\* Counters and reserves grow in one place (init_open_channel and
\* accept_open_channel, hrmp.rs).
LEMMA Raising ==
    ASSUME NEW f \in [Paras -> Nat], NEW q \in Paras, NEW n \in Nat
    PROVE  Raised(f, q, n, [f EXCEPT ![q] = @ + n])
  BY DEF Raised

\* What init_open_channel (hrmp.rs) does to the storage.
LEMMA InitOpenEffect ==
    ASSUME NEW c, Fields(h), init_open_channel(c), NEW r,
           r = [confirmed |-> FALSE, sender_deposit |-> config.sender],
           h.requests[c] = None, r # None
    PROVE  Revised(h, c, r, [h.openCount EXCEPT ![c[1]] = @ + 1], h.acceptedCount,
                   [h.reserved EXCEPT ![c[1]] = @ + config.sender], h')
<1>. DEFINE res == [h.reserved EXCEPT ![c[1]] = @ + config.sender]
            oc == [h.openCount EXCEPT ![c[1]] = @ + 1]
            rq == [h.requests EXCEPT ![c] = r]
            li == h.list \cup {c}
<1>1. h' = [h EXCEPT !.reserved = res, !.openCount = oc, !.requests = rq, !.list = li]
  BY DEF init_open_channel
<1>. HIDE DEF res, oc, rq, li
<1>2. /\ Fields(h') /\ h'.requests = rq /\ h'.list = li
      /\ h'.openCount = oc /\ h'.acceptedCount = h.acceptedCount /\ h'.reserved = res
      /\ h'.closeRequests = h.closeRequests /\ h'.channels = h.channels
      /\ h'.ingress = h.ingress /\ h'.egress = h.egress
  BY Zenon, <1>1 DEF Fields
<1>. QED  BY Zenon, <1>2 DEF Revised, res, oc, rq, li

\* A request to open a channel.
LEMMA InitOpenStep ==
    ASSUME Arithmetic, ChannelInv, NEW c \in Channels, init_open_channel(c)
    PROVE  ChannelInv'
<1>. DEFINE r == [confirmed |-> FALSE, sender_deposit |-> config.sender]
            oc == [h.openCount EXCEPT ![c[1]] = @ + 1]
            res == [h.reserved EXCEPT ![c[1]] = @ + config.sender]
            ac == h.acceptedCount
<1>1. /\ config' = config /\ life' = life /\ forced' = forced
      /\ life[c[1]] # "gone" /\ life[c[2]] # "gone"
      /\ h.channels[c] = None /\ h.requests[c] = None
      /\ Cardinality(h.egress[c[1]]) + h.openCount[c[1]] < OutboundLimit[c[1]]
  BY DEF init_open_channel, CanCall, is_valid_para, WithinOutbound
<1>2. /\ Sound(h) /\ Fields(h) /\ Typed(h) /\ forced \in Nat
      /\ config \in Configs /\ Covered(h, config)
  BY Zenon DEF ChannelInv, Sound, Typed
<1>3. /\ r \in Requests /\ r # None /\ config.sender \in Nat
      /\ ~r.confirmed /\ r.sender_deposit = config.sender
  <2>1. config.sender \in Nat
    BY <1>2, HrmpChannelsAssumption
  <2>2. r \in Requests /\ ~r.confirmed /\ r.sender_deposit = config.sender
    BY <2>1 DEF Requests
  <2>. QED  BY Zenon, <2>1, <2>2, NoneIsNeither
<1>. HIDE DEF r
<1>4. Revised(h, c, r, oc, ac, res, h')
  BY Zenon, <1>1, <1>2, <1>3, InitOpenEffect DEF r
<1>5. c[1] \in Paras /\ c[2] \in Paras
  BY ChannelPairs
<1>6. /\ Raised(h.openCount, c[1], 1, oc) /\ Raised(h.reserved, c[1], config.sender, res)
      /\ res \in [Paras -> Nat] /\ oc \in [Paras -> Nat] /\ ac \in [Paras -> Nat]
  <2>1. h.openCount \in [Paras -> Nat] /\ h.reserved \in [Paras -> Nat] /\ ac \in [Paras -> Nat]
    BY <1>2 DEF Typed
  <2>2. Raised(h.openCount, c[1], 1, oc) /\ Raised(h.reserved, c[1], config.sender, res)
    BY <1>3, <1>5, <2>1, Raising
  <2>. QED  BY <2>1, <2>2 DEF Raised
<1>. HIDE DEF res, oc, ac
<1>7. c \notin Requested(h) /\ c \notin Open(h) /\ c \notin Confirmed(h)
  BY <1>1 DEF Requested, Open, Confirmed
<1>8. r \in Requests \cup {None}
  BY <1>3
<1>9. Rewritten(h, c, r, h') /\ Sound(h')
  BY Zenon, <1>2, <1>4, <1>6, <1>7, <1>8, RevisedTyped, RevisedSound
<1>10. /\ h'.channels = h.channels /\ h'.closeRequests = h.closeRequests
       /\ h'.openCount = oc /\ h'.acceptedCount = ac
  BY <1>4 DEF Revised
<1>11. Reset(h, c, r, h')
  BY Zenon, <1>9, <1>10, RevisedSets
<1>12. /\ Open(h') = Open(h) /\ Requested(h') = Requested(h) \cup {c}
       /\ Confirmed(h') = Confirmed(h)
  BY <1>3, <1>7, <1>11 DEF Reset
<1>13. ASSUME NEW p \in Paras
       PROVE  Owes(r, config, c, p) + h.reserved[p] <= Owes(h.requests[c], config, c, p) + res[p]
  <2>1. Owes(h.requests[c], config, c, p) = 0
    BY <1>1 DEF Owes
  <2>2. Owes(r, config, c, p) = IF c[1] = p THEN config.sender ELSE 0
    BY <1>3 DEF Owes
  <2>3. h.reserved[p] \in Nat
    BY <1>2 DEF Typed
  <2>. QED  BY <1>3, <1>6, <2>1, <2>2, <2>3 DEF Raised
<1>14. Covered(h', config)
  BY Zenon, <1>2, <1>4, <1>6, <1>8, <1>13, RevisedCovered
<1>15. ASSUME forced = 0 PROVE Unforced(h')
  <2>1. Limited(h) /\ h.closeRequests \subseteq Open(h)
    BY <1>15 DEF ChannelInv, Unforced
  <2>2. \A p \in Paras : h'.openCount[p] = h.openCount[p] + (IF p = c[1] THEN 1 ELSE 0)
    BY Zenon, <1>6, <1>10 DEF Raised
  <2>3. h'.acceptedCount = h.acceptedCount
    BY <1>10 DEF ac
  <2>4. Limited(h')
    BY Zenon, <1>1, <1>2, <1>7, <1>12, <2>1, <2>2, <2>3, AskedLimited
  <2>. QED  BY <1>10, <1>12, <2>1, <2>4 DEF Unforced
<1>16. \A d \in Open(h') \cup Requested(h') :
          d \in Open(h) \cup Requested(h) \/ (life[d[1]] # "gone" /\ life[d[2]] # "gone")
  BY <1>1, <1>12
<1>. QED  BY Zenon, <1>1, <1>2, <1>9, <1>14, <1>15, <1>16, KeepsChannelInv

\* What accept_open_channel (hrmp.rs) does to the storage.
LEMMA AcceptEffect ==
    ASSUME NEW c, Fields(h), accept_open_channel(c), NEW r,
           r = [h.requests[c] EXCEPT !.confirmed = TRUE], r # None, c \in h.list
    PROVE  Revised(h, c, r, h.openCount, [h.acceptedCount EXCEPT ![c[2]] = @ + 1],
                   [h.reserved EXCEPT ![c[2]] = @ + config.recipient], h')
<1>. DEFINE res == [h.reserved EXCEPT ![c[2]] = @ + config.recipient]
            ac == [h.acceptedCount EXCEPT ![c[2]] = @ + 1]
            rq == [h.requests EXCEPT ![c] = r]
<1>1. h' = [h EXCEPT !.reserved = res, !.requests = rq, !.acceptedCount = ac]
  BY DEF accept_open_channel
<1>. HIDE DEF res, ac, rq
<1>2. /\ Fields(h') /\ h'.requests = rq /\ h'.list = h.list
      /\ h'.openCount = h.openCount /\ h'.acceptedCount = ac /\ h'.reserved = res
      /\ h'.closeRequests = h.closeRequests /\ h'.channels = h.channels
      /\ h'.ingress = h.ingress /\ h'.egress = h.egress
  BY Zenon, <1>1 DEF Fields
<1>3. h.list = h.list \cup {c}
  OBVIOUS
<1>. QED  BY Zenon, <1>2, <1>3 DEF Revised, res, ac, rq

\* A confirmed request is a request with the same deposit of its sender.
LEMMA ConfirmedRequest ==
    ASSUME NEW q \in Requests, NEW r, r = [q EXCEPT !.confirmed = TRUE]
    PROVE  r \in Requests /\ r.confirmed /\ r.sender_deposit = q.sender_deposit
<1>1. q = [confirmed |-> q.confirmed, sender_deposit |-> q.sender_deposit]
  BY DEF Requests
<1>2. r \in Requests
  BY Zenon DEF Requests
<1>3. r.confirmed = TRUE /\ r.sender_deposit = q.sender_deposit
  BY Zenon, <1>1
<1>. QED  BY <1>2, <1>3

\* The recipient accepts a request.
LEMMA AcceptOpenStep ==
    ASSUME Arithmetic, ChannelInv, NEW c \in Channels, accept_open_channel(c)
    PROVE  ChannelInv'
<1>. DEFINE q == h.requests[c]
            r == [q EXCEPT !.confirmed = TRUE]
            res == [h.reserved EXCEPT ![c[2]] = @ + config.recipient]
            ac == [h.acceptedCount EXCEPT ![c[2]] = @ + 1]
            oc == h.openCount
<1>1. /\ config' = config /\ life' = life /\ forced' = forced
      /\ q # None /\ ~q.confirmed
      /\ Cardinality(h.ingress[c[2]]) + h.acceptedCount[c[2]] < InboundLimit[c[2]]
  BY DEF accept_open_channel, WithinInbound
<1>2. /\ Sound(h) /\ Fields(h) /\ Typed(h) /\ forced \in Nat
      /\ config \in Configs /\ Covered(h, config)
  BY Zenon DEF ChannelInv, Sound, Typed
<1>3. c \in Requested(h) /\ c \notin Confirmed(h) /\ c \notin Open(h) /\ c \in h.list
  BY <1>1, <1>2 DEF Requested, Confirmed, Sound
<1>4. q \in Requests
  BY <1>1, <1>2 DEF Typed
<1>. HIDE DEF q
<1>5. r \in Requests /\ r.confirmed /\ r.sender_deposit = q.sender_deposit
  BY <1>4, ConfirmedRequest
<1>6. r # None /\ r \in Requests \cup {None}
  BY Zenon, <1>5, NoneIsNeither
<1>7. config.recipient \in Nat
  BY <1>2, HrmpChannelsAssumption
<1>. HIDE DEF r
<1>8. Revised(h, c, r, oc, ac, res, h')
  BY Zenon, <1>2, <1>3, <1>6, AcceptEffect DEF r, q
<1>9. c[1] \in Paras /\ c[2] \in Paras
  BY ChannelPairs
<1>10. /\ Raised(h.acceptedCount, c[2], 1, ac) /\ Raised(h.reserved, c[2], config.recipient, res)
       /\ res \in [Paras -> Nat] /\ ac \in [Paras -> Nat] /\ oc \in [Paras -> Nat]
  <2>1. h.acceptedCount \in [Paras -> Nat] /\ h.reserved \in [Paras -> Nat] /\ oc \in [Paras -> Nat]
    BY <1>2 DEF Typed
  <2>2. Raised(h.acceptedCount, c[2], 1, ac) /\ Raised(h.reserved, c[2], config.recipient, res)
    BY <1>7, <1>9, <2>1, Raising
  <2>. QED  BY <2>1, <2>2 DEF Raised
<1>. HIDE DEF res, oc, ac
<1>11. Rewritten(h, c, r, h') /\ Sound(h')
  BY Zenon, <1>2, <1>3, <1>6, <1>8, <1>10, RevisedTyped, RevisedSound
<1>12. /\ h'.channels = h.channels /\ h'.closeRequests = h.closeRequests
       /\ h'.openCount = oc /\ h'.acceptedCount = ac
  BY <1>8 DEF Revised
<1>13. Reset(h, c, r, h')
  BY Zenon, <1>11, <1>12, RevisedSets
<1>14. /\ Open(h') = Open(h) /\ Requested(h') = Requested(h)
       /\ Confirmed(h') = Confirmed(h) \cup {c}
  BY <1>3, <1>5, <1>6, <1>13 DEF Reset
<1>15. ASSUME NEW p \in Paras
       PROVE  Owes(r, config, c, p) + h.reserved[p] <= Owes(h.requests[c], config, c, p) + res[p]
  <2>1. q.sender_deposit \in Nat /\ h.reserved[p] \in Nat
    BY <1>2, <1>4 DEF Typed, Requests
  <2>2. Owes(q, config, c, p) = IF c[1] = p THEN q.sender_deposit ELSE 0
    BY <1>1, <2>1 DEF Owes
  <2>3. Owes(r, config, c, p) = (IF c[1] = p THEN q.sender_deposit ELSE 0)
                                + (IF c[2] = p THEN config.recipient ELSE 0)
    BY <1>5, <1>6 DEF Owes
  <2>4. Owes(r, config, c, p) + h.reserved[p] <= Owes(q, config, c, p) + res[p]
    BY <1>7, <1>10, <2>1, <2>2, <2>3 DEF Raised
  <2>. QED  BY Zenon, <2>4 DEF q
<1>16. Covered(h', config)
  BY Zenon, <1>2, <1>6, <1>8, <1>10, <1>15, RevisedCovered
<1>17. ASSUME forced = 0 PROVE Unforced(h')
  <2>1. Limited(h) /\ h.closeRequests \subseteq Open(h)
    BY <1>17 DEF ChannelInv, Unforced
  <2>2. \A p \in Paras : h'.acceptedCount[p] = h.acceptedCount[p] + (IF p = c[2] THEN 1 ELSE 0)
    BY Zenon, <1>10, <1>12 DEF Raised
  <2>3. h'.openCount = h.openCount
    BY <1>12 DEF oc
  <2>4. Limited(h')
    BY Zenon, <1>1, <1>2, <1>3, <1>14, <2>1, <2>2, <2>3, AcceptedLimited
  <2>. QED  BY <1>12, <1>14, <2>1, <2>4 DEF Unforced
<1>18. \A d \in Open(h') \cup Requested(h') :
          d \in Open(h) \cup Requested(h) \/ (life[d[1]] # "gone" /\ life[d[2]] # "gone")
  BY <1>14
<1>. QED  BY Zenon, <1>1, <1>2, <1>11, <1>16, <1>17, <1>18, KeepsChannelInv

\* What cancel_open_request (hrmp.rs) does to the storage.
LEMMA CancelEffect ==
    ASSUME NEW c, Fields(h), cancel_open_request(c), NEW a,
           a = [p \in Paras |-> IF p = c[1] THEN h.requests[c].sender_deposit ELSE 0]
    PROVE  Revised(h, c, None, OpenLess(h, {c}), h.acceptedCount, Unreserved(h, a), h')
<1>. DEFINE rq == [h.requests EXCEPT ![c] = None]
            li == h.list \ {c}
            one == {c}
            v == RemoveRequest(h, c)
            w == Unreserve(v, a)
<1>1. h' = DecreaseOpen(w, one)
  BY DEF cancel_open_request
<1>2. v = [h EXCEPT !.requests = rq, !.list = li]
  BY DEF RemoveRequest
<1>. HIDE DEF rq, li, v, one
<1>3. /\ Fields(v) /\ v.requests = rq /\ v.list = li
      /\ v.openCount = h.openCount /\ v.acceptedCount = h.acceptedCount
      /\ v.closeRequests = h.closeRequests /\ v.channels = h.channels
      /\ v.ingress = h.ingress /\ v.egress = h.egress /\ v.reserved = h.reserved
  BY Zenon, <1>2 DEF Fields
<1>4. Recounted(v, v.openCount, v.acceptedCount, Unreserved(v, a), w)
  BY Zenon, <1>3, UnreserveEffect
<1>. HIDE DEF w
<1>5. Fields(w)
  BY Zenon, <1>4 DEF Recounted
<1>6. Recounted(w, OpenLess(w, one), w.acceptedCount, w.reserved, h')
  BY Zenon, <1>1, <1>5, DecreaseOpenEffect
<1>7. Unreserved(v, a) = Unreserved(h, a)
  BY Zenon, <1>3 DEF Unreserved
<1>8. OpenLess(w, one) = OpenLess(h, one)
  BY Zenon, <1>3, <1>4 DEF OpenLess, Recounted
<1>9. /\ Fields(h') /\ h'.requests = rq /\ h'.list = li
      /\ h'.openCount = OpenLess(h, one) /\ h'.acceptedCount = h.acceptedCount
      /\ h'.closeRequests = h.closeRequests /\ h'.channels = h.channels
      /\ h'.ingress = h.ingress /\ h'.egress = h.egress /\ h'.reserved = Unreserved(h, a)
  BY Zenon, <1>3, <1>4, <1>6, <1>7, <1>8 DEF Recounted
<1>. QED  BY Zenon, <1>9 DEF Revised, rq, li, one

\* A request that was not accepted is cancelled.
LEMMA CancelStep ==
    ASSUME Arithmetic, ChannelInv, NEW c \in Channels, cancel_open_request(c)
    PROVE  ChannelInv'
<1>. DEFINE q == h.requests[c]
            a == [p \in Paras |-> IF p = c[1] THEN q.sender_deposit ELSE 0]
            one == {c}
            oc == OpenLess(h, one)
            ac == h.acceptedCount
            res == Unreserved(h, a)
<1>1. /\ config' = config /\ life' = life /\ forced' = forced
      /\ q # None /\ ~q.confirmed
  BY DEF cancel_open_request
<1>2. /\ Sound(h) /\ Fields(h) /\ Typed(h) /\ forced \in Nat
      /\ config \in Configs /\ Covered(h, config)
  BY Zenon DEF ChannelInv, Sound, Typed
<1>3. c \in Requested(h) /\ c \notin Confirmed(h) /\ c \notin Open(h)
  BY <1>1, <1>2 DEF Requested, Confirmed, Sound
<1>4. q \in Requests
  BY <1>1, <1>2 DEF Typed
<1>5. Revised(h, c, None, oc, ac, res, h')
  BY Zenon, <1>2, CancelEffect
<1>. HIDE DEF q
<1>6. q.sender_deposit \in Nat
  BY <1>4 DEF Requests
<1>7. \A p \in Paras : a[p] = (IF p = c[1] THEN q.sender_deposit ELSE 0) /\ a[p] \in Nat
  BY <1>6
<1>. HIDE DEF a
<1>8. one \in SUBSET Channels
  OBVIOUS
<1>. HIDE DEF one
<1>9. oc \in [Paras -> Nat] /\ ac \in [Paras -> Nat]
  <2>1. oc \in [Paras -> Nat]
    BY Zenon, <1>2, <1>8, CountersType
  <2>. QED  BY <1>2, <2>1 DEF Typed
<1>10. /\ res \in [Paras -> Nat]
       /\ \A p \in Paras : h.reserved[p] - a[p] <= res[p]
  BY Zenon, <1>2, <1>7, ReservesType
<1>. HIDE DEF res, oc, ac
<1>11. None \in Requests \cup {None}
  OBVIOUS
<1>12. Rewritten(h, c, None, h') /\ Sound(h')
  BY Zenon, <1>2, <1>3, <1>5, <1>9, <1>10, <1>11, RevisedTyped, RevisedSound
<1>13. /\ h'.channels = h.channels /\ h'.closeRequests = h.closeRequests
       /\ h'.openCount = oc /\ h'.acceptedCount = ac
  BY <1>5 DEF Revised
<1>14. Reset(h, c, None, h')
  BY Zenon, <1>12, <1>13, RevisedSets
<1>15. /\ Open(h') = Open(h) /\ Requested(h') = Requested(h) \ {c}
       /\ Confirmed(h') = Confirmed(h)
  BY <1>3, <1>14 DEF Reset
<1>16. ASSUME NEW p \in Paras
       PROVE  Owes(None, config, c, p) + h.reserved[p]
                 <= Owes(h.requests[c], config, c, p) + res[p]
  <2>1. h.reserved[p] \in Nat /\ res[p] \in Nat
    BY <1>2, <1>10 DEF Typed
  <2>2. Owes(q, config, c, p) = a[p]
    BY <1>1, <1>6, <1>7 DEF Owes
  <2>3. Owes(None, config, c, p) = 0
    BY DEF Owes
  <2>4. Owes(None, config, c, p) + h.reserved[p] <= Owes(q, config, c, p) + res[p]
    BY <1>7, <1>10, <2>1, <2>2, <2>3
  <2>. QED  BY Zenon, <2>4 DEF q
<1>17. Covered(h', config)
  BY Zenon, <1>2, <1>5, <1>9, <1>10, <1>11, <1>16, RevisedCovered
<1>18. ASSUME forced = 0 PROVE Unforced(h')
  <2>1. Limited(h) /\ h.closeRequests \subseteq Open(h)
    BY <1>18 DEF ChannelInv, Unforced
  <2>2. h'.openCount = OpenLess(h, {c}) /\ h'.acceptedCount = h.acceptedCount
    BY Zenon, <1>13 DEF oc, ac, one
  <2>3. Limited(h')
    BY Zenon, <1>2, <1>3, <1>15, <2>1, <2>2, CancelledLimited
  <2>. QED  BY <1>13, <1>15, <2>1, <2>3 DEF Unforced
<1>19. \A d \in Open(h') \cup Requested(h') :
          d \in Open(h) \cup Requested(h) \/ (life[d[1]] # "gone" /\ life[d[2]] # "gone")
  BY <1>15
<1>. QED  BY Zenon, <1>1, <1>2, <1>12, <1>17, <1>18, <1>19, KeepsChannelInv

\* A party asks to close an open channel.
LEMMA CloseStep ==
    ASSUME ChannelInv, NEW c \in Channels, close_channel(c)
    PROVE  ChannelInv'
<1>. DEFINE cr == h.closeRequests \cup {c}
<1>1. /\ h' = [h EXCEPT !.closeRequests = cr]
      /\ config' = config /\ life' = life /\ forced' = forced
      /\ h.channels[c] # None
  BY DEF close_channel
<1>2. Sound(h) /\ Typed(h) /\ forced \in Nat /\ config \in Configs /\ Covered(h, config)
  BY Zenon DEF ChannelInv, Sound
<1>3. cr \in SUBSET Channels /\ c \in Open(h)
  BY <1>1, <1>2 DEF Typed, Open
<1>. HIDE DEF cr
<1>4. /\ Sound(h') /\ h'.closeRequests = cr
      /\ Requested(h') = Requested(h) /\ Open(h') = Open(h)
      /\ Kept(h, h')
  BY Zenon, <1>1, <1>2, <1>3, OnlyCloseRequests
<1>5. Covered(h', config)
  BY <1>2, <1>4 DEF Kept
<1>6. ASSUME forced = 0 PROVE Unforced(h')
  <2>1. Limited(h) /\ h.closeRequests \subseteq Open(h)
    BY <1>6 DEF ChannelInv, Unforced
  <2>. QED  BY <1>3, <1>4, <2>1 DEF Kept, Unforced, cr
<1>. QED  BY Zenon, <1>1, <1>2, <1>4, <1>5, <1>6, KeepsChannelInv

\* Some requests and channels are gone, all of the paras of outgoing among them.
Purged(s, cfg, outgoing, t) ==
    /\ Sound(t) /\ Covered(t, cfg) /\ (Limited(s) => Limited(t))
    /\ \A c \in Open(t) \cup Requested(t) :
          c \in Open(s) \cup Requested(s) /\ Participants(c) \cap outgoing = {}

\* The two clean-ups of a session change (initializer_on_new_session, hrmp.rs)
\* leave no request and no channel of an outgoing para.
LEMMA SessionCleans ==
    ASSUME Arithmetic, NEW s, Sound(s), NEW cfg \in Configs, Covered(s, cfg),
           NEW outgoing, NEW t,
           t = clean_hrmp_after_outgoing(clean_open_channel_requests(s, cfg, outgoing), outgoing)
    PROVE  Purged(s, cfg, outgoing, t)
<1>. DEFINE go == Leaving(s, outgoing)
            a == clean_open_channel_requests(s, cfg, outgoing)
<1>1. Fields(s) /\ Typed(s)
  BY DEF Sound, Typed
<1>2. Dropped(s, cfg, outgoing, go, a)
  BY Zenon, <1>1, DropEffect
<1>3. t = clean_hrmp_after_outgoing(a, outgoing)
  OBVIOUS
<1>4. /\ go \in SUBSET Channels
      /\ Requested(s) \ go = {c \in Requested(s) : Participants(c) \cap outgoing = {}}
  BY SetsOfChannels DEF Leaving, Sound
<1>. HIDE DEF a, go
<1>5. Sound(a) /\ Covered(a, cfg)
  BY Zenon, <1>1, <1>2, <1>4, DroppedSound, DroppedCovered
<1>6. Limited(s) => Limited(a)
  BY Zenon, <1>2, <1>4, DroppedLimited
<1>7. Open(a) = Open(s) /\ Requested(a) = Requested(s) \ go
  BY <1>2, DroppedSets
<1>8. Cleaned(a, outgoing, t)
  BY Zenon, <1>3, <1>5, CleaningOutgoing
<1>9. \A c \in Requested(a) : Participants(c) \cap outgoing = {}
  BY <1>4, <1>7
<1>10. Limited(s) => Limited(t)
  BY Zenon, <1>6, <1>8, <1>9, CleaningOutgoingLimited
<1>11. /\ Sound(t) /\ Covered(t, cfg) /\ Requested(t) = Requested(a)
       /\ Open(t) = {c \in Open(a) : Participants(c) \cap outgoing = {}}
  BY Zenon, <1>5, <1>8 DEF Cleaned
<1>12. \A c \in Open(t) \cup Requested(t) :
          c \in Open(s) \cup Requested(s) /\ Participants(c) \cap outgoing = {}
  BY <1>7, <1>9, <1>11
<1>. QED  BY Zenon, <1>10, <1>11, <1>12 DEF Purged

\* A session change: the channels and requests of the paras that leave go
\* before the paras are gone, what opens has two valid parties, no confirmed
\* request is left when the configuration changes, and no close request
\* (initializer_on_new_session, hrmp.rs).
LEMMA SessionStep ==
    ASSUME Arithmetic, ChannelInv, initializer_on_new_session
    PROVE  ChannelInv'
<1>. DEFINE outgoing == {p \in Paras : life[p] = "leaving"}
<1>1. PICK newConfig \in Configs, incoming \in SUBSET {p \in Paras : life[p] = "gone"} :
        /\ h' = process_hrmp_close_channel_requests(process_hrmp_open_channel_requests(
                    clean_hrmp_after_outgoing(
                        clean_open_channel_requests(h, config, outgoing), outgoing),
                    ConfigOfOpening(config, newConfig), Aged(life, incoming)))
        /\ life' = Aged(life, incoming)
        /\ config' = newConfig
        /\ forced' = forced
  BY Zenon DEF initializer_on_new_session
<1>. DEFINE b == clean_hrmp_after_outgoing(
                     clean_open_channel_requests(h, config, outgoing), outgoing)
            new == {c \in Confirmed(b) : \A p \in Participants(c) : is_valid_para(life', p)}
            d == process_hrmp_open_channel_requests(b, config, life')
<1>2. Sound(h) /\ config \in Configs /\ Covered(h, config) /\ forced \in Nat
  BY Zenon DEF ChannelInv
<1>3. h' = process_hrmp_close_channel_requests(d)
  BY Zenon, <1>1 DEF ConfigOfOpening
<1>4. \A p \in Paras : p \in outgoing <=> life[p] = "leaving"
  OBVIOUS
<1>. HIDE DEF outgoing
<1>5. Purged(h, config, outgoing, b)
  BY Zenon, <1>2, SessionCleans
<1>. HIDE DEF b
<1>6. Enacted(b, config, new, d)
  BY Zenon, <1>2, <1>5, Opening DEF Purged
<1>7. \A c \in new : \A p \in Participants(c) : is_valid_para(life', p)
  OBVIOUS
<1>. HIDE DEF d, new
<1>8. /\ Sound(d) /\ Requested(d) \subseteq Requested(b) /\ Open(d) = Open(b) \cup new
      /\ Covered(d, newConfig) /\ (Limited(h) => Limited(d))
  BY Zenon, <1>5, <1>6 DEF Enacted, Purged
<1>9. Flushed(d, h')
  BY Zenon, <1>3, <1>8, ClosingRequested
<1>10. /\ Sound(h') /\ Requested(h') = Requested(d) /\ Open(h') \subseteq Open(d)
       /\ h'.closeRequests = {}
       /\ Limited(h) => Limited(h')
       /\ Covered(h', config')
  BY Zenon, <1>1, <1>8, <1>9 DEF Flushed, Kept
<1>11. life' \in [Paras -> LifeCycle]
  BY <1>1 DEF ChannelInv, Aged, LifeCycle
<1>12. \A p \in Paras : life[p] # "gone" /\ life[p] # "leaving" => life'[p] # "gone"
  BY <1>1 DEF ChannelInv, Aged, LifeCycle
<1>13. ASSUME NEW c \in Open(h') \cup Requested(h')
       PROVE  life'[c[1]] # "gone" /\ life'[c[2]] # "gone"
  <2>1. c \in Channels /\ c[1] \in Paras /\ c[2] \in Paras
    BY ChannelPairs, SetsOfChannels
  <2>2. CASE c \in Open(b) \cup Requested(b)
    <3>1. /\ c \in Open(h) \cup Requested(h)
          /\ Participants(c) \cap outgoing = {}
      BY Zenon, <1>5, <2>2 DEF Purged
    <3>2. life[c[1]] # "leaving" /\ life[c[2]] # "leaving"
      BY <1>4, <2>1, <3>1 DEF Participants
    <3>3. life[c[1]] # "gone" /\ life[c[2]] # "gone"
      BY <3>1 DEF ChannelInv, LivesOn
    <3>. QED  BY <1>12, <2>1, <3>2, <3>3
  <2>3. CASE c \notin Open(b) \cup Requested(b)
    <3>1. c \in new
      BY <1>8, <1>10, <2>3
    <3>2. \A p \in Participants(c) : is_valid_para(life', p)
      BY <1>7, <3>1
    <3>. QED  BY <3>2 DEF Participants, is_valid_para
  <2>. QED  BY <2>2, <2>3
<1>14. LivesOn(life', Open(h') \cup Requested(h'))
  BY <1>13 DEF LivesOn
<1>15. forced' = 0 => Unforced(h')
  BY Zenon, <1>1, <1>10 DEF ChannelInv, Unforced
<1>16. config' \in Configs /\ forced' \in Nat
  BY <1>1, <1>2
<1>. QED  BY Zenon, <1>10, <1>11, <1>14, <1>15, <1>16 DEF ChannelInv

\* Root has the channels of a para cleaned up (force_clean_hrmp, hrmp.rs): the
\* channels, the indexes and the deposits still agree.
LEMMA ForceCleanStep ==
    ASSUME Arithmetic, ChannelInv, NEW p \in Paras, force_clean_hrmp(p)
    PROVE  ChannelInv'
<1>. DEFINE out == {p}
<1>1. /\ h' = clean_hrmp_after_outgoing(h, out) /\ life' = life /\ config' = config
      /\ forced' = forced + 1
  BY DEF force_clean_hrmp, ForceTo
<1>2. Sound(h) /\ config \in Configs /\ Covered(h, config) /\ forced \in Nat
  BY Zenon DEF ChannelInv
<1>. HIDE DEF out
<1>3. Cleaned(h, out, h')
  BY Zenon, <1>1, <1>2, CleaningOutgoing
<1>4. /\ Sound(h') /\ Requested(h') = Requested(h) /\ Covered(h', config)
      /\ Open(h') = {c \in Open(h) : Participants(c) \cap out = {}}
  BY Zenon, <1>2, <1>3 DEF Cleaned
<1>5. forced' \in Nat /\ forced' # 0
  BY <1>1, <1>2
<1>. QED  BY Zenon, <1>1, <1>4, <1>5, KeepsChannelInv

\* Root has the confirmed requests enacted at once (force_process_hrmp_open,
\* hrmp.rs).
LEMMA ForceOpenStep ==
    ASSUME Arithmetic, ChannelInv, force_process_hrmp_open
    PROVE  ChannelInv'
<1>. DEFINE new == {c \in Confirmed(h) : \A p \in Participants(c) : is_valid_para(life, p)}
<1>1. /\ h' = process_hrmp_open_channel_requests(h, config, life)
      /\ life' = life /\ config' = config /\ forced' = forced + 1
  BY DEF force_process_hrmp_open, ForceTo
<1>2. Sound(h) /\ config \in Configs /\ Covered(h, config) /\ forced \in Nat
  BY Zenon DEF ChannelInv
<1>3. Enacted(h, config, new, h')
  BY Zenon, <1>1, <1>2, Opening
<1>4. \A c \in new : life[c[1]] # "gone" /\ life[c[2]] # "gone"
  BY DEF Participants, is_valid_para
<1>. HIDE DEF new
<1>5. /\ Sound(h') /\ Requested(h') \subseteq Requested(h) /\ Open(h') = Open(h) \cup new
      /\ Covered(h', config)
  BY Zenon, <1>2, <1>3 DEF Enacted
<1>6. forced' \in Nat /\ forced' # 0
  BY <1>1, <1>2
<1>7. \A c \in Open(h') \cup Requested(h') :
         c \in Open(h) \cup Requested(h) \/ (life[c[1]] # "gone" /\ life[c[2]] # "gone")
  BY <1>4, <1>5
<1>. QED  BY Zenon, <1>1, <1>5, <1>6, <1>7, KeepsChannelInv

\* Root has the close requests enacted at once (force_process_hrmp_close,
\* hrmp.rs).
LEMMA ForceCloseStep ==
    ASSUME Arithmetic, ChannelInv, force_process_hrmp_close
    PROVE  ChannelInv'
<1>1. /\ h' = process_hrmp_close_channel_requests(h)
      /\ life' = life /\ config' = config /\ forced' = forced + 1
  BY DEF force_process_hrmp_close, ForceTo
<1>2. Sound(h) /\ config \in Configs /\ Covered(h, config) /\ forced \in Nat
  BY Zenon DEF ChannelInv
<1>3. Flushed(h, h')
  BY Zenon, <1>1, <1>2, ClosingRequested
<1>4. /\ Sound(h') /\ Requested(h') = Requested(h) /\ Open(h') \subseteq Open(h)
      /\ Covered(h', config)
  BY Zenon, <1>2, <1>3 DEF Flushed, Kept
<1>5. forced' \in Nat /\ forced' # 0
  BY <1>1, <1>2
<1>. QED  BY Zenon, <1>1, <1>4, <1>5, KeepsChannelInv

\* A para is scheduled to leave (schedule_para_cleanup, paras/mod.rs).
LEMMA CleanupStep ==
    ASSUME ChannelInv, NEW p \in Paras, schedule_para_cleanup(p)
    PROVE  ChannelInv'
<1>1. /\ h' = h /\ config' = config /\ forced' = forced
      /\ life' = [life EXCEPT ![p] = "offboarding"]
  BY DEF schedule_para_cleanup
<1>2. /\ life' \in [Paras -> LifeCycle]
      /\ \A q \in Paras : life[q] # "gone" => life'[q] # "gone"
  BY <1>1 DEF ChannelInv, LifeCycle
<1>3. \A c \in Open(h) \cup Requested(h) : c[1] \in Paras /\ c[2] \in Paras
  BY ChannelPairs, SetsOfChannels
<1>4. LivesOn(life', Open(h) \cup Requested(h))
  BY <1>2, <1>3 DEF ChannelInv, LivesOn
<1>. QED  BY Zenon, <1>1, <1>2, <1>4 DEF ChannelInv

\* Every step of the pallet keeps the invariant.
LEMMA ChannelStep == Arithmetic /\ ChannelInv /\ [Next]_hrmpVars => ChannelInv'
<1>. SUFFICES ASSUME Arithmetic, ChannelInv, [Next]_hrmpVars PROVE ChannelInv'
  OBVIOUS
<1>1. ASSUME NEW c \in Channels,
             init_open_channel(c) \/ accept_open_channel(c)
             \/ cancel_open_request(c) \/ close_channel(c)
      PROVE  ChannelInv'
  BY Zenon, <1>1, InitOpenStep, AcceptOpenStep, CancelStep, CloseStep
<1>2. ASSUME NEW p \in Paras, force_clean_hrmp(p) \/ schedule_para_cleanup(p)
      PROVE  ChannelInv'
  BY Zenon, <1>2, ForceCleanStep, CleanupStep
<1>3. CASE force_process_hrmp_open \/ force_process_hrmp_close
  BY Zenon, <1>3, ForceOpenStep, ForceCloseStep
<1>4. CASE initializer_on_new_session
  BY Zenon, <1>4, SessionStep
<1>5. CASE UNCHANGED hrmpVars
  BY Zenon, <1>5 DEF hrmpVars, ChannelInv
<1>. QED  BY Zenon, <1>1, <1>2, <1>3, <1>4, <1>5 DEF Next

-----------------------------------------------------------------------------
(* Cardinalities and sums.                                                 *)

INSTANCE FoldTheorems

\* There are finitely many paras, so finitely many channels (HrmpChannelId,
\* hrmp.rs).
LEMMA FiniteParts ==
    ASSUME NEW cs, cs \subseteq Channels, NEW p
    PROVE  /\ IsFiniteSet(cs)
           /\ IsFiniteSet(OutOf(cs, p)) /\ Cardinality(OutOf(cs, p)) \in Nat
           /\ IsFiniteSet(Into(cs, p)) /\ Cardinality(Into(cs, p)) \in Nat
<1>1. IsFiniteSet(Paras \X Paras)
  BY Zenon, HrmpChannelsAssumption, FS_Product
<1>2. /\ cs \subseteq Paras \X Paras
      /\ OutOf(cs, p) \subseteq Paras \X Paras /\ Into(cs, p) \subseteq Paras \X Paras
  BY HrmpChannelsAssumption DEF OutOf, Into
<1>3. IsFiniteSet(cs) /\ IsFiniteSet(OutOf(cs, p)) /\ IsFiniteSet(Into(cs, p))
  BY Zenon, <1>1, <1>2, FS_Subset
<1>. QED  BY Zenon, <1>3, FS_CardinalityType

\* Parts of a finite set, as the predicates about channels use them.
LEMMA FiniteCounts ==
    ASSUME NEW A, IsFiniteSet(A), NEW B \in SUBSET A
    PROVE  /\ Cardinality(B) <= Cardinality(A)
           /\ Cardinality(A \ B) = Cardinality(A) - Cardinality(B)
<1>1. Cardinality(B) <= Cardinality(A)
  BY Zenon, FS_Subset
<1>2. Cardinality(A \ B) = Cardinality(A) - Cardinality(A \cap B)
  BY Zenon, FS_Difference
<1>3. A \cap B = B
  OBVIOUS
<1>. QED  BY Zenon, <1>1, <1>2, <1>3

\* Counting fewer channels (decrease_accepted_channel_request_count, hrmp.rs).
LEMMA FewerChannels == CountFewer
<1>. SUFFICES ASSUME NEW ds \in SUBSET Channels, NEW cs \in SUBSET ds, NEW p \in Paras
     PROVE  /\ Cardinality(OutOf(cs, p)) <= Cardinality(OutOf(ds, p))
            /\ Cardinality(Into(cs, p)) <= Cardinality(Into(ds, p))
            /\ Cardinality(OutOf(ds \ cs, p))
                  = Cardinality(OutOf(ds, p)) - Cardinality(OutOf(cs, p))
            /\ Cardinality(Into(ds \ cs, p))
                  = Cardinality(Into(ds, p)) - Cardinality(Into(cs, p))
  BY Zenon DEF CountFewer
<1>1. IsFiniteSet(OutOf(ds, p)) /\ IsFiniteSet(Into(ds, p))
  BY FiniteParts
<1>2. OutOf(cs, p) \in SUBSET OutOf(ds, p) /\ Into(cs, p) \in SUBSET Into(ds, p)
  BY DEF OutOf, Into
<1>3. /\ OutOf(ds \ cs, p) = OutOf(ds, p) \ OutOf(cs, p)
      /\ Into(ds \ cs, p) = Into(ds, p) \ Into(cs, p)
  BY DEF OutOf, Into
<1>4. /\ Cardinality(OutOf(cs, p)) <= Cardinality(OutOf(ds, p))
      /\ Cardinality(OutOf(ds, p) \ OutOf(cs, p))
            = Cardinality(OutOf(ds, p)) - Cardinality(OutOf(cs, p))
  BY Zenon, <1>1, <1>2, FiniteCounts
<1>5. /\ Cardinality(Into(cs, p)) <= Cardinality(Into(ds, p))
      /\ Cardinality(Into(ds, p) \ Into(cs, p))
            = Cardinality(Into(ds, p)) - Cardinality(Into(cs, p))
  BY Zenon, <1>1, <1>2, FiniteCounts
<1>. QED  BY Zenon, <1>3, <1>4, <1>5

\* Counting one channel more (init_open_channel, accept_open_channel, hrmp.rs).
LEMMA OneMore == CountOneMore
<1>. SUFFICES ASSUME NEW cs \in SUBSET Channels, NEW p \in Paras, NEW c \in Channels \ cs
     PROVE  /\ Cardinality(OutOf(cs \cup {c}, p))
                  = Cardinality(OutOf(cs, p)) + (IF c[1] = p THEN 1 ELSE 0)
            /\ Cardinality(Into(cs \cup {c}, p))
                  = Cardinality(Into(cs, p)) + (IF c[2] = p THEN 1 ELSE 0)
  BY Zenon DEF CountOneMore
<1>1. /\ IsFiniteSet(OutOf(cs, p)) /\ IsFiniteSet(Into(cs, p))
      /\ Cardinality(OutOf(cs, p)) \in Nat /\ Cardinality(Into(cs, p)) \in Nat
  BY Zenon, FiniteParts
<1>2. /\ c[1] = p => OutOf(cs \cup {c}, p) = OutOf(cs, p) \cup {c}
      /\ c[1] # p => OutOf(cs \cup {c}, p) = OutOf(cs, p)
      /\ c[2] = p => Into(cs \cup {c}, p) = Into(cs, p) \cup {c}
      /\ c[2] # p => Into(cs \cup {c}, p) = Into(cs, p)
      /\ c \notin OutOf(cs, p) /\ c \notin Into(cs, p)
  BY DEF OutOf, Into
<1>3. /\ Cardinality(OutOf(cs, p) \cup {c}) = Cardinality(OutOf(cs, p)) + 1
      /\ Cardinality(Into(cs, p) \cup {c}) = Cardinality(Into(cs, p)) + 1
  BY Zenon, <1>1, <1>2, FS_AddElement
<1>. QED  BY <1>1, <1>2, <1>3

\* A union has at most as many elements as its parts together.
LEMMA UnionBound ==
    ASSUME NEW A, NEW B, IsFiniteSet(A), IsFiniteSet(B)
    PROVE  Cardinality(A \cup B) <= Cardinality(A) + Cardinality(B)
<1>1. IsFiniteSet(A \cap B)
  <2>1. A \cap B \subseteq A
    OBVIOUS
  <2>. QED  BY Zenon, <2>1, FS_Subset
<1>2. Cardinality(A) \in Nat /\ Cardinality(B) \in Nat /\ Cardinality(A \cap B) \in Nat
  BY Zenon, <1>1, FS_CardinalityType
<1>3. Cardinality(A \cup B) = Cardinality(A) + Cardinality(B) - Cardinality(A \cap B)
  BY Zenon, FS_Union
<1>. QED  BY <1>2, <1>3

\* Counting two sets of channels together: the channels of the index and the
\* requests of the counter (init_open_channel, hrmp.rs).
LEMMA Together == CountTogether
<1>. SUFFICES ASSUME NEW cs \in SUBSET Channels, NEW ds \in SUBSET Channels, NEW p \in Paras
     PROVE  /\ Cardinality(OutOf(cs \cup ds, p))
                  <= Cardinality(OutOf(cs, p)) + Cardinality(OutOf(ds, p))
            /\ Cardinality(Into(cs \cup ds, p))
                  <= Cardinality(Into(cs, p)) + Cardinality(Into(ds, p))
  BY Zenon DEF CountTogether
<1>1. /\ IsFiniteSet(OutOf(cs, p)) /\ IsFiniteSet(Into(cs, p))
      /\ IsFiniteSet(OutOf(ds, p)) /\ IsFiniteSet(Into(ds, p))
  BY FiniteParts
<1>2. /\ OutOf(cs \cup ds, p) = OutOf(cs, p) \cup OutOf(ds, p)
      /\ Into(cs \cup ds, p) = Into(cs, p) \cup Into(ds, p)
  BY DEF OutOf, Into
<1>3. /\ Cardinality(OutOf(cs, p) \cup OutOf(ds, p))
            <= Cardinality(OutOf(cs, p)) + Cardinality(OutOf(ds, p))
      /\ Cardinality(Into(cs, p) \cup Into(ds, p))
            <= Cardinality(Into(cs, p)) + Cardinality(Into(ds, p))
  BY Zenon, <1>1, UnionBound
<1>. QED  BY Zenon, <1>2, <1>3

\* Counting by an index (HrmpEgressChannelsIndex, HrmpIngressChannelsIndex,
\* hrmp.rs): of the channels of one para no two have the same other end.
LEMMA ByIndex == CountIndex
<1>. SUFFICES ASSUME NEW cs \in SUBSET Channels, NEW index \in SUBSET Paras, NEW p \in Paras
     PROVE  /\ Cardinality(index) \in Nat
            /\ (\A c \in OutOf(cs, p) : c[2] \in index)
                  => Cardinality(OutOf(cs, p)) <= Cardinality(index)
            /\ (\A c \in Into(cs, p) : c[1] \in index)
                  => Cardinality(Into(cs, p)) <= Cardinality(index)
  BY Zenon DEF CountIndex
<1>1. IsFiniteSet(index)
  BY Zenon, HrmpChannelsAssumption, FS_Subset
<1>2. /\ \A c \in OutOf(cs, p) : c \in Channels /\ c[1] = p
      /\ \A c \in Into(cs, p) : c \in Channels /\ c[2] = p
  BY DEF OutOf, Into
<1>3. ASSUME \A c \in OutOf(cs, p) : c[2] \in index
      PROVE  Cardinality(OutOf(cs, p)) <= Cardinality(index)
  <2>. DEFINE out == OutOf(cs, p)
              f == [c \in out |-> c[2]]
  <2>. HIDE DEF out
  <2>1. \A c, d \in out : f[c] = f[d] => c = d
    BY <1>2, ChannelPairs DEF out
  <2>2. f \in [out -> index]
    BY <1>3 DEF out
  <2>. HIDE DEF f
  <2>3. f \in Injection(out, index)
    BY Zenon, <2>1, <2>2 DEF Injection, IsInjective
  <2>. QED  BY Zenon, <1>1, <2>3, FS_Injection DEF out
<1>4. ASSUME \A c \in Into(cs, p) : c[1] \in index
      PROVE  Cardinality(Into(cs, p)) <= Cardinality(index)
  <2>. DEFINE in == Into(cs, p)
              f == [c \in in |-> c[1]]
  <2>. HIDE DEF in
  <2>1. \A c, d \in in : f[c] = f[d] => c = d
    BY <1>2, ChannelPairs DEF in
  <2>2. f \in [in -> index]
    BY <1>4 DEF in
  <2>. HIDE DEF f
  <2>3. f \in Injection(in, index)
    BY Zenon, <2>1, <2>2 DEF Injection, IsInjective
  <2>. QED  BY Zenon, <1>1, <2>3, FS_Injection DEF in
<1>. QED  BY Zenon, <1>1, <1>3, <1>4, FS_CardinalityType

\* The sums of deposits (ChannelDeposits, RequestDeposits) behave like sums.
LEMMA Sums == SumNatural /\ SumZero /\ SumMonotone /\ SumMinus /\ SumOneChanged
<1>1. IsFiniteSet(Channels) /\ \A cs : cs \subseteq Channels => IsFiniteSet(cs)
  <2>1. IsFiniteSet(Channels)
    BY FiniteParts
  <2>. QED  BY Zenon, <2>1, FS_Subset
<1>2. SumNatural
  BY Zenon, <1>1, SumType DEF SumNatural
<1>3. SumZero
  <2>. SUFFICES ASSUME NEW f, \A c \in Channels : f[c] = 0
       PROVE  SumFunctionOnSet(f, Channels) = 0
    BY Zenon DEF SumZero
  <2>1. Units(f, Channels) = {}
    BY DEF Units
  <2>2. \A c \in Channels : f[c] \in Nat
    OBVIOUS
  <2>3. SumFunctionOnSet(f, Channels) = Cardinality(Units(f, Channels))
    BY Zenon, <1>1, <2>2, SumIsUnits
  <2>. QED  BY Zenon, <2>1, <2>3, FS_EmptySet
<1>4. SumMinus
  <2>. SUFFICES ASSUME NEW f, NEW g, NEW r, NEW cs \in SUBSET Channels,
                       \A c \in Channels : f[c] \in Nat /\ g[c] \in Nat,
                       \A c \in cs : r[c] \in Nat /\ g[c] + r[c] <= f[c],
                       \A c \in Channels \ cs : g[c] <= f[c]
       PROVE  SumFunctionOnSet(g, Channels) + SumFunctionOnSet(r, cs)
                 <= SumFunctionOnSet(f, Channels)
    BY DEF SumMinus
  <2>. QED  BY Zenon, <1>1, SumBound
<1>5. SumMonotone
  <2>. SUFFICES ASSUME NEW f, NEW g,
                       \A c \in Channels : f[c] \in Nat /\ g[c] \in Nat /\ g[c] <= f[c]
       PROVE  SumFunctionOnSet(g, Channels) <= SumFunctionOnSet(f, Channels)
    BY Zenon DEF SumMonotone
  <2>1. /\ {} \subseteq Channels
        /\ \A c \in Channels : f[c] \in Nat /\ g[c] \in Nat
        /\ \A c \in {} : f[c] \in Nat /\ g[c] + f[c] <= f[c]
        /\ \A c \in Channels \ {} : g[c] <= f[c]
    OBVIOUS
  <2>2. SumFunctionOnSet(g, Channels) + SumFunctionOnSet(f, {})
           <= SumFunctionOnSet(f, Channels)
    BY Zenon, <1>4, <2>1 DEF SumMinus
  <2>3. SumFunctionOnSet(f, {}) = 0 /\ SumFunctionOnSet(g, Channels) \in Nat
    BY Zenon, <1>1, <2>1, SumEmpty, SumType
  <2>. QED  BY <2>2, <2>3
<1>6. SumOneChanged
  <2>. SUFFICES ASSUME NEW f, NEW g, NEW c \in Channels,
                       \A d \in Channels : f[d] \in Nat /\ g[d] \in Nat,
                       \A d \in Channels \ {c} : g[d] = f[d]
       PROVE  SumFunctionOnSet(g, Channels) = SumFunctionOnSet(f, Channels) - f[c] + g[c]
    BY Zenon DEF SumOneChanged
  <2>. QED  BY <1>1, SumUpdate
<1>. QED  BY <1>2, <1>3, <1>4, <1>5, <1>6

\* Everything the lemmas above assume of numbers holds.
LEMMA ArithmeticHolds == Arithmetic
<1>1. Countable
  BY Zenon, FiniteParts, FS_EmptySet DEF Countable
<1>. QED  BY Zenon, <1>1, FewerChannels, OneMore, Together, ByIndex, Sums DEF Arithmetic

-----------------------------------------------------------------------------
(* Theorems.                                                               *)

\* The invariant holds of every behaviour of the pallet (hrmp.rs).
LEMMA ChannelInvHolds == Spec => []ChannelInv
<1>1. Init => ChannelInv
  BY Zenon, ArithmeticHolds, ChannelInit
<1>2. ChannelInv /\ [Next]_hrmpVars => ChannelInv'
  BY Zenon, ArithmeticHolds, ChannelStep
<1>. QED  BY <1>1, <1>2, PTL DEF Spec

\* The list HrmpOpenChannelRequestsList and the map HrmpOpenChannelRequests name
\* the same requests, for any number of paras, calls and session changes: the
\* expect() of process_hrmp_open_channel_requests (hrmp.rs) cannot fail.  The
\* egress index, the ingress index and HrmpChannels describe the same channels
\* (close_hrmp_channel and clean_hrmp_after_outgoing, hrmp.rs).
THEOREM ListsAreExact == Spec => []ListsMatchMaps
<1>1. ChannelInv => ListMatchesRequests
  BY Zenon DEF ChannelInv, Sound, ListMatchesRequests
<1>2. ChannelInv => IndexesMatchChannels
  BY DEF ChannelInv, Sound, Indexed, IndexesMatchChannels
<1>3. ChannelInv => ListsMatchMaps
  BY <1>1, <1>2 DEF ListsMatchMaps
<1>. QED  BY <1>3, ChannelInvHolds, PTL

\* No channel and no request is left when one of its parties is gone, however
\* its offboarding is interleaved with requests, acceptances and closings
\* (initializer_on_new_session, hrmp.rs).
THEOREM NothingOutlivesAParty == Spec => []NoneOutlivesItsParties
<1>1. ChannelInv => NoneOutlivesItsParties
  BY DEF ChannelInv, LivesOn, NoneOutlivesItsParties, Participants
<1>. QED  BY <1>1, ChannelInvHolds, PTL

\* Whatever is opened, accepted, cancelled, closed, cleaned up or forced, and
\* however the configured deposits change, what a para has reserved covers what
\* the pallet will unreserve for it (close_hrmp_channel, cancel_open_request and
\* clean_open_channel_requests, hrmp.rs): no deposit is returned twice.
THEOREM DepositsAreCovered == Spec => []DepositsCovered
<1>1. ChannelInv => DepositsCovered
  BY Zenon DEF ChannelInv, Covered, OwedIn, Due, DepositsCovered, Owed
<1>. QED  BY <1>1, ChannelInvHolds, PTL

\* As long as root forces nothing, the limits that init_open_channel and
\* accept_open_channel check against an index and a counter (hrmp.rs) hold of
\* the channels and the requests themselves, for any limits.
THEOREM LimitsHold == Spec => []WithinLimits
<1>1. ChannelInv => WithinLimits
  BY Zenon DEF ChannelInv, Unforced, Limited, Within, OutOf, Into, WithinLimits
<1>. QED  BY <1>1, ChannelInvHolds, PTL

\* As long as root forces nothing, a close request names an open channel: it
\* is gone when its channel is, and cannot close one opened later
\* (close_channel and process_hrmp_close_channel_requests, hrmp.rs).
THEOREM CloseRequestsStayCurrent == Spec => []CloseRequestsAreCurrent
<1>1. ChannelInv => CloseRequestsAreCurrent
  BY Zenon DEF ChannelInv, Unforced, CloseRequestsAreCurrent
<1>. QED  BY <1>1, ChannelInvHolds, PTL
=============================================================================

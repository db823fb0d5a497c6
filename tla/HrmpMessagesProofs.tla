------------------------- MODULE HrmpMessagesProofs -------------------------
(* Proofs about HrmpMessages: the queues of the open channels, their counters, digests and
   watermarks, for any set of paras and any limits.

   The safety invariants that the model is checked for are inductive only together with
   what a backed candidate is still good for when it is enacted, blocks later:
   CandidatesFit (the room that check_outbound_hrmp saw is still there), Past (nothing is
   announced for a block to come) and SendsOncePerBlock (a candidate of an earlier block
   has sent nothing in this one, so that its sender is not twice in one digest entry).

   The facts about sums and filtered sequences that the queues rest on are in QueueFacts;
   they are assumed by the lemmas about steps and proved at the end, from FoldTheorems. *)
EXTENDS HrmpMessages, TLAPS

\* The values the variables range over.
Messages == [sent_at : Nat, size : Nat]
Entries == [block : Nat, senders : Seq(Paras)]
Counts == [msg_count : Nat, total_size : Nat]
Candidates == [backed_in : Nat, watermark : Nat,
               out : UNION {[rs -> Sizes] : rs \in SUBSET Paras}]

Typed ==
    /\ now \in Nat /\ now > 0
    /\ channels \in [Channels -> Counts \cup {None}]
    /\ contents \in [Channels -> Seq(Messages)]
    /\ digests \in [Paras -> Seq(Entries)]
    /\ watermark \in [Paras -> Nat]
    /\ pending \in [Paras -> Candidates \cup {None}]

\* Nothing is read or announced for a block that has not come.
Past ==
    \A p \in Paras :
        /\ watermark[p] < now
        /\ \A i \in 1 .. Len(digests[p]) : digests[p][i].block <= now

\* A pending candidate can still be enacted within the limits.
CandidatesFit ==
    \A p \in Paras : pending[p] # None =>
        /\ pending[p].backed_in <= now
        /\ pending[p].watermark < now
        /\ \A r \in DOMAIN pending[p].out :
              /\ <<p, r>> \in Channels
              /\ channels[<<p, r>>] # None
              /\ channels[<<p, r>>].total_size + pending[p].out[r] <= MaxTotalSize
              /\ channels[<<p, r>>].msg_count + 1 <= MaxCapacity

\* A candidate of an earlier block has not sent in this one.
SendsOncePerBlock ==
    \A p \in Paras : pending[p] # None /\ pending[p].backed_in < now =>
        \A r \in Paras : \A i \in 1 .. Len(digests[r]) :
            digests[r][i].block = now => p \notin Range(digests[r][i].senders)

\* The inductive invariant.
MessageInv ==
    /\ Typed
    /\ Past /\ CandidatesFit /\ SendsOncePerBlock
    /\ ContentsWithinLimits /\ DigestsMatchContents /\ NothingBehindWatermark

\* The mark of an absent channel or candidate (Rust's Option::None) is no record.
LEMMA NoneApart == None \notin Counts /\ None \notin Candidates
  BY DEF None, Counts, Candidates

\* The counters of a channel (msg_count, total_size of HrmpChannel) are naturals, and any
\* two naturals are the counters of a channel.
LEMMA CountFields ==
    /\ \A x \in Counts : x.msg_count \in Nat /\ x.total_size \in Nat
    /\ \A a, b \in Nat : /\ [msg_count |-> a, total_size |-> b] \in Counts
                          /\ [msg_count |-> a, total_size |-> b] # None
  BY DEF Counts, None

\* A channel is a pair of two different paras: the sender and the recipient of HrmpChannelId.
LEMMA Pairs == \A c \in Channels : c[1] \in Paras /\ c[2] \in Paras /\ c = <<c[1], c[2]>> /\ c[1] # c[2]
  BY HrmpMessagesAssumption

\* A queued InboundHrmpMessage has the block that it was sent in and a size.
LEMMA Fields ==
    /\ \A m \in Messages : m.sent_at \in Nat /\ m.size \in Nat
    /\ \A s \in Seq(Messages) :
          /\ Len(s) \in Nat /\ DOMAIN s = 1 .. Len(s)
          /\ \A i \in 1 .. Len(s) : s[i] \in Messages
<1>1. \A m \in Messages : m.sent_at \in Nat /\ m.size \in Nat
  BY DEF Messages
<1>. QED  BY <1>1

\* k is what is left of the channel c once its messages to p up to w are pruned.
Remains(p, w, c, k) ==
    /\ k \in Seq(Messages) /\ Len(k) \in Nat /\ TotalSize(k) \in Nat
    /\ Len(k) <= Len(contents[c]) /\ TotalSize(k) <= TotalSize(contents[c])
    /\ \A i \in 1 .. Len(k) : \E j \in 1 .. Len(contents[c]) : k[i] = contents[c][j]
    /\ \A j \in 1 .. Len(contents[c]) : contents[c][j].sent_at > w =>
          \E i \in 1 .. Len(k) : k[i] = contents[c][j]
    /\ c[2] = p => \A i \in 1 .. Len(k) : k[i].sent_at > w
    /\ c[2] # p => k = contents[c]

\* A digest: blocks in order, with senders, none twice in a block.
Ordered(d) ==
    \A i, j \in 1 .. Len(d) :
        /\ i < j => d[i].block < d[j].block
        /\ d[i].senders # <<>>
        /\ IsInjective(d[i].senders)

\* An entry of HrmpChannelDigests has a block and the senders of that block.
LEMMA EntryFields ==
    /\ \A e \in Entries : e.block \in Nat /\ e.senders \in Seq(Paras)
    /\ \A d \in Seq(Entries) :
          /\ Len(d) \in Nat
          /\ \A i \in 1 .. Len(d) : d[i] \in Entries
<1>1. \A e \in Entries : e.block \in Nat /\ e.senders \in Seq(Paras)
  BY DEF Entries
<1>. QED  BY <1>1

\* n is the digest d once its entries up to w are pruned.
Trimmed(d, n, w) ==
    /\ n \in Seq(Entries)
    /\ Ordered(n)
    /\ \A i \in 1 .. Len(n) : \E j \in 1 .. Len(d) : n[i] = d[j]
    /\ \A j \in 1 .. Len(d) : d[j].block > w => \E i \in 1 .. Len(n) : n[i] = d[j]

\* n is the digest d once p has sent in this block.
Noted(d, n, p) ==
    /\ n \in Seq(Entries)
    /\ Ordered(n)
    /\ \A i \in 1 .. Len(n) :
          /\ n[i].block <= now
          /\ \A q \in Range(n[i].senders) : q # p =>
                \E j \in 1 .. Len(d) : /\ d[j].block = n[i].block
                                       /\ q \in Range(d[j].senders)
    /\ \A j \in 1 .. Len(d) : \E i \in 1 .. Len(n) :
          /\ n[i].block = d[j].block
          /\ Range(d[j].senders) \subseteq Range(n[i].senders)
    /\ \E i \in 1 .. Len(n) : n[i].block = now /\ p \in Range(n[i].senders)

\* The elements of s that are in K, in their order.
Embedded(r, s, K, e) ==
    /\ e \in [1 .. Len(r) -> 1 .. Len(s)]
    /\ \A i, j \in 1 .. Len(r) : i < j => e[i] < e[j]
    /\ \A i \in 1 .. Len(r) : r[i] = s[e[i]]
    /\ \A j \in 1 .. Len(s) : s[j] \in K <=> \E i \in 1 .. Len(r) : e[i] = j

\* What the steps need of sizes and of filtered queues.
QueueFacts ==
    /\ TotalSize(<<>>) = 0
    /\ \A s \in Seq(Messages) : TotalSize(s) \in Nat
    /\ \A s \in Seq(Messages) : \A m \in Messages :
          TotalSize(Append(s, m)) = TotalSize(s) + m.size
    /\ \A s \in Seq(Messages) : \A K :
          /\ Filter(s, K) \in Seq(Messages)
          /\ Len(Filter(s, K)) <= Len(s)
          /\ TotalSize(Filter(s, K)) <= TotalSize(s)
          /\ \E e : Embedded(Filter(s, K), s, K, e)
    /\ \A s \in Seq(Entries) : \A K :
          /\ Filter(s, K) \in Seq(Entries)
          /\ \E e : Embedded(Filter(s, K), s, K, e)

\* prune_hrmp, per channel: what it leaves is part of the queue and holds every message
\* after the watermark; a channel to p keeps no message up to it, since a sender of such
\* a message is in the digest that prune_hrmp goes through; the other channels are as they were.
LEMMA PruneEffect ==
    ASSUME QueueFacts, Typed, DigestsMatchContents, NEW p \in Paras, NEW w \in Nat, NEW c \in Channels
    PROVE  Remains(p, w, c, Pruned(p, w)[c])
<1>. DEFINE s == contents[c]
            K == {m \in Range(s) : Keeps(m, w)}
            k == Pruned(p, w)[c]
<1>1. s \in Seq(Messages) /\ Len(s) \in Nat
  BY SMTT(30) DEF Typed
<1>2. \A j \in 1 .. Len(s) : s[j] \in K <=> s[j].sent_at > w
  BY <1>1 DEF Range, Keeps
<1>3. \A m \in K : m.sent_at > w
  BY SMTT(30) DEF Keeps
<1>4. k = IF c[2] = p /\ c[1] \in SendersUpTo(p, w) THEN Filter(s, K) ELSE s
  BY DEF Pruned
<1>5. TotalSize(s) \in Nat
  BY <1>1 DEF QueueFacts
<1>. HIDE DEF s, K, k
<1>6. CASE c[2] = p /\ c[1] \in SendersUpTo(p, w)
  <2>1. k = Filter(s, K)
    BY SMTT(30), <1>4, <1>6
  <2>2. /\ k \in Seq(Messages) /\ Len(k) <= Len(s) /\ TotalSize(k) <= TotalSize(s)
        /\ \E e : Embedded(k, s, K, e)
    BY <1>1, <2>1, Zenon DEF QueueFacts
  <2>3. Len(k) \in Nat /\ TotalSize(k) \in Nat
    BY <2>2 DEF QueueFacts
  <2>4. PICK e : Embedded(k, s, K, e)
    BY <2>2
  <2>5. \A i \in 1 .. Len(k) :
           e[i] \in 1 .. Len(s) /\ k[i] = s[e[i]] /\ s[e[i]] \in K
    BY <2>4 DEF Embedded
  <2>6. \A j \in 1 .. Len(s) : s[j] \in K => \E i \in 1 .. Len(k) : k[i] = s[j]
    BY <2>4 DEF Embedded
  <2>. QED  BY Zenon, <2>2, <2>3, <2>5, <2>6, <1>2, <1>3, <1>6 DEF s, k, Remains
<1>7. CASE ~(c[2] = p /\ c[1] \in SendersUpTo(p, w))
  <2>1. k = s
    BY SMTT(30), <1>4, <1>7
  <2>2. ASSUME c[2] = p, NEW i \in 1 .. Len(s)
        PROVE  s[i].sent_at > w
    <3>1. PICK d \in 1 .. Len(digests[p]) :
              /\ digests[p][d].block = s[i].sent_at
              /\ c[1] \in Range(digests[p][d].senders)
      BY Zenon, <2>2 DEF DigestsMatchContents, s
    <3>2. SUFFICES ASSUME s[i].sent_at <= w PROVE FALSE
      BY <1>1, Fields
    <3>3. c[1] \in SendersUpTo(p, w)
      BY SMTT(30), <3>1, <3>2 DEF SendersUpTo
    <3>. QED  BY SMTT(30), <3>3, <2>2, <1>7
  <2>. QED  BY SMTT(30), <2>1, <2>2, <1>1, <1>5 DEF s, k, Remains
<1>. QED  BY SMTT(30), <1>6, <1>7

\* prune_hrmp, on the digest: the entries after the watermark stay, in their order.
LEMMA DigestPrunedEffect ==
    ASSUME QueueFacts, Typed, NEW p \in Paras, NEW w \in Nat, Ordered(digests[p])
    PROVE  Trimmed(digests[p], PrunedDigest(p, w), w)
<1>. DEFINE s == digests[p]
            K == {d \in Range(s) : d.block > w}
            r == PrunedDigest(p, w)
<1>1. s \in Seq(Entries) /\ Len(s) \in Nat
  BY DEF Typed
<1>2. r = Filter(s, K)
  BY SMTT(30) DEF PrunedDigest
<1>3. \A j \in 1 .. Len(s) : s[j].block > w => s[j] \in K
  BY <1>1 DEF Range
<1>4. Ordered(s)
  OBVIOUS
<1>. HIDE DEF s, K, r
<1>5. r \in Seq(Entries) /\ \E e : Embedded(r, s, K, e)
  BY <1>1, <1>2, Zenon DEF QueueFacts
<1>6. PICK e : Embedded(r, s, K, e)
  BY <1>5
<1>7. e \in [1 .. Len(r) -> 1 .. Len(s)] /\ \A i \in 1 .. Len(r) : r[i] = s[e[i]]
  BY SMTT(30), <1>6 DEF Embedded
<1>8. ASSUME NEW j \in 1 .. Len(s), s[j].block > w
      PROVE  \E i \in 1 .. Len(r) : r[i] = s[j]
  <2>1. PICK i \in 1 .. Len(r) : e[i] = j
    BY ZenonT(30), <1>3, <1>6, <1>8 DEF Embedded
  <2>. QED  BY SMTT(30), <1>7, <2>1
<1>9. Ordered(r)
  <2>1. ASSUME NEW i \in 1 .. Len(r), NEW j \in 1 .. Len(r)
        PROVE  /\ i < j => r[i].block < r[j].block
               /\ r[i].senders # <<>>
               /\ IsInjective(r[i].senders)
    <3>1. e[i] \in 1 .. Len(s) /\ e[j] \in 1 .. Len(s) /\ (i < j => e[i] < e[j])
      BY <1>6, <1>7 DEF Embedded
    <3>. QED  BY Zenon, <3>1, <1>4, <1>7 DEF Ordered
  <2>. QED  BY SMTT(30), <2>1 DEF Ordered
<1>. QED  BY SMTT(30), <1>5, <1>7, <1>8, <1>9 DEF s, r, Trimmed

\* queue_outbound_hrmp when the last digest entry is of this block: the sender joins that entry.
LEMMA NoteAgain ==
    ASSUME now \in Nat, NEW d \in Seq(Entries), Ordered(d), NEW p \in Paras,
           \A i \in 1 .. Len(d) : /\ d[i].block <= now
                                  /\ d[i].block = now => p \notin Range(d[i].senders),
           d # <<>>, d[Len(d)].block = now
    PROVE  Noted(d, NoteSender(d, p), p)
<1>. DEFINE n == NoteSender(d, p)
            L == Len(d)
<1>1. L \in Nat /\ \A i \in 1 .. L : d[i] \in Entries /\ d[i].block \in Nat /\ d[i].senders \in Seq(Paras)
  BY EntryFields
<1>. DEFINE old == d[L].senders
            grown == Append(old, p)
<1>2. L \in 1 .. L /\ d[L].block = now
  BY <1>1
<1>3. n = [d EXCEPT ![L].senders = Append(@, p)]
  BY DEF NoteSender
<1>4. old \in Seq(Paras) /\ p \notin Range(old) /\ IsInjective(old)
  BY <1>1, <1>2 DEF Ordered
<1>5. /\ grown \in Seq(Paras) /\ grown # <<>>
      /\ Range(grown) = Range(old) \cup {p}
      /\ IsInjective(grown)
  <2>. HIDE DEF old
  <2>1. Len(old) \in Nat /\ DOMAIN old = 1 .. Len(old) /\ DOMAIN grown = 1 .. Len(old) + 1
    BY <1>4
  <2>2. \A i \in 1 .. Len(old) + 1 : grown[i] = IF i <= Len(old) THEN old[i] ELSE p
    BY <1>4
  <2>3. grown \in Seq(Paras) /\ grown # <<>>
    <3>1. grown \in Seq(Paras) /\ Len(grown) = Len(old) + 1
      BY <1>4
    <3>. HIDE DEF grown
    <3>. QED  BY <3>1, <2>1
  <2>. HIDE DEF grown
  <2>4. Range(grown) = Range(old) \cup {p}
    BY <2>1, <2>2 DEF Range
  <2>5. \A i \in 1 .. Len(old) : old[i] # p
    BY <1>4, <2>1 DEF Range
  <2>6. IsInjective(grown)
    BY <1>4, <2>1, <2>2, <2>5 DEF IsInjective
  <2>. QED  BY <2>3, <2>4, <2>6
<1>. DEFINE e == [d[L] EXCEPT !.senders = grown]
<1>6. e \in Entries /\ e.block = now /\ e.senders = grown
  BY Zenon, <1>1, <1>2, <1>5 DEF Entries
<1>7. n = [d EXCEPT ![L] = e]
  BY <1>1, <1>2, <1>3
<1>. HIDE DEF e, grown, old, n
<1>8. n \in Seq(Entries) /\ Len(n) = L
  BY <1>1, <1>2, <1>6, <1>7
<1>9. \A i \in 1 .. L : n[i] = IF i = L THEN e ELSE d[i]
  BY <1>1, <1>2, <1>7
<1>10. \A i \in 1 .. L : n[i].block = d[i].block
  BY <1>2, <1>6, <1>9
<1>11. Ordered(n)
  BY <1>5, <1>6, <1>8, <1>9, <1>10 DEF Ordered
<1>12. ASSUME NEW i \in 1 .. L
       PROVE  /\ n[i].block <= now
              /\ \A q \in Range(n[i].senders) :
                     q # p => d[i].block = n[i].block /\ q \in Range(d[i].senders)
              /\ n[i].block = d[i].block /\ Range(d[i].senders) \subseteq Range(n[i].senders)
  BY <1>5, <1>6, <1>9, <1>10 DEF old
<1>13. n[L].block = now /\ p \in Range(n[L].senders)
  BY <1>2, <1>5, <1>6, <1>9
<1>. QED  BY Zenon, <1>2, <1>8, <1>11, <1>12, <1>13 DEF n, Noted

\* queue_outbound_hrmp when the last digest entry is older, or there is none: a new entry
\* for this block goes to the end, and the blocks stay in order.
LEMMA NoteAnew ==
    ASSUME now \in Nat, NEW d \in Seq(Entries), Ordered(d), NEW p \in Paras,
           \A i \in 1 .. Len(d) : /\ d[i].block <= now
                                  /\ d[i].block = now => p \notin Range(d[i].senders),
           ~(d # <<>> /\ d[Len(d)].block = now)
    PROVE  Noted(d, NoteSender(d, p), p)
<1>. DEFINE n == NoteSender(d, p)
            L == Len(d)
<1>1. L \in Nat /\ \A i \in 1 .. L : d[i] \in Entries /\ d[i].block \in Nat /\ d[i].senders \in Seq(Paras)
  BY EntryFields
<1>. DEFINE e == [block |-> now, senders |-> <<p>>]
<1>2. n = Append(d, e)
  BY DEF NoteSender
<1>3. e \in Entries /\ e.block = now /\ e.senders = <<p>>
  BY DEF Entries
<1>4. Range(<<p>>) = {p} /\ <<p>> # <<>> /\ IsInjective(<<p>>)
  BY DEF Range, IsInjective
<1>. HIDE DEF e, n
<1>5. n \in Seq(Entries) /\ Len(n) = L + 1
  BY <1>2, <1>3
<1>6. \A i \in 1 .. L + 1 : n[i] = IF i <= L THEN d[i] ELSE e
  BY <1>2, <1>3
<1>7. ASSUME NEW i \in 1 .. L PROVE d[i].block < now
  <2>1. L \in 1 .. L /\ d # <<>> /\ d[L].block # now
    BY <1>1
  <2>2. d[L].block < now
    BY <1>1, <2>1
  <2>3. CASE i = L
    BY <2>2, <2>3
  <2>4. CASE i # L
    <3>1. d[i].block < d[L].block
      BY <1>1, <2>1, <2>4 DEF Ordered
    <3>. QED  BY <1>1, <2>1, <2>2, <3>1
  <2>. QED  BY <2>3, <2>4
<1>8. ASSUME NEW i \in 1 .. L + 1, NEW j \in 1 .. L + 1
      PROVE  /\ i < j => n[i].block < n[j].block
             /\ n[i].senders # <<>>
             /\ IsInjective(n[i].senders)
  <2>1. i < j => n[i].block < n[j].block
    BY SMTT(30), <1>1, <1>3, <1>6, <1>7 DEF Ordered
  <2>2. CASE i <= L
    <3>1. n[i] = d[i] /\ i \in 1 .. L
      BY <2>2, <1>6, <1>1
    <3>. QED  BY <2>1, <3>1 DEF Ordered
  <2>3. CASE ~(i <= L)
    BY Zenon, <2>1, <2>3, <1>3, <1>4, <1>6
  <2>. QED  BY <2>2, <2>3
<1>9. Ordered(n)
  BY <1>5, <1>8 DEF Ordered
<1>10. \A i \in 1 .. L + 1 : \/ i \in 1 .. L /\ n[i] = d[i]
                             \/ i = L + 1 /\ n[i] = e
  BY <1>1, <1>6
<1>11. L + 1 \in 1 .. L + 1 /\ n[L + 1] = e
  BY <1>1, <1>6
<1>12. \A i \in 1 .. L : i \in 1 .. L + 1 /\ n[i] = d[i]
  BY <1>1, <1>6
<1>13. \A i \in 1 .. L + 1 :
               /\ n[i].block <= now
               /\ \A q \in Range(n[i].senders) :
                     q # p => \E j \in 1 .. L : d[j].block = n[i].block /\ q \in Range(d[j].senders)
  BY SMTT(30), <1>3, <1>4, <1>10
<1>. QED  BY ZenonT(30), <1>3, <1>4, <1>5, <1>9, <1>11, <1>12, <1>13 DEF n, Noted

\* queue_outbound_hrmp, on the recipient's digest: nothing that was announced is forgotten,
\* and the sender is announced in this block.
LEMMA NoteSenderEffect ==
    ASSUME now \in Nat, NEW d \in Seq(Entries), Ordered(d), NEW p \in Paras,
           \A i \in 1 .. Len(d) : /\ d[i].block <= now
                                  /\ d[i].block = now => p \notin Range(d[i].senders)
    PROVE  Noted(d, NoteSender(d, p), p)
  BY NoteAgain, NoteAnew

\* The part of DigestsMatchContents that is about one digest: ordered blocks, and senders
\* without a repetition.
LEMMA DigestsOrdered ==
    ASSUME DigestsMatchContents PROVE \A p \in Paras : Ordered(digests[p])
  BY DEF DigestsMatchContents, Ordered

\* The limits of the configuration are naturals (u32 in HostConfiguration).
LEMMA Limits == MaxCapacity \in Nat /\ MaxTotalSize \in Nat /\ MaxMessageSize \in Nat
  BY HrmpMessagesAssumption

\* A backed candidate has the block that backed it, a watermark, and a size for each recipient.
LEMMA CandidateFields ==
    \A x \in Candidates :
        /\ x.backed_in \in Nat /\ x.watermark \in Nat
        /\ \A r \in DOMAIN x.out : r \in Paras /\ x.out[r] \in Nat
<1>1. \A x \in Candidates : /\ x.backed_in \in Nat /\ x.watermark \in Nat
                           /\ \E rs \in SUBSET Paras : x.out \in [rs -> Sizes]
  BY DEF Candidates
<1>2. Sizes \subseteq Nat
  BY Limits DEF Sizes
<1>. QED  BY Zenon, <1>1, <1>2

\* Backing a candidate keeps the invariant: check_hrmp_watermark and check_outbound_hrmp are
\* what CandidatesFit says of it.
LEMMA AcceptStep ==
    ASSUME MessageInv, NEW p \in Paras, accept_candidate(p)
    PROVE  MessageInv'
<1>. USE DEF MessageInv
<1>1. PICK w \in 1 .. now, rs \in SUBSET Recipients(p) :
      \E out \in [rs -> Sizes] :
          /\ check_hrmp_watermark(p, w)
          /\ check_outbound_hrmp(p, out)
          /\ pending' = [pending EXCEPT ![p] =
                [backed_in |-> now, watermark |-> w, out |-> out]]
  BY Zenon DEF accept_candidate
<1>2. PICK out \in [rs -> Sizes] :
          /\ check_hrmp_watermark(p, w)
          /\ check_outbound_hrmp(p, out)
          /\ pending' = [pending EXCEPT ![p] =
                [backed_in |-> now, watermark |-> w, out |-> out]]
  BY Zenon, <1>1
<1>. DEFINE x == [backed_in |-> now, watermark |-> w, out |-> out]
<1>3. UNCHANGED <<now, session, live, channels, contents, digests, watermark>>
  BY DEF accept_candidate
<1>4. x \in Candidates
  <2>1. rs \in SUBSET Paras
    BY Zenon DEF Recipients
  <2>2. w \in Nat /\ now \in Nat
    BY DEF Typed
  <2>3. out \in UNION {[ss -> Sizes] : ss \in SUBSET Paras}
    BY <2>1
  <2>. QED  BY <2>2, <2>3 DEF Candidates
<1>5. x.backed_in = now /\ x.watermark = w /\ x.out = out /\ w < now
  BY <1>2 DEF check_hrmp_watermark, RelayParent, Typed
<1>6. \A q \in Paras : pending'[q] = IF q = p THEN x ELSE pending[q]
  BY <1>2 DEF Typed
<1>7. pending' \in [Paras -> Candidates \cup {None}]
  BY <1>2, <1>4 DEF Typed
<1>. HIDE DEF x
<1>8. Typed'
  BY <1>3, <1>7 DEF Typed
<1>9. CandidatesFit'
  <2>1. \A r \in DOMAIN out :
           /\ <<p, r>> \in Channels
           /\ channels[<<p, r>>] # None
           /\ channels[<<p, r>>].total_size + out[r] <= MaxTotalSize
           /\ channels[<<p, r>>].msg_count + 1 <= MaxCapacity
    BY <1>2 DEF check_outbound_hrmp, Recipients
  <2>2. now <= now
    BY DEF Typed
  <2>. QED  BY <2>1, <2>2, <1>3, <1>5, <1>6 DEF CandidatesFit
<1>10. SendsOncePerBlock'
  <2>1. ~(now < now)
    BY DEF Typed
  <2>. QED  BY <2>1, <1>3, <1>5, <1>6 DEF SendsOncePerBlock
<1>11. Past' /\ ContentsWithinLimits' /\ DigestsMatchContents' /\ NothingBehindWatermark'
  BY <1>3 DEF Past, ContentsWithinLimits, DigestsMatchContents, NothingBehindWatermark
<1>. QED  BY <1>8, <1>9, <1>10, <1>11

\* A new block keeps the invariant: what was sent so far is in the past.
LEMMA BlockStep ==
    ASSUME MessageInv, new_block
    PROVE  MessageInv'
<1>. USE DEF MessageInv, new_block
<1>1. now \in Nat /\ now' = now + 1
  BY DEF Typed
<1>2. \A p \in Paras : /\ watermark[p] \in Nat
                      /\ \A i \in 1 .. Len(digests[p]) : digests[p][i].block \in Nat
  BY EntryFields DEF Typed
<1>3. \A p \in Paras : pending[p] # None => pending[p].backed_in \in Nat /\ pending[p].watermark \in Nat
  BY CandidateFields DEF Typed
<1>4. Typed'
  BY <1>1 DEF Typed
<1>5. Past'
  BY <1>1, <1>2 DEF Past
<1>6. CandidatesFit'
  BY <1>1, <1>3 DEF CandidatesFit
<1>7. SendsOncePerBlock'
  BY <1>1, <1>2 DEF SendsOncePerBlock, Past
<1>8. ContentsWithinLimits' /\ DigestsMatchContents' /\ NothingBehindWatermark'
  BY DEF ContentsWithinLimits, DigestsMatchContents, NothingBehindWatermark
<1>. QED  BY <1>4, <1>5, <1>6, <1>7, <1>8

\* A session change keeps the invariant: it drops every pending candidate, closes channels
\* with their contents and opens empty ones.
LEMMA SessionStep ==
    ASSUME MessageInv, QueueFacts, new_session
    PROVE  MessageInv'
<1>. USE DEF MessageInv
<1>1. now \in Nat /\ now' = now + 1 /\ UNCHANGED <<digests, watermark>>
      /\ pending' = [p \in Paras |-> None]
  BY DEF Typed, new_session
<1>2. PICK closing \in SUBSET Channels, opening \in SUBSET {c \in Channels : channels[c] = None} :
        /\ channels' = [c \in Channels |->
                        IF c \in closing THEN None
                        ELSE IF c \in opening THEN Empty ELSE channels[c]]
        /\ contents' = [c \in Channels |->
                    IF c \in closing THEN <<>> ELSE contents[c]]
  <2>1. PICK outgoing \in SUBSET live, incoming \in SUBSET (Paras \ live),
          condemned \in SUBSET {c \in Channels : channels[c] # None} :
          LET closing == condemned \cup {c \in Channels : {c[1], c[2]} \cap outgoing # {}}
          IN  /\ live' = (live \ outgoing) \cup incoming
              /\ \E opening \in SUBSET {c \in Channels :
                        channels[c] = None /\ {c[1], c[2]} \subseteq live'} :
                    channels' = [c \in Channels |->
                        IF c \in closing THEN None
                        ELSE IF c \in opening THEN Empty ELSE channels[c]]
              /\ contents' = [c \in Channels |->
                    IF c \in closing THEN <<>> ELSE contents[c]]
    BY Zenon DEF new_session
  <2>. DEFINE closing == condemned \cup {c \in Channels : {c[1], c[2]} \cap outgoing # {}}
  <2>2. closing \in SUBSET Channels
    OBVIOUS
  <2>3. PICK opening \in SUBSET {c \in Channels : channels[c] = None /\ {c[1], c[2]} \subseteq live'} :
            channels' = [c \in Channels |->
                        IF c \in closing THEN None
                        ELSE IF c \in opening THEN Empty ELSE channels[c]]
    BY Zenon, <2>1
  <2>4. contents' = [c \in Channels |-> IF c \in closing THEN <<>> ELSE contents[c]]
    BY <2>1
  <2>. HIDE DEF closing
  <2>5. opening \in SUBSET {c \in Channels : channels[c] = None}
    OBVIOUS
  <2>. QED  BY Zenon, <2>2, <2>3, <2>4, <2>5
<1>3. Empty \in Counts /\ Empty # None /\ Empty.msg_count = 0 /\ Empty.total_size = 0
  BY NoneApart DEF Empty, Counts
<1>4. \A p \in Paras : /\ watermark[p] \in Nat
                      /\ \A i \in 1 .. Len(digests[p]) : digests[p][i].block \in Nat
  BY EntryFields DEF Typed
<1>5. Typed'
  <2>1. channels' \in [Channels -> Counts \cup {None}]
    BY <1>2, <1>3 DEF Typed
  <2>2. contents' \in [Channels -> Seq(Messages)]
    BY <1>2 DEF Typed
  <2>3. pending' \in [Paras -> Candidates \cup {None}]
    BY <1>1
  <2>. QED  BY <1>1, <2>1, <2>2, <2>3 DEF Typed
<1>6. Past'
  BY <1>1, <1>4 DEF Past
<1>7. CandidatesFit' /\ SendsOncePerBlock'
  BY <1>1 DEF CandidatesFit, SendsOncePerBlock
<1>8. \A c \in Channels :
         \/ contents'[c] = contents[c] /\ channels'[c] = channels[c]
         \/ contents'[c] = <<>> /\ channels'[c] = None
         \/ contents'[c] = <<>> /\ channels'[c] = Empty
  BY <1>2 DEF ContentsWithinLimits
<1>9. ContentsWithinLimits'
  <2>1. 0 <= MaxCapacity /\ 0 <= MaxTotalSize /\ Len(<<>>) = 0
    BY Limits
  <2>. SUFFICES ASSUME NEW c \in Channels
       PROVE  IF channels'[c] = None THEN contents'[c] = <<>>
              ELSE /\ channels'[c].msg_count = Len(contents'[c])
                   /\ channels'[c].total_size = TotalSize(contents'[c])
                   /\ channels'[c].msg_count <= MaxCapacity
                   /\ channels'[c].total_size <= MaxTotalSize
    BY Zenon DEF ContentsWithinLimits, TotalSize
  <2>. HIDE DEF Empty
  <2>. QED  BY <1>3, <1>8, <2>1 DEF ContentsWithinLimits, QueueFacts
<1>10. \A c \in Channels : \A k \in 1 .. Len(contents'[c]) : contents'[c] = contents[c]
  BY <1>8
<1>11. NothingBehindWatermark'
  BY SMTT(30), <1>1, <1>10 DEF NothingBehindWatermark
<1>12. DigestsMatchContents'
  <2>1. ASSUME NEW c \in Channels, NEW k \in 1 .. Len(contents'[c])
        PROVE  \E i \in 1 .. Len(digests[c[2]]) :
                  /\ digests[c[2]][i].block = contents'[c][k].sent_at
                  /\ c[1] \in Range(digests[c[2]][i].senders)
    BY SMTT(30), <1>10 DEF DigestsMatchContents
  <2>2. \A p \in Paras : Ordered(digests[p])
    BY DigestsOrdered
  <2>. QED  BY Zenon, <1>1, <2>1, <2>2 DEF DigestsMatchContents, Ordered
<1>. QED  BY <1>5, <1>6, <1>7, <1>9, <1>11, <1>12

\* The candidate of p when it is enacted.
Mark(p) == pending[p].watermark
Sent(p) == pending[p].out
Gets(p, c) == c[1] = p /\ c[2] \in DOMAIN Sent(p)
Stays(p, c) == Pruned(p, Mark(p))[c]
NewMessage(p, c) == [sent_at |-> now, size |-> Sent(p)[c[2]]]

\* The candidate of p may be enacted.
Ready(p) ==
    /\ pending[p] \in Candidates /\ pending[p] # None
    /\ pending[p].backed_in \in Nat /\ pending[p].backed_in < now
    /\ now \in Nat /\ Mark(p) \in Nat /\ Mark(p) < now
    /\ \A r \in DOMAIN Sent(p) :
          /\ r \in Paras /\ Sent(p)[r] \in Nat
          /\ <<p, r>> \in Channels
          /\ channels[<<p, r>>] # None
          /\ channels[<<p, r>>].total_size + Sent(p)[r] <= MaxTotalSize
          /\ channels[<<p, r>>].msg_count + 1 <= MaxCapacity

\* The step that enacts it.
Enacted(p) ==
    /\ channels' = [c \in Channels |->
          IF Gets(p, c)
          THEN [msg_count |-> channels[c].msg_count + 1,
                total_size |-> channels[c].total_size + Sent(p)[c[2]]]
          ELSE Lighter(c, Stays(p, c))]
    /\ contents' = [c \in Channels |->
          IF Gets(p, c) THEN Append(Stays(p, c), NewMessage(p, c)) ELSE Stays(p, c)]
    /\ digests' = [r \in Paras |->
          IF r = p THEN PrunedDigest(p, Mark(p))
          ELSE IF r \in DOMAIN Sent(p) THEN NoteSender(digests[r], p)
          ELSE digests[r]]
    /\ watermark' \in [Paras -> Nat]
    /\ \A q \in Paras : watermark'[q] = IF q = p THEN Mark(p) ELSE watermark[q]
    /\ pending' \in [Paras -> Candidates \cup {None}]
    /\ \A q \in Paras : pending'[q] = IF q = p THEN None ELSE pending[q]
    /\ now' = now

\* A candidate that is enacted was backed in an earlier block and still fits, and the
\* enactment is prune_hrmp, update of the watermark and queue_outbound_hrmp for every message:
\* no recipient is skipped, because the channels that were there at the backing are there still.
LEMMA Enacting ==
    ASSUME MessageInv, NEW p \in Paras, enact_candidate(p)
    PROVE  Ready(p) /\ Enacted(p)
<1>1. /\ pending[p] \in Candidates /\ pending[p] # None /\ pending[p].backed_in < now
      /\ now \in Nat /\ Mark(p) < now
  BY DEF MessageInv, enact_candidate, Typed, CandidatesFit, Mark
<1>2. /\ pending[p].backed_in \in Nat /\ Mark(p) \in Nat
      /\ \A r \in DOMAIN Sent(p) : r \in Paras /\ Sent(p)[r] \in Nat
  BY <1>1, CandidateFields DEF Mark, Sent
<1>3. \A r \in DOMAIN Sent(p) :
              /\ <<p, r>> \in Channels
              /\ channels[<<p, r>>] # None
              /\ channels[<<p, r>>].total_size + Sent(p)[r] <= MaxTotalSize
              /\ channels[<<p, r>>].msg_count + 1 <= MaxCapacity
  BY <1>1 DEF MessageInv, CandidatesFit, Sent
<1>4. Ready(p)
  BY <1>1, <1>2, <1>3 DEF Ready
<1>5. {r \in DOMAIN pending[p].out : channels[<<p, r>>] # None} = DOMAIN pending[p].out
  BY SMTT(30), <1>3 DEF Sent
<1>6. /\ channels' = [c \in Channels |->
          IF Gets(p, c)
          THEN [msg_count |-> channels[c].msg_count + 1,
                total_size |-> channels[c].total_size + Sent(p)[c[2]]]
          ELSE Lighter(c, Stays(p, c))]
      /\ contents' = [c \in Channels |->
          IF Gets(p, c) THEN Append(Stays(p, c), NewMessage(p, c)) ELSE Stays(p, c)]
      /\ digests' = [r \in Paras |->
          IF r = p THEN PrunedDigest(p, Mark(p))
          ELSE IF r \in DOMAIN Sent(p) THEN NoteSender(digests[r], p)
          ELSE digests[r]]
      /\ watermark' = [watermark EXCEPT ![p] = Mark(p)]
      /\ pending' = [pending EXCEPT ![p] = None]
      /\ now' = now
  BY SMTT(30), <1>5 DEF enact_candidate, Gets, Stays, Sent, Mark, NewMessage
<1>7. /\ watermark' \in [Paras -> Nat]
      /\ \A q \in Paras : watermark'[q] = IF q = p THEN Mark(p) ELSE watermark[q]
  BY SMTT(30), <1>2, <1>6 DEF MessageInv, Typed
<1>8. /\ pending' \in [Paras -> Candidates \cup {None}]
      /\ \A q \in Paras : pending'[q] = IF q = p THEN None ELSE pending[q]
  BY <1>6 DEF MessageInv, Typed
<1>. QED  BY SMTT(30), <1>4, <1>6, <1>7, <1>8 DEF Enacted

\* What the enactment makes of one channel: a message that is there afterwards
\* was there before or is the new one, and one that was there before is still
\* there unless the recipient has read it.
ChannelAfter(p, c) ==
    /\ contents'[c] \in Seq(Messages)
    /\ channels'[c] \in Counts \cup {None}
    /\ IF channels'[c] = None THEN contents'[c] = <<>>
       ELSE /\ channels'[c].msg_count = Len(contents'[c])
            /\ channels'[c].total_size = TotalSize(contents'[c])
            /\ channels'[c].msg_count <= MaxCapacity
            /\ channels'[c].total_size <= MaxTotalSize
    /\ \A k \in 1 .. Len(contents'[c]) :
          \/ /\ \E j \in 1 .. Len(contents[c]) : contents'[c][k] = contents[c][j]
             /\ c[2] = p => contents'[c][k].sent_at > Mark(p)
          \/ Gets(p, c) /\ c[2] # p /\ contents'[c][k].sent_at = now
    /\ \A k \in 1 .. Len(contents[c]) :
          \/ \E i \in 1 .. Len(contents'[c]) : contents'[c][i] = contents[c][k]
          \/ c[2] = p /\ contents[c][k].sent_at <= Mark(p)
    /\ c[1] # p /\ channels[c] # None =>
          /\ channels'[c] # None
          /\ channels'[c].msg_count <= channels[c].msg_count
          /\ channels'[c].total_size <= channels[c].total_size

\* The counters of c say what its queue holds.
Counted(c) ==
    /\ contents[c] \in Seq(Messages)
    /\ Len(contents[c]) \in Nat /\ TotalSize(contents[c]) \in Nat
    /\ channels[c] # None => /\ channels[c] \in Counts
                             /\ channels[c].msg_count = Len(contents[c])
                             /\ channels[c].total_size = TotalSize(contents[c])
                             /\ Len(contents[c]) <= MaxCapacity
                             /\ TotalSize(contents[c]) <= MaxTotalSize
    /\ channels[c] = None => contents[c] = <<>>

\* The invariant, read for one channel.
LEMMA AllCounted ==
    ASSUME MessageInv, QueueFacts, NEW c \in Channels PROVE Counted(c)
<1>1. contents[c] \in Seq(Messages) /\ channels[c] \in Counts \cup {None}
  BY DEF MessageInv, Typed
<1>2. Len(contents[c]) \in Nat /\ TotalSize(contents[c]) \in Nat
  BY <1>1 DEF QueueFacts
<1>. QED  BY <1>1, <1>2 DEF MessageInv, ContentsWithinLimits, Counted

\* prune_hrmp for the watermark of the enacted candidate, read for one channel.
LEMMA AllRemains ==
    ASSUME MessageInv, QueueFacts, NEW p \in Paras, Ready(p), NEW c \in Channels
    PROVE  Remains(p, Mark(p), c, Stays(p, c))
<1>1. Typed /\ DigestsMatchContents /\ Mark(p) \in Nat
  BY DEF MessageInv, Ready
<1>. QED  BY <1>1, PruneEffect DEF Stays

\* A channel that the candidate sends on: one message more, within the limits that
\* check_outbound_hrmp compared with at the backing.
LEMMA ChannelGets ==
    ASSUME MessageInv, QueueFacts, NEW p \in Paras, Ready(p), Enacted(p), NEW c \in Channels, Gets(p, c)
    PROVE  ChannelAfter(p, c)
<1>. DEFINE m == NewMessage(p, c)
            size == Sent(p)[c[2]]
<1>1. c[1] = p /\ c[2] # p /\ c = <<p, c[2]>> /\ c[2] \in DOMAIN Sent(p)
  BY Pairs DEF Gets
<1>2. Counted(c) /\ Remains(p, Mark(p), c, Stays(p, c))
  BY AllCounted, AllRemains
<1>3. /\ size \in Nat /\ channels[c] # None
      /\ channels[c].total_size + size <= MaxTotalSize
      /\ channels[c].msg_count + 1 <= MaxCapacity
  BY <1>1 DEF Ready
<1>4. m \in Messages /\ m.sent_at = now /\ m.size = size
  BY SMTT(30), <1>3 DEF Messages, NewMessage, Ready
<1>. HIDE DEF m, size
<1>5. /\ contents'[c] = Append(contents[c], m)
      /\ channels'[c] = [msg_count |-> channels[c].msg_count + 1,
                         total_size |-> channels[c].total_size + size]
  BY Zenon, <1>1, <1>2 DEF Enacted, Remains, m, size
<1>6. /\ channels[c].msg_count = Len(contents[c]) /\ Len(contents[c]) \in Nat
      /\ channels[c].total_size = TotalSize(contents[c]) /\ TotalSize(contents[c]) \in Nat
      /\ contents[c] \in Seq(Messages)
  BY <1>2, <1>3 DEF Counted
<1>7. /\ contents'[c] \in Seq(Messages) /\ Len(contents'[c]) = Len(contents[c]) + 1
      /\ \A i \in 1 .. Len(contents[c]) : contents'[c][i] = contents[c][i]
      /\ contents'[c][Len(contents[c]) + 1] = m
  BY <1>4, <1>5, <1>6
<1>8. TotalSize(contents'[c]) = TotalSize(contents[c]) + size
  BY <1>4, <1>5, <1>6 DEF QueueFacts
<1>9. channels'[c] \in Counts /\ channels'[c] # None
  <2>1. Len(contents[c]) + 1 \in Nat /\ TotalSize(contents[c]) + size \in Nat
    BY <1>3, <1>6
  <2>. QED  BY <1>5, <1>6, <2>1, CountFields
<1>10. /\ channels'[c].msg_count = channels[c].msg_count + 1
       /\ channels'[c].total_size = channels[c].total_size + size
  BY <1>5
<1>11. /\ channels'[c].msg_count = Len(contents'[c])
       /\ channels'[c].total_size = TotalSize(contents'[c])
       /\ channels'[c].msg_count <= MaxCapacity
       /\ channels'[c].total_size <= MaxTotalSize
  BY <1>3, <1>6, <1>7, <1>8, <1>10
<1>12. ASSUME NEW k \in 1 .. Len(contents'[c])
       PROVE  \/ \E j \in 1 .. Len(contents[c]) : contents'[c][k] = contents[c][j]
              \/ contents'[c][k].sent_at = now
  <2>1. k \in 1 .. Len(contents[c]) \/ k = Len(contents[c]) + 1
    BY <1>6, <1>7
  <2>. QED  BY <1>4, <1>7, <2>1
<1>13. \A k \in 1 .. Len(contents[c]) :
          k \in 1 .. Len(contents'[c]) /\ contents'[c][k] = contents[c][k]
  BY <1>6, <1>7
<1>. QED  BY <1>1, <1>7, <1>9, <1>11, <1>12, <1>13 DEF ChannelAfter

\* A channel that the candidate does not send on is what prune_hrmp leaves of it.
LEMMA ChannelKeeps ==
    ASSUME MessageInv, QueueFacts, NEW p \in Paras, Ready(p), Enacted(p), NEW c \in Channels, ~Gets(p, c)
    PROVE  ChannelAfter(p, c)
<1>1. Counted(c) /\ Remains(p, Mark(p), c, Stays(p, c))
  BY SMTT(30), AllCounted, AllRemains
<1>. DEFINE s == Stays(p, c)
            n == contents'[c]
<1>2. n = s /\ channels'[c] = Lighter(c, s)
  BY DEF Enacted
<1>3. /\ s \in Seq(Messages) /\ Len(s) \in Nat /\ TotalSize(s) \in Nat
      /\ Len(s) <= Len(contents[c]) /\ TotalSize(s) <= TotalSize(contents[c])
      /\ Len(contents[c]) \in Nat /\ TotalSize(contents[c]) \in Nat
  BY <1>1 DEF Remains, Counted
<1>4. \A k \in 1 .. Len(s) :
          /\ \E j \in 1 .. Len(contents[c]) : s[k] = contents[c][j]
          /\ c[2] = p => s[k].sent_at > Mark(p)
  BY Zenon, <1>1 DEF Remains
<1>5. ASSUME NEW k \in 1 .. Len(contents[c])
      PROVE  \/ \E i \in 1 .. Len(s) : s[i] = contents[c][k]
             \/ c[2] = p /\ contents[c][k].sent_at <= Mark(p)
  <2>1. contents[c][k].sent_at \in Nat /\ Mark(p) \in Nat
    BY SMTT(30), <1>1, Fields DEF Counted, Ready
  <2>2. CASE c[2] # p
    BY Zenon, <1>1, <2>2 DEF Remains
  <2>3. CASE c[2] = p
    <3>1. \A j \in 1 .. Len(contents[c]) : contents[c][j].sent_at > Mark(p) =>
              \E i \in 1 .. Len(s) : s[i] = contents[c][j]
      BY <1>1 DEF Remains
    <3>2. contents[c][k].sent_at > Mark(p) \/ contents[c][k].sent_at <= Mark(p)
      BY <2>1
    <3>. QED  BY <2>3, <3>1, <3>2
  <2>. QED  BY SMTT(30), <2>2, <2>3
<1>. HIDE DEF s
<1>6. CASE channels[c] = None
  <2>1. channels'[c] = None
    BY <1>2, <1>6 DEF Lighter
  <2>2. Len(s) = 0
    <3>1. Len(contents[c]) = 0
      BY <1>1, <1>6 DEF Counted
    <3>. QED  BY SMTT(30), <1>3, <3>1
  <2>3. s = <<>>
    BY SMTT(30), <1>3, <2>2
  <2>. QED  BY <1>2, <1>3, <1>4, <1>5, <1>6, <2>1, <2>3 DEF ChannelAfter
<1>7. CASE channels[c] # None
  <2>1. /\ channels[c].msg_count = Len(contents[c])
        /\ channels[c].total_size = TotalSize(contents[c])
        /\ Len(contents[c]) <= MaxCapacity /\ TotalSize(contents[c]) <= MaxTotalSize
    BY <1>1, <1>7 DEF Counted
  <2>2. /\ Len(contents[c]) - (Len(contents[c]) - Len(s)) = Len(s)
        /\ TotalSize(contents[c]) - (TotalSize(contents[c]) - TotalSize(s)) = TotalSize(s)
    BY <1>3
  <2>3. channels'[c] = [msg_count |-> Len(s), total_size |-> TotalSize(s)]
    BY SMTT(30), <1>2, <1>7, <2>1, <2>2 DEF Lighter
  <2>4. channels'[c] \in Counts /\ channels'[c] # None
    BY <1>3, <2>3, CountFields
  <2>5. channels'[c].msg_count = Len(s) /\ channels'[c].total_size = TotalSize(s)
    BY <2>3
  <2>6. Len(s) <= MaxCapacity /\ TotalSize(s) <= MaxTotalSize
    BY <1>3, <2>1, Limits
  <2>. QED  BY ZenonT(30), <1>2, <1>3, <1>4, <1>5, <2>1, <2>4, <2>5, <2>6 DEF ChannelAfter
<1>. QED  BY <1>6, <1>7

\* Every channel after an enactment.
LEMMA ChannelsAfter ==
    ASSUME MessageInv, QueueFacts, NEW p \in Paras, Ready(p), Enacted(p)
    PROVE  \A c \in Channels : ChannelAfter(p, c)
  BY ChannelGets, ChannelKeeps

\* What the enactment makes of the digest of r.
DigestAfter(p, r) ==
    /\ digests'[r] \in Seq(Entries) /\ Ordered(digests'[r])
    /\ r = p => Trimmed(digests[p], digests'[p], Mark(p))
    /\ r # p /\ r \in DOMAIN Sent(p) => Noted(digests[r], digests'[r], p)
    /\ r # p /\ r \notin DOMAIN Sent(p) => digests'[r] = digests[r]

\* Every digest after an enactment: pruned for the para itself, with a new sender for a
\* recipient, unchanged for the others.
LEMMA DigestsAfter ==
    ASSUME MessageInv, QueueFacts, NEW p \in Paras, Ready(p), Enacted(p), NEW r \in Paras
    PROVE  DigestAfter(p, r)
<1>1. digests[r] \in Seq(Entries) /\ Ordered(digests[r])
  BY SMTT(30), DigestsOrdered DEF MessageInv, Typed
<1>2. CASE r = p
  <2>1. digests'[p] = PrunedDigest(p, Mark(p))
    BY SMTT(30) DEF Enacted
  <2>2. Mark(p) \in Nat
    BY DEF Ready
  <2>3. Trimmed(digests[p], digests'[p], Mark(p))
    <3>1. Typed
      BY DEF MessageInv
    <3>. QED  BY <1>1, <1>2, <2>1, <2>2, <3>1, DigestPrunedEffect
  <2>4. digests'[r] \in Seq(Entries) /\ Ordered(digests'[r])
    BY SMTT(30), <1>2, <2>3 DEF Trimmed
  <2>. QED  BY SMTT(30), <1>2, <2>3, <2>4 DEF DigestAfter
<1>3. CASE r # p /\ r \in DOMAIN Sent(p)
  <2>1. digests'[r] = NoteSender(digests[r], p)
    BY SMTT(30), <1>3 DEF Enacted
  <2>2. \A i \in 1 .. Len(digests[r]) :
          /\ digests[r][i].block <= now
          /\ digests[r][i].block = now => p \notin Range(digests[r][i].senders)
    BY SMTT(30) DEF MessageInv, Past, SendsOncePerBlock, Ready
  <2>3. now \in Nat
    BY SMTT(30) DEF Ready
  <2>4. Noted(digests[r], NoteSender(digests[r], p), p)
    BY SMTT(30), <1>1, <2>2, <2>3, NoteSenderEffect
  <2>5. digests'[r] \in Seq(Entries) /\ Ordered(digests'[r])
    BY SMTT(30), <2>1, <2>4 DEF Noted
  <2>. QED  BY SMTT(30), <1>3, <2>1, <2>4, <2>5 DEF DigestAfter
<1>4. CASE r # p /\ r \notin DOMAIN Sent(p)
  <2>1. digests'[r] = digests[r]
    BY SMTT(30), <1>4 DEF Enacted
  <2>. QED  BY SMTT(30), <1>1, <1>4, <2>1 DEF DigestAfter
<1>. QED  BY <1>2, <1>3, <1>4

\* An enactment keeps the types and the counters of the channels right.
LEMMA EnactTyped ==
    ASSUME MessageInv, QueueFacts, NEW p \in Paras, Ready(p), Enacted(p)
    PROVE  Typed' /\ ContentsWithinLimits'
<1>1. \A c \in Channels : ChannelAfter(p, c)
  BY ChannelsAfter
<1>2. contents' \in [Channels -> Seq(Messages)]
  <2>1. contents' = [c \in Channels |-> contents'[c]]
    BY DEF Enacted
  <2>. QED  BY SMTT(30), <1>1, <2>1 DEF ChannelAfter
<1>3. channels' \in [Channels -> Counts \cup {None}]
  <2>1. channels' = [c \in Channels |-> channels'[c]]
    BY Zenon DEF Enacted
  <2>. QED  BY SMTT(30), <1>1, <2>1 DEF ChannelAfter
<1>4. digests' \in [Paras -> Seq(Entries)]
  <2>1. digests' = [r \in Paras |-> digests'[r]]
    BY ZenonT(30) DEF Enacted
  <2>. QED  BY SMTT(30), <2>1, DigestsAfter DEF DigestAfter
<1>5. ContentsWithinLimits'
  BY Zenon, <1>1 DEF ChannelAfter, ContentsWithinLimits, TotalSize
<1>. QED  BY <1>2, <1>3, <1>4, <1>5 DEF Enacted, Typed, MessageInv

\* An enactment leaves nothing behind a watermark: the queues of the para are pruned up to
\* its new one, and the new messages are sent in this block, later than any watermark.
LEMMA EnactWatermark ==
    ASSUME MessageInv, QueueFacts, NEW p \in Paras, Ready(p), Enacted(p)
    PROVE  NothingBehindWatermark' /\ Past'
<1>1. NothingBehindWatermark'
  <2>. SUFFICES ASSUME NEW c \in Channels, NEW k \in 1 .. Len(contents'[c])
       PROVE  contents'[c][k].sent_at > watermark'[c[2]]
    BY DEF NothingBehindWatermark
  <2>1. c[2] \in Paras
    BY Pairs
  <2>2. watermark[c[2]] < now /\ watermark[c[2]] \in Nat
    BY <2>1 DEF MessageInv, Past, Typed
  <2>3. \A j \in 1 .. Len(contents[c]) : contents[c][j].sent_at > watermark[c[2]]
    BY DEF MessageInv, NothingBehindWatermark
  <2>4. ChannelAfter(p, c)
    BY ChannelsAfter
  <2>5. watermark'[c[2]] = IF c[2] = p THEN Mark(p) ELSE watermark[c[2]]
    BY <2>1 DEF Enacted
  <2>6. now \in Nat /\ Mark(p) \in Nat /\ Mark(p) < now
    BY SMTT(30) DEF Ready
  <2>. QED  BY ZenonT(30), <2>2, <2>3, <2>4, <2>5, <2>6 DEF ChannelAfter
<1>2. ASSUME NEW r \in Paras PROVE watermark'[r] < now
  <2>1. watermark[r] < now
    BY Zenon DEF MessageInv, Past
  <2>2. watermark'[r] = IF r = p THEN Mark(p) ELSE watermark[r]
    BY Zenon DEF Enacted
  <2>3. Mark(p) < now
    BY Zenon DEF Ready
  <2>. QED  BY Zenon, <2>1, <2>2, <2>3
<1>3. ASSUME NEW r \in Paras, NEW i \in 1 .. Len(digests'[r])
      PROVE  digests'[r][i].block <= now
  <2>1. \A j \in 1 .. Len(digests[r]) : digests[r][j].block <= now
    BY DEF MessageInv, Past
  <2>2. DigestAfter(p, r)
    BY SMTT(30), DigestsAfter
  <2>3. CASE r = p
    BY ZenonT(30), <2>1, <2>2, <2>3 DEF DigestAfter, Trimmed
  <2>4. CASE r # p /\ r \in DOMAIN Sent(p)
    BY SMTT(30), <2>2, <2>4 DEF DigestAfter, Noted
  <2>5. CASE r # p /\ r \notin DOMAIN Sent(p)
    BY SMTT(30), <2>1, <2>2, <2>5 DEF DigestAfter
  <2>. QED  BY <2>3, <2>4, <2>5
<1>4. now' = now
  BY SMTT(30) DEF Enacted
<1>5. Past'
  BY SMTT(30), <1>2, <1>3, <1>4 DEF Past
<1>. QED  BY SMTT(30), <1>1, <1>5

\* An enactment leaves the other pending candidates without a message of this block.
LEMMA EnactSendsOnce ==
    ASSUME MessageInv, QueueFacts, NEW p \in Paras, Ready(p), Enacted(p)
    PROVE  SendsOncePerBlock'
<1>1. now' = now
  BY DEF Enacted
<1>. SUFFICES ASSUME NEW q \in Paras, pending'[q] # None, pending'[q].backed_in < now,
                     NEW r \in Paras, NEW i \in 1 .. Len(digests'[r]), digests'[r][i].block = now
     PROVE  q \notin Range(digests'[r][i].senders)
  BY ZenonT(30), <1>1 DEF SendsOncePerBlock
<1>2. q # p /\ pending'[q] = pending[q]
  BY Zenon DEF Enacted
<1>3. \A j \in 1 .. Len(digests[r]) :
         digests[r][j].block = now => q \notin Range(digests[r][j].senders)
  BY <1>2 DEF MessageInv, SendsOncePerBlock
<1>4. DigestAfter(p, r)
  BY SMTT(30), DigestsAfter
<1>5. CASE r = p
  BY ZenonT(30), <1>3, <1>4, <1>5 DEF DigestAfter, Trimmed
<1>6. CASE r # p /\ r \in DOMAIN Sent(p)
  BY ZenonT(30), <1>2, <1>3, <1>4, <1>6 DEF DigestAfter, Noted
<1>7. CASE r # p /\ r \notin DOMAIN Sent(p)
  BY Zenon, <1>3, <1>4, <1>7 DEF DigestAfter
<1>. QED  BY SMTT(30), <1>5, <1>6, <1>7

\* An enactment leaves every queued message announced: the old ones because their entries
\* survive with them, the new ones by queue_outbound_hrmp.
LEMMA EnactAnnounced ==
    ASSUME MessageInv, QueueFacts, NEW p \in Paras, Ready(p), Enacted(p)
    PROVE  DigestsMatchContents'
<1>1. ASSUME NEW c \in Channels, NEW k \in 1 .. Len(contents'[c])
      PROVE  \E i \in 1 .. Len(digests'[c[2]]) :
                /\ digests'[c[2]][i].block = contents'[c][k].sent_at
                /\ c[1] \in Range(digests'[c[2]][i].senders)
  <2>1. c[2] \in Paras
    BY Pairs
  <2>2. ChannelAfter(p, c) /\ DigestAfter(p, c[2])
    BY SMTT(30), <2>1, ChannelsAfter, DigestsAfter
  <2>3. CASE Gets(p, c) /\ c[2] # p /\ contents'[c][k].sent_at = now
    BY ZenonT(30), <2>2, <2>3 DEF DigestAfter, Noted, Gets
  <2>4. CASE /\ \E j \in 1 .. Len(contents[c]) : contents'[c][k] = contents[c][j]
             /\ c[2] = p => contents'[c][k].sent_at > Mark(p)
    <3>1. PICK j \in 1 .. Len(contents[c]) : contents'[c][k] = contents[c][j]
      BY SMTT(30), <2>4
    <3>2. PICK i \in 1 .. Len(digests[c[2]]) :
              /\ digests[c[2]][i].block = contents'[c][k].sent_at
              /\ c[1] \in Range(digests[c[2]][i].senders)
      BY SMTT(30), <3>1 DEF MessageInv, DigestsMatchContents
    <3>3. CASE c[2] = p
      <4>1. digests[p][i].block > Mark(p)
        BY SMTT(30), <2>4, <3>2, <3>3
      <4>2. PICK d \in 1 .. Len(digests'[p]) : digests'[p][d] = digests[p][i]
        BY SMTT(30), <2>2, <3>3, <4>1 DEF DigestAfter, Trimmed
      <4>. QED  BY ZenonT(30), <3>2, <3>3, <4>2
    <3>4. CASE c[2] # p /\ c[2] \in DOMAIN Sent(p)
      <4>1. PICK d \in 1 .. Len(digests'[c[2]]) :
                  /\ digests'[c[2]][d].block = digests[c[2]][i].block
                  /\ Range(digests[c[2]][i].senders) \subseteq Range(digests'[c[2]][d].senders)
        BY ZenonT(30), <2>2, <3>4 DEF DigestAfter, Noted
      <4>. QED  BY SMTT(30), <3>2, <4>1
    <3>5. CASE c[2] # p /\ c[2] \notin DOMAIN Sent(p)
      BY ZenonT(30), <2>2, <3>2, <3>5 DEF DigestAfter
    <3>. QED  BY <3>3, <3>4, <3>5
  <2>. QED  BY Zenon, <2>2, <2>3, <2>4 DEF ChannelAfter
<1>2. \A r \in Paras : Ordered(digests'[r])
  BY SMTT(30), DigestsAfter DEF DigestAfter
<1>. QED  BY ZenonT(30), <1>1, <1>2 DEF DigestsMatchContents, Ordered

\* An enactment leaves the other candidates their room: only the sender of a channel puts
\* messages in it, and pruning only makes room.
LEMMA EnactFit ==
    ASSUME MessageInv, QueueFacts, NEW p \in Paras, Ready(p), Enacted(p)
    PROVE  CandidatesFit'
<1>1. now' = now
  BY DEF Enacted
<1>. SUFFICES ASSUME NEW q \in Paras, pending'[q] # None
     PROVE  /\ pending'[q].backed_in <= now
            /\ pending'[q].watermark < now
            /\ \A r \in DOMAIN pending'[q].out :
                  /\ <<q, r>> \in Channels
                  /\ channels'[<<q, r>>] # None
                  /\ channels'[<<q, r>>].total_size + pending'[q].out[r] <= MaxTotalSize
                  /\ channels'[<<q, r>>].msg_count + 1 <= MaxCapacity
  BY ZenonT(30), <1>1 DEF CandidatesFit
<1>2. q # p /\ pending'[q] = pending[q] /\ pending[q] # None
  BY Zenon DEF Enacted
<1>3. ASSUME NEW r \in DOMAIN pending[q].out
      PROVE  /\ <<q, r>> \in Channels
             /\ channels'[<<q, r>>] # None
             /\ channels'[<<q, r>>].total_size + pending[q].out[r] <= MaxTotalSize
             /\ channels'[<<q, r>>].msg_count + 1 <= MaxCapacity
  <2>. DEFINE c == <<q, r>>
  <2>1. /\ c \in Channels /\ channels[c] # None
        /\ channels[c].total_size + pending[q].out[r] <= MaxTotalSize
        /\ channels[c].msg_count + 1 <= MaxCapacity
    BY SMTT(30), <1>2 DEF MessageInv, CandidatesFit
  <2>2. c[1] # p
    BY SMTT(30), <1>2
  <2>. HIDE DEF c
  <2>3. ChannelAfter(p, c)
    BY SMTT(30), <2>1, ChannelsAfter
  <2>4. /\ channels'[c] # None /\ channels'[c] \in Counts /\ channels[c] \in Counts
        /\ channels'[c].msg_count <= channels[c].msg_count
        /\ channels'[c].total_size <= channels[c].total_size
    BY ZenonT(30), <2>1, <2>2, <2>3 DEF ChannelAfter, MessageInv, Typed
  <2>5. pending[q].out[r] \in Nat
    <3>1. pending[q] \in Candidates
      BY SMTT(30), <1>2 DEF MessageInv, Typed
    <3>. QED  BY <3>1, CandidateFields
  <2>6. /\ channels'[c].msg_count \in Nat /\ channels'[c].total_size \in Nat
        /\ channels[c].msg_count \in Nat /\ channels[c].total_size \in Nat
    BY SMTT(30), <2>4, CountFields
  <2>7. /\ channels'[c].total_size + pending[q].out[r] <= MaxTotalSize
        /\ channels'[c].msg_count + 1 <= MaxCapacity
    BY <2>1, <2>4, <2>5, <2>6, Limits
  <2>. QED  BY SMTT(30), <2>1, <2>4, <2>7 DEF c
<1>. QED  BY SMTT(30), <1>2, <1>3 DEF MessageInv, CandidatesFit

\* Enacting a candidate keeps the invariant, and drops no message that is after the watermark.
LEMMA EnactStep ==
    ASSUME MessageInv, QueueFacts, NEW p \in Paras, enact_candidate(p)
    PROVE  /\ MessageInv'
           /\ \A c \in Channels : \A k \in 1 .. Len(contents[c]) :
                 \/ contents[c][k] \in Range(contents'[c])
                 \/ contents[c][k].sent_at <= watermark'[c[2]]
<1>1. Ready(p) /\ Enacted(p)
  BY Enacting
<1>2. MessageInv'
  BY SMTT(30), <1>1, EnactTyped, EnactWatermark, EnactSendsOnce, EnactAnnounced, EnactFit DEF MessageInv
<1>3. ASSUME NEW c \in Channels, NEW k \in 1 .. Len(contents[c])
      PROVE  \/ contents[c][k] \in Range(contents'[c])
             \/ contents[c][k].sent_at <= watermark'[c[2]]
  <2>1. ChannelAfter(p, c)
    BY <1>1, ChannelsAfter
  <2>2. DOMAIN contents'[c] = 1 .. Len(contents'[c])
    BY <2>1 DEF ChannelAfter
  <2>3. c[2] = p => watermark'[c[2]] = Mark(p)
    BY Zenon, <1>1 DEF Enacted
  <2>. QED  BY Zenon, <2>1, <2>2, <2>3 DEF ChannelAfter, Range
<1>. QED  BY <1>2, <1>3

\* The invariant holds at genesis.
LEMMA MessageInit ==
    ASSUME QueueFacts, Init PROVE MessageInv
<1>. USE DEF Init
<1>1. Empty \in Counts /\ Empty # None /\ Empty.msg_count = 0 /\ Empty.total_size = 0
  BY NoneApart DEF Empty, Counts
<1>. HIDE DEF Empty
<1>2. Typed
  BY SMTT(30), <1>1 DEF Typed
<1>3. Past /\ CandidatesFit /\ SendsOncePerBlock
  BY DEF Past, CandidatesFit, SendsOncePerBlock
<1>4. ContentsWithinLimits
  <2>1. 0 <= MaxCapacity /\ 0 <= MaxTotalSize /\ Len(<<>>) = 0
    BY Limits
  <2>. QED  BY <1>1, <2>1 DEF ContentsWithinLimits, QueueFacts
<1>5. DigestsMatchContents /\ NothingBehindWatermark
  BY Pairs DEF DigestsMatchContents, NothingBehindWatermark
<1>. QED  BY <1>2, <1>3, <1>4, <1>5 DEF MessageInv

\* Every step keeps the invariant.
LEMMA MessageStep ==
    ASSUME MessageInv, QueueFacts, [Next]_messageVars
    PROVE  MessageInv'
<1>1. CASE Next
  BY <1>1, AcceptStep, EnactStep, BlockStep, SessionStep DEF Next
<1>2. CASE UNCHANGED messageVars
  <2>. USE <1>2 DEF messageVars, MessageInv
  <2>1. Typed' /\ Past' /\ CandidatesFit' /\ SendsOncePerBlock'
    BY ZenonT(30) DEF Typed, Past, CandidatesFit, SendsOncePerBlock
  <2>2. ContentsWithinLimits' /\ DigestsMatchContents' /\ NothingBehindWatermark'
    BY DEF ContentsWithinLimits, DigestsMatchContents, NothingBehindWatermark
  <2>. QED  BY SMTT(30), <2>1, <2>2
<1>. QED  BY SMTT(30), <1>1, <1>2

\* What a step leaves of the messages of an open channel.
MessagesStay(c) ==
    channels[c] # None /\ channels'[c] # None =>
        \A k \in 1 .. Len(contents[c]) :
            contents[c][k] \in Range(contents'[c])
            \/ contents[c][k].sent_at <= watermark'[c[2]]

\* No step drops an unread message from a channel that stays open.
LEMMA UnreadStep ==
    ASSUME MessageInv, QueueFacts, [Next]_messageVars, NEW c \in Channels
    PROVE  MessagesStay(c)
<1>1. \A s \in Seq(Messages) : \A k \in 1 .. Len(s) : s[k] \in Range(s)
  BY SMTT(30) DEF Range
<1>2. contents'[c] = contents[c] => MessagesStay(c)
  BY SMTT(30), <1>1 DEF MessageInv, Typed, MessagesStay
<1>3. ASSUME NEW p \in Paras, accept_candidate(p) PROVE MessagesStay(c)
  BY SMTT(30), <1>2, <1>3 DEF accept_candidate
<1>4. ASSUME NEW p \in Paras, enact_candidate(p) PROVE MessagesStay(c)
  BY <1>4, EnactStep DEF MessagesStay
<1>5. CASE new_block
  BY SMTT(30), <1>2, <1>5 DEF new_block
<1>6. CASE new_session
  <2>1. channels'[c] # None => contents'[c] = contents[c]
    BY <1>6 DEF new_session
  <2>. QED  BY SMTT(30), <1>2, <2>1 DEF MessagesStay
<1>7. CASE UNCHANGED messageVars
  BY <1>2, <1>7 DEF messageVars
<1>. QED  BY <1>3, <1>4, <1>5, <1>6, <1>7 DEF Next

INSTANCE FoldTheorems

\* The size of a queue is a natural.
LEMMA TotalSizeType ==
    ASSUME NEW s \in Seq(Messages)
    PROVE  TotalSize(s) \in Nat
<1>1. DOMAIN s = 1 .. Len(s) /\ Len(s) \in Nat
  OBVIOUS
<1>2. IsFiniteSet(DOMAIN s)
  BY SMTT(30), <1>1, UpTo
<1>3. \A i \in DOMAIN s : [j \in DOMAIN s |-> s[j].size][i] \in Nat
  BY <1>1, Fields
<1>. QED  BY SMTT(30), <1>2, <1>3, SumType DEF TotalSize

\* Queueing a message adds its size to the size of the queue, as queue_outbound_hrmp
\* adds it to total_size.
LEMMA TotalSizeAppend ==
    ASSUME NEW s \in Seq(Messages), NEW m \in Messages
    PROVE  TotalSize(Append(s, m)) = TotalSize(s) + m.size
<1>. DEFINE t == Append(s, m)
            f == [j \in DOMAIN s |-> s[j].size]
            g == [j \in DOMAIN t |-> t[j].size]
            n == Len(s)
<1>1. /\ n \in Nat /\ DOMAIN s = 1 .. n /\ DOMAIN t = 1 .. n + 1
      /\ t \in Seq(Messages) /\ t[n + 1] = m /\ \A i \in 1 .. n : t[i] = s[i]
  OBVIOUS
<1>2. TotalSize(t) = SumFunctionOnSet(g, DOMAIN t) /\ TotalSize(s) = SumFunctionOnSet(f, DOMAIN s)
  BY DEF TotalSize
<1>. HIDE DEF t, n
<1>3. \A i \in 1 .. n + 1 : t[i] \in Messages
  BY <1>1
<1>4. /\ \A i \in 1 .. n + 1 : g[i] \in Nat
      /\ \A i \in 1 .. n : f[i] = g[i]
      /\ g[n + 1] = m.size
  BY <1>1, <1>3, Fields
<1>. HIDE DEF f, g
<1>5. SumFunctionOnSet(g, 1 .. n + 1) = SumFunctionOnSet(f, 1 .. n) + g[n + 1]
  BY Zenon, <1>1, <1>4, SumNext
<1>. QED  BY <1>1, <1>2, <1>4, <1>5 DEF t

\* Pruning a queue never makes it longer or larger, so that the saturating_sub of prune_hrmp
\* never saturates.
LEMMA TotalSizeFilter ==
    ASSUME NEW s \in Seq(Messages), NEW K
    PROVE  /\ Filter(s, K) \in Seq(Messages)
           /\ Len(Filter(s, K)) <= Len(s)
           /\ TotalSize(Filter(s, K)) <= TotalSize(s)
<1>. DEFINE t == Filter(s, K)
            f == [j \in DOMAIN s |-> s[j].size]
            g == [j \in DOMAIN t |-> t[j].size]
<1>1. t \in Seq(Messages)
  BY FilterKeeps
<1>. HIDE DEF t
<1>2. DOMAIN s = 1 .. Len(s) /\ DOMAIN t = 1 .. Len(t)
  BY SMTT(30), <1>1
<1>3. /\ \A i \in 1 .. Len(s) : f[i] \in Nat
      /\ \A i \in 1 .. Len(t) : \A j \in 1 .. Len(s) : t[i] = s[j] => g[i] = f[j]
  <2>1. \A i \in 1 .. Len(s) : s[i].size \in Nat
    BY SMTT(30), Fields
  <2>. QED  BY SMTT(30), <2>1, <1>1, <1>2
<1>4. TotalSize(t) = SumFunctionOnSet(g, DOMAIN t) /\ TotalSize(s) = SumFunctionOnSet(f, DOMAIN s)
  BY SMTT(30) DEF TotalSize
<1>. HIDE DEF f, g
<1>5. /\ Len(t) <= Len(s)
      /\ SumFunctionOnSet(g, 1 .. Len(t)) <= SumFunctionOnSet(f, 1 .. Len(s))
  BY SMTT(30), <1>3, FilterShrinks DEF t
<1>. QED  BY SMTT(30), <1>1, <1>2, <1>4, <1>5 DEF t

\* An empty queue has size 0, the total_size of a channel that has just been opened.
LEMMA EmptySize == TotalSize(<<>>) = 0
<1>1. DOMAIN <<>> = {}
  OBVIOUS
<1>. QED  BY <1>1, SumEmpty DEF TotalSize

\* What the proofs above assume of queues and of their sizes is true.
LEMMA QueueFactsHold == QueueFacts
<1>1. ASSUME NEW M, NEW s \in Seq(M), NEW K
      PROVE  Filter(s, K) \in Seq(M) /\ \E e : Embedded(Filter(s, K), s, K, e)
  <2>1. PICK e : Picked(Filter(s, K), s, K, Len(s), e)
    BY FilterKeeps
  <2>2. Embedded(Filter(s, K), s, K, e)
    BY <2>1, Zenon DEF Picked, Embedded
  <2>. QED  BY <2>2, FilterKeeps
<1>. QED  BY <1>1, TotalSizeType, TotalSizeAppend, TotalSizeFilter, EmptySize, Zenon DEF QueueFacts

\* The inductive invariant holds in every reachable state.
LEMMA MessageInvHolds == Spec => []MessageInv
<1>1. Init => MessageInv
  BY QueueFactsHold, MessageInit
<1>2. MessageInv /\ [Next]_messageVars => MessageInv'
  BY QueueFactsHold, MessageStep
<1>. QED  BY <1>1, <1>2, PTL DEF Spec

\* HrmpChannel.msg_count and total_size always say what the queue holds, and never exceed
\* max_capacity and max_total_size, for any paras, channels and limits: the check at the
\* backing of a candidate is enough although the messages are queued at a later block.
THEOREM ChannelsStayWithinLimits == Spec => []ContentsWithinLimits
<1>1. MessageInv => ContentsWithinLimits
  BY SMTT(30) DEF MessageInv
<1>. QED  BY <1>1, MessageInvHolds, PTL

\* HrmpChannelDigests always announces every queued message to its recipient, in the block it was
\* sent in, with the blocks in order and no sender twice in one block.
THEOREM EveryMessageIsAnnounced == Spec => []DigestsMatchContents
<1>1. MessageInv => DigestsMatchContents
  BY SMTT(30) DEF MessageInv
<1>. QED  BY <1>1, MessageInvHolds, PTL

\* No message that is behind the watermark of its recipient is left in a queue, so none is
\* read again.
THEOREM NothingIsReadTwice == Spec => []NothingBehindWatermark
<1>1. MessageInv => NothingBehindWatermark
  BY DEF MessageInv
<1>. QED  BY <1>1, MessageInvHolds, PTL

\* A message leaves the queue of a channel that stays open only when the watermark of its
\* recipient has passed it.
THEOREM UnreadMessagesStay == Spec => NoUnreadMessageLost
<1>1. ASSUME MessageInv, [Next]_messageVars
      PROVE  [\A c \in Channels : MessagesStay(c)]_messageVars
  BY ZenonT(30), <1>1, QueueFactsHold, UnreadStep
<1>2. [\A c \in Channels : MessagesStay(c)]_messageVars <=>
      [\A c \in Channels :
           channels[c] # None /\ channels'[c] # None =>
              \A k \in 1 .. Len(contents[c]) :
                  contents[c][k] \in Range(contents'[c])
                  \/ contents[c][k].sent_at <= watermark'[c[2]]]_messageVars
  BY DEF MessagesStay
<1>. QED  BY <1>1, <1>2, MessageInvHolds, PTL DEF Spec, NoUnreadMessageLost
=============================================================================

---------------------------- MODULE HrmpMessages ----------------------------
(***************************************************************************)
(* The messages inside the channels of the hrmp pallet                     *)
(* (runtime/parachains/src/hrmp.rs).  A candidate of a para says how far   *)
(* the para has read (its watermark) and what it sends.  Both are checked  *)
(* when the candidate is backed on chain (check_hrmp_watermark,            *)
(* check_outbound_hrmp) and take effect only when it is enacted, in a      *)
(* later block (prune_hrmp, then queue_outbound_hrmp): in between, other   *)
(* candidates are enacted and channels open and close.                     *)
(*                                                                         *)
(* A message is its size and the block that queued it; the hash chain of   *)
(* each channel (mqc_head) is left out.  A session change drops the        *)
(* candidates that are pending, opens and closes channels (HrmpChannels    *)
(* says which) and takes offboarded paras away.                            *)
(***************************************************************************)
EXTENDS Naturals, Sequences, FiniteSets, Functions, Filter

CONSTANTS
    Paras,
    Channels,        \* pairs <<sender, recipient>>
    MaxCapacity,     \* max_capacity of every channel
    MaxTotalSize,    \* max_total_size of every channel
    MaxMessageSize,  \* max_message_size of every channel
    MaxPerCandidate, \* config.hrmp_max_message_num_per_candidate
    MaxBlock,        \* bound on the relay chain's block number
    MaxSessions      \* bound on the session changes

ASSUME HrmpMessagesAssumption ==
    /\ Channels \subseteq {c \in Paras \X Paras : c[1] # c[2]}
    /\ {MaxCapacity, MaxTotalSize, MaxMessageSize, MaxPerCandidate,
        MaxBlock, MaxSessions} \subseteq Nat

VARIABLES
    now,        \* number of the relay chain block being built
    session,
    live,       \* the paras that are registered
    channels,   \* HrmpChannels: message count and total size, or None
    contents,   \* HrmpChannelContents
    digests,    \* HrmpChannelDigests: blocks, with who sent in them
    watermark,  \* HrmpWatermarks, 0 for none
    pending     \* the candidate of each para that waits for availability

messageVars ==
    <<now, session, live, channels, contents, digests, watermark, pending>>

None == [none |-> TRUE]
Sizes == 1 .. MaxMessageSize
Empty == [msg_count |-> 0, total_size |-> 0]

Init ==
    /\ now = 2 /\ session = 0
    /\ live = Paras
    /\ channels = [c \in Channels |-> Empty]
    /\ contents = [c \in Channels |-> <<>>]
    /\ digests = [p \in Paras |-> <<>>]
    /\ watermark = [p \in Paras |-> 0]
    /\ pending = [p \in Paras |-> None]

-----------------------------------------------------------------------------
(* Acceptance.                                                             *)

\* A candidate is built on the parent of the block that backs it.
RelayParent == now - 1

check_hrmp_watermark(p, w) ==
    /\ w > watermark[p]
    /\ w <= RelayParent
    /\ \/ w = RelayParent
       \/ \E i \in 1 .. Len(digests[p]) : digests[p][i].block = w

\* out maps each recipient of the candidate to the size of its message: the
\* code asks for strictly ascending recipients.
IgnoresCapacity(p, out) ==
    /\ Cardinality(DOMAIN out) <= MaxPerCandidate
    /\ \A r \in DOMAIN out : channels[<<p, r>>] # None
check_outbound_hrmp(p, out) ==
    /\ Cardinality(DOMAIN out) <= MaxPerCandidate
    /\ \A r \in DOMAIN out :
          LET c == channels[<<p, r>>] IN
          /\ c # None
          /\ out[r] <= MaxMessageSize
          /\ c.total_size + out[r] <= MaxTotalSize
          /\ c.msg_count + 1 <= MaxCapacity

Recipients(p) == {r \in Paras : <<p, r>> \in Channels}

accept_candidate(p) ==
    /\ p \in live /\ pending[p] = None
    /\ \E w \in 1 .. now, rs \in SUBSET Recipients(p) :
       \E out \in [rs -> Sizes] :
          /\ check_hrmp_watermark(p, w)
          /\ check_outbound_hrmp(p, out)
          /\ pending' = [pending EXCEPT ![p] =
                [backed_in |-> now, watermark |-> w, out |-> out]]
    /\ UNCHANGED <<now, session, live, channels, contents, digests, watermark>>

-----------------------------------------------------------------------------
(* Enactment.                                                              *)

TotalSize(msgs) ==
    SumFunctionOnSet([i \in DOMAIN msgs |-> msgs[i].size], DOMAIN msgs)

\* Does a message stay in the channel when the watermark moves to w?
KeepsLastBlock(msg, w) == msg.sent_at >= w
KeepsNone(msg, w) == FALSE
Keeps(msg, w) == msg.sent_at > w

\* prune_hrmp(p, w) on the channels, contents and digests.
SendersUpTo(p, w) ==
    UNION {Range(digests[p][i].senders) :
              i \in {j \in 1 .. Len(digests[p]) : digests[p][j].block <= w}}
Pruned(p, w) ==
    [c \in Channels |-> IF c[2] = p /\ c[1] \in SendersUpTo(p, w)
                        THEN Filter(contents[c], {m \in Range(contents[c]) : Keeps(m, w)})
                        ELSE contents[c]]
PrunedDigest(p, w) == Filter(digests[p], {d \in Range(digests[p]) : d.block > w})

\* msg_count and total_size drop by what was removed from the contents.
Lighter(c, kept) ==
    IF channels[c] = None THEN None
    ELSE [msg_count |-> channels[c].msg_count - (Len(contents[c]) - Len(kept)),
          total_size |-> channels[c].total_size
                         - (TotalSize(contents[c]) - TotalSize(kept))]

\* The digest of a recipient once sender has sent to it in this block.
FirstSenderOnly(digest, sender) ==
    IF digest # <<>> /\ digest[Len(digest)].block = now THEN digest
    ELSE Append(digest, [block |-> now, senders |-> <<sender>>])
NoteSender(digest, sender) ==
    IF digest # <<>> /\ digest[Len(digest)].block = now
    THEN [digest EXCEPT ![Len(digest)].senders = Append(@, sender)]
    ELSE Append(digest, [block |-> now, senders |-> <<sender>>])

\* A channel that was closed since the candidate was accepted is skipped.
enact_candidate(p) ==
    /\ pending[p] # None /\ pending[p].backed_in < now
    /\ LET w == pending[p].watermark
           out == pending[p].out
           kept == Pruned(p, w)
           sent == {r \in DOMAIN out : channels[<<p, r>>] # None}
           Gets(c) == c[1] = p /\ c[2] \in sent
       IN  /\ channels' = [c \in Channels |->
                 IF Gets(c)
                 THEN [msg_count |-> channels[c].msg_count + 1,
                       total_size |-> channels[c].total_size + out[c[2]]]
                 ELSE Lighter(c, kept[c])]
           /\ contents' = [c \in Channels |->
                 IF Gets(c)
                 THEN Append(kept[c], [sent_at |-> now, size |-> out[c[2]]])
                 ELSE kept[c]]
           /\ digests' = [r \in Paras |->
                 IF r = p THEN PrunedDigest(p, w)
                 ELSE IF r \in sent THEN NoteSender(digests[r], p)
                 ELSE digests[r]]
           /\ watermark' = [watermark EXCEPT ![p] = w]
           /\ pending' = [pending EXCEPT ![p] = None]
    /\ UNCHANGED <<now, session, live>>

-----------------------------------------------------------------------------
(* Blocks and sessions.                                                    *)

new_block ==
    /\ now < MaxBlock /\ now' = now + 1
    /\ UNCHANGED <<session, live, channels, contents, digests, watermark, pending>>

\* Channels of the set closing close, with their contents; the closed channels
\* of opening open; the channels of the outgoing paras close.  The digests and
\* the watermarks stay.  It happens at the end of a block.
new_session ==
    /\ session < MaxSessions /\ now < MaxBlock
    /\ session' = session + 1 /\ now' = now + 1
    /\ pending' = [p \in Paras |-> None]
    /\ \E outgoing \in SUBSET live, incoming \in SUBSET (Paras \ live),
          condemned \in SUBSET {c \in Channels : channels[c] # None} :
          LET closing == condemned \cup {c \in Channels : {c[1], c[2]} \cap outgoing # {}}
          IN  /\ live' = (live \ outgoing) \cup incoming
              /\ \E opening \in SUBSET {c \in Channels :
                        channels[c] = None /\ {c[1], c[2]} \subseteq live'} :
                    channels' = [c \in Channels |->
                        IF c \in closing THEN None
                        ELSE IF c \in opening THEN Empty ELSE channels[c]]
              /\ contents' = [c \in Channels |->
                    IF c \in closing THEN <<>> ELSE contents[c]]
    /\ UNCHANGED <<digests, watermark>>

Next ==
    \/ \E p \in Paras : accept_candidate(p) \/ enact_candidate(p)
    \/ new_block
    \/ new_session

Spec == Init /\ [][Next]_messageVars

-----------------------------------------------------------------------------
(* Properties.                                                             *)

\* msg_count and total_size of a channel always describe its contents, so that
\* the subtractions of prune_hrmp never wrap; a closed channel has no contents.
\* The limits of a channel are checked when a candidate is accepted and hold
\* when it is enacted, whatever was enacted in between.
ContentsWithinLimits ==
    \A c \in Channels :
        IF channels[c] = None THEN contents[c] = <<>>
        ELSE /\ channels[c].msg_count = Len(contents[c])
             /\ channels[c].total_size = TotalSize(contents[c])
             /\ channels[c].msg_count <= MaxCapacity
             /\ channels[c].total_size <= MaxTotalSize

\* Every message that waits is announced in the digest of its recipient at the
\* block that queued it: the recipient's watermark can land on that block, and
\* prune_hrmp finds the channel.  A digest has one entry per block, in ascending
\* order, and names every sender once (the invariants stated with
\* HrmpChannelDigests).
DigestsMatchContents ==
    /\ \A c \in Channels : \A k \in 1 .. Len(contents[c]) :
          \E i \in 1 .. Len(digests[c[2]]) :
              /\ digests[c[2]][i].block = contents[c][k].sent_at
              /\ c[1] \in Range(digests[c[2]][i].senders)
    /\ \A p \in Paras : \A i, j \in 1 .. Len(digests[p]) :
          /\ i < j => digests[p][i].block < digests[p][j].block
          /\ digests[p][i].senders # <<>>
          /\ IsInjective(digests[p][i].senders)

\* A message at or below the recipient's watermark is gone from its channel,
\* and none is ever queued there: nothing is delivered twice.
NothingBehindWatermark ==
    \A c \in Channels : \A k \in 1 .. Len(contents[c]) :
        contents[c][k].sent_at > watermark[c[2]]

\* A message leaves an open channel only by its recipient's watermark passing
\* it: no step drops an unread message of a channel that stays open.
NoUnreadMessageLost ==
    [][\A c \in Channels :
          channels[c] # None /\ channels'[c] # None =>
              \A k \in 1 .. Len(contents[c]) :
                  contents[c][k] \in Range(contents'[c])
                  \/ contents[c][k].sent_at <= watermark'[c[2]]]_messageVars

\* hrmp.rs on the watermarks: "an offboarded parachain cannot have an HRMP
\* watermark: it should've been cleanup".
WatermarksOfLiveParas == \A p \in Paras : watermark[p] # 0 => p \in live
=============================================================================

---------------------------- MODULE HrmpChannels ----------------------------
(***************************************************************************)
(* The channel management of the relay chain's hrmp pallet                 *)
(* (runtime/parachains/src/hrmp.rs): the requests to open a channel and to *)
(* close it, their counters and indexes, the deposits, and what a session  *)
(* change does with all of it when paras leave.  The messages inside a     *)
(* channel are in HrmpMessages.                                            *)
(*                                                                         *)
(* The storage of the pallet, with the reserved balances, is the record h; *)
(* the routines of the pallet are operators from storage to storage, so    *)
(* that a session change can apply them one after the other.  A channel is *)
(* a pair <<sender, recipient>>.  The sorted index vectors and the request *)
(* lists are sets: their order is nowhere observable.  Capacity and message *)
(* size, checked once against the configuration and copied, are left out,  *)
(* and so are the notifications queued for the other party, which only     *)
(* change the storage of the dmp pallet (module Dmp).                      *)
(*                                                                         *)
(* The paras pallet is seen through the life cycle of each para: a cleanup *)
(* scheduled now takes effect two session changes later.                   *)
(***************************************************************************)
EXTENDS Naturals, FiniteSets, Functions

CONSTANTS
    Paras,
    Channels,         \* the pairs of paras that may ask for a channel
    OutboundLimit,    \* config.hrmp_max_para{chain,thread}_outbound_channels
    InboundLimit,     \* config.hrmp_max_para{chain,thread}_inbound_channels
    Configs,          \* records of the two configured deposits
    Funds,            \* what every para's account holds
    MaxForced         \* bound on the calls of root

ASSUME HrmpChannelsAssumption ==
    /\ IsFiniteSet(Paras)
    /\ Channels \subseteq {c \in Paras \X Paras : c[1] # c[2]}
    /\ OutboundLimit \in [Paras -> Nat] /\ InboundLimit \in [Paras -> Nat]
    /\ Configs \subseteq [sender : Nat, recipient : Nat]
    /\ {Funds, MaxForced} \subseteq Nat

VARIABLES
    h,        \* the pallet's storage and the reserved balances
    config,   \* the active host configuration
    life,     \* the life cycle of each para
    forced    \* how often root used a force_ call

hrmpVars == <<h, config, life, forced>>

None == [none |-> TRUE]

Requested(s) == {c \in Channels : s.requests[c] # None}
Confirmed(s) == {c \in Requested(s) : s.requests[c].confirmed}
Open(s) == {c \in Channels : s.channels[c] # None}
Participants(c) == {c[1], c[2]}

\* Paras::is_valid_para: neither onboarding nor offboarding.
is_valid_para(l, p) == l[p] = "valid"

Init ==
    /\ h = [requests |-> [c \in Channels |-> None], list |-> {},
            openCount |-> [p \in Paras |-> 0],
            acceptedCount |-> [p \in Paras |-> 0],
            closeRequests |-> {},
            channels |-> [c \in Channels |-> None],
            ingress |-> [p \in Paras |-> {}], egress |-> [p \in Paras |-> {}],
            reserved |-> [p \in Paras |-> 0]]
    /\ config \in Configs
    /\ life = [p \in Paras |-> "valid"]
    /\ forced = 0

-----------------------------------------------------------------------------
(* Routines of the pallet, from storage to storage.                        *)

Minus(a, b) == IF a < b THEN 0 ELSE a - b

\* Currency::unreserve, amount(p) for every para: it never goes below zero.
Unreserve(s, amount) ==
    [s EXCEPT !.reserved = [p \in Paras |-> Minus(@[p], amount[p])]]

\* The counters drop once for every channel of cs, per sender or recipient.
DecreaseOpen(s, cs) ==
    [s EXCEPT !.openCount = [p \in Paras |->
        Minus(@[p], Cardinality({c \in cs : c[1] = p}))]]
DecreaseAccepted(s, cs) ==
    [s EXCEPT !.acceptedCount = [p \in Paras |->
        Minus(@[p], Cardinality({c \in cs : c[2] = p}))]]

\* What para p gets back when the channel, or the request, c goes.  A request
\* does not hold the deposit of the recipient that confirmed it: it is the one
\* configured now, since the request was confirmed in the session that ends.
ChannelDue(s, c, p) ==
    IF s.channels[c] = None THEN 0
    ELSE (IF c[1] = p THEN s.channels[c].sender_deposit ELSE 0)
         + (IF c[2] = p THEN s.channels[c].recipient_deposit ELSE 0)
RequestDue(s, cfg, c, p) ==
    IF s.requests[c] = None THEN 0
    ELSE (IF c[1] = p THEN s.requests[c].sender_deposit ELSE 0)
         + (IF c[2] = p /\ s.requests[c].confirmed THEN cfg.recipient ELSE 0)

\* The deposits of the channels cs, per para.
ChannelDeposits(s, cs) == [p \in Paras |->
    SumFunctionOnSet([c \in cs |-> ChannelDue(s, c, p)], cs)]

\* close_hrmp_channel, for every channel of cs.  Idempotent: a channel that is
\* not open returns no deposit.
close_hrmp_channel(s, cs) ==
    [Unreserve(s, ChannelDeposits(s, cs)) EXCEPT
        !.channels = [c \in Channels |-> IF c \in cs THEN None ELSE @[c]],
        !.egress = [p \in Paras |-> @[p] \ {c[2] : c \in {d \in cs : d[1] = p}}],
        !.ingress = [p \in Paras |-> @[p] \ {c[1] : c \in {d \in cs : d[2] = p}}]]

\* The deposits of requests that are dropped because the paras of outgoing
\* leave.  Only a party that stays gets its deposit back.
RequestDeposits(s, cfg, cs, outgoing) == [p \in Paras |->
    IF p \in outgoing THEN 0
    ELSE SumFunctionOnSet([c \in cs |-> RequestDue(s, cfg, c, p)], cs)]

\* Drop the requests in which a para of outgoing takes part.
clean_open_channel_requests(s, cfg, outgoing) ==
    LET go == {c \in s.list : Participants(c) \cap outgoing # {}}
    IN  [DecreaseAccepted(Unreserve(s, RequestDeposits(s, cfg, go, outgoing)),
                          go \cap Confirmed(s)) EXCEPT
            !.list = @ \ go,
            !.requests = [c \in Channels |-> IF c \in go THEN None ELSE @[c]]]

OnlyIngress(s, outgoing) ==
    LET toClose == {c \in Channels : c[2] \in outgoing /\ c[1] \in s.ingress[c[2]]}
        forgot == [s EXCEPT
            !.openCount = [p \in Paras |-> IF p \in outgoing THEN 0 ELSE @[p]],
            !.acceptedCount = [p \in Paras |-> IF p \in outgoing THEN 0 ELSE @[p]],
            !.ingress = [p \in Paras |-> IF p \in outgoing THEN {} ELSE @[p]],
            !.egress = [p \in Paras |-> IF p \in outgoing THEN {} ELSE @[p]]]
    IN  close_hrmp_channel(forgot, toClose)

\* clean_hrmp_after_outgoing, for every para of outgoing: the counters and the
\* indexes of the para go, and every channel the indexes named is closed.
clean_hrmp_after_outgoing(s, outgoing) ==
    LET toClose == {c \in Channels :
            \/ c[2] \in outgoing /\ c[1] \in s.ingress[c[2]]
            \/ c[1] \in outgoing /\ c[2] \in s.egress[c[1]]}
        forgot == [s EXCEPT
            !.openCount = [p \in Paras |-> IF p \in outgoing THEN 0 ELSE @[p]],
            !.acceptedCount = [p \in Paras |-> IF p \in outgoing THEN 0 ELSE @[p]],
            !.ingress = [p \in Paras |-> IF p \in outgoing THEN {} ELSE @[p]],
            !.egress = [p \in Paras |-> IF p \in outgoing THEN {} ELSE @[p]]]
    IN  close_hrmp_channel(forgot, toClose)

\* Every confirmed request leaves the list and, when both parties are valid
\* paras, becomes a channel.
process_hrmp_open_channel_requests(s, cfg, l) ==
    LET sure == s.list \cap Confirmed(s)
        new == {c \in sure : \A p \in Participants(c) : is_valid_para(l, p)}
    IN  [DecreaseAccepted(DecreaseOpen(s, sure), sure) EXCEPT
            !.list = @ \ sure,
            !.requests = [c \in Channels |-> IF c \in sure THEN None ELSE @[c]],
            !.channels = [c \in Channels |->
                IF c \in new
                THEN [sender_deposit |-> s.requests[c].sender_deposit,
                      recipient_deposit |-> cfg.recipient]
                ELSE @[c]],
            !.ingress = [p \in Paras |-> @[p] \cup {c[1] : c \in {d \in new : d[2] = p}}],
            !.egress = [p \in Paras |-> @[p] \cup {c[2] : c \in {d \in new : d[1] = p}}]]

CloseKeepsRequests(s) == close_hrmp_channel(s, s.closeRequests)
process_hrmp_close_channel_requests(s) ==
    close_hrmp_channel([s EXCEPT !.closeRequests = {}], s.closeRequests)

-----------------------------------------------------------------------------
(* Calls.                                                                  *)

\* Currency::reserve.
CanReserve(p, amount) == h.reserved[p] + amount <= Funds

\* A para calls as long as it is registered, even while it is offboarding.
CanCall(p) == life[p] # "gone"

CountsOpenOnly(p) == Cardinality(h.egress[p]) < OutboundLimit[p]
WithinOutbound(p) ==
    Cardinality(h.egress[p]) + h.openCount[p] < OutboundLimit[p]
WithinInbound(p) ==
    Cardinality(h.ingress[p]) + h.acceptedCount[p] < InboundLimit[p]

init_open_channel(c) ==
    /\ CanCall(c[1]) /\ is_valid_para(life, c[2])
    /\ h.requests[c] = None /\ h.channels[c] = None
    /\ WithinOutbound(c[1])
    /\ CanReserve(c[1], config.sender)
    /\ h' = [h EXCEPT
          !.reserved[c[1]] = @ + config.sender,
          !.openCount[c[1]] = @ + 1,
          !.requests[c] = [confirmed |-> FALSE, sender_deposit |-> config.sender],
          !.list = @ \cup {c}]
    /\ UNCHANGED <<config, life, forced>>

accept_open_channel(c) ==
    /\ CanCall(c[2])
    /\ h.requests[c] # None /\ ~h.requests[c].confirmed
    /\ WithinInbound(c[2])
    /\ CanReserve(c[2], config.recipient)
    /\ h' = [h EXCEPT
          !.reserved[c[2]] = @ + config.recipient,
          !.requests[c].confirmed = TRUE,
          !.acceptedCount[c[2]] = @ + 1]
    /\ UNCHANGED <<config, life, forced>>

Unlisted(s, c) == [s EXCEPT !.requests[c] = None]
RemoveRequest(s, c) == [s EXCEPT !.requests[c] = None, !.list = @ \ {c}]

\* Called by either party.
cancel_open_request(c) ==
    /\ \E p \in Participants(c) : CanCall(p)
    /\ h.requests[c] # None /\ ~h.requests[c].confirmed
    /\ h' = DecreaseOpen(
              Unreserve(RemoveRequest(h, c),
                        [p \in Paras |-> IF p = c[1]
                                         THEN h.requests[c].sender_deposit
                                         ELSE 0]), {c})
    /\ UNCHANGED <<config, life, forced>>

\* Called by either party.
close_channel(c) ==
    /\ \E p \in Participants(c) : CanCall(p)
    /\ h.channels[c] # None /\ c \notin h.closeRequests
    /\ h' = [h EXCEPT !.closeRequests = @ \cup {c}]
    /\ UNCHANGED <<config, life, forced>>

\* The calls of root.
ForceTo(t) ==
    /\ forced < MaxForced /\ forced' = forced + 1
    /\ h' = t
    /\ UNCHANGED <<config, life>>

force_clean_hrmp(p) == ForceTo(clean_hrmp_after_outgoing(h, {p}))

force_process_hrmp_open ==
    /\ h.list # {}
    /\ ForceTo(process_hrmp_open_channel_requests(h, config, life))

force_process_hrmp_close == ForceTo(process_hrmp_close_channel_requests(h))

-----------------------------------------------------------------------------
(* Paras and sessions.                                                     *)

schedule_para_cleanup(p) ==
    /\ life[p] = "valid"
    /\ life' = [life EXCEPT ![p] = "offboarding"]
    /\ UNCHANGED <<h, config, forced>>

\* Two session changes take an offboarding para away.
Aged(l, incoming) == [p \in Paras |->
    CASE l[p] = "offboarding" -> "leaving"
      [] l[p] = "leaving" -> "gone"
      [] l[p] = "gone" /\ p \in incoming -> "valid"
      [] OTHER -> l[p]]

\* The channels open with the deposits of the configuration that ends.
NewConfig(prev, new) == new
ConfigOfOpening(prev, new) == prev

\* The steps of a session change, in order: the outgoing paras are cleaned up,
\* the confirmed requests are enacted, the close requests are enacted.
initializer_on_new_session ==
    \E newConfig \in Configs, incoming \in SUBSET {p \in Paras : life[p] = "gone"} :
        LET outgoing == {p \in Paras : life[p] = "leaving"}
            after == Aged(life, incoming)
            cleaned == clean_hrmp_after_outgoing(
                clean_open_channel_requests(h, config, outgoing), outgoing)
            opened == process_hrmp_open_channel_requests(
                cleaned, ConfigOfOpening(config, newConfig), after)
        IN  /\ h' = process_hrmp_close_channel_requests(opened)
            /\ life' = after
            /\ config' = newConfig
            /\ UNCHANGED forced

Next ==
    \/ \E c \in Channels : \/ init_open_channel(c) \/ accept_open_channel(c)
                           \/ cancel_open_request(c) \/ close_channel(c)
    \/ \E p \in Paras : force_clean_hrmp(p) \/ schedule_para_cleanup(p)
    \/ force_process_hrmp_open
    \/ force_process_hrmp_close
    \/ initializer_on_new_session

Spec == Init /\ [][Next]_hrmpVars

-----------------------------------------------------------------------------
(* Properties.                                                             *)

\* The list of open requests names exactly the requests in the map: the
\* invariant behind the expect() of process_hrmp_open_channel_requests.
ListMatchesRequests == h.list = Requested(h)

\* The egress index, the ingress index and the channels describe the same set
\* of channels, whatever was opened, closed, cleaned up or forced.
IndexesMatchChannels ==
    \A c \in Channels :
        /\ c \in Open(h) <=> c[2] \in h.egress[c[1]]
        /\ c \in Open(h) <=> c[1] \in h.ingress[c[2]]

\* Both: every list the pallet keeps beside a map describes that map.
ListsMatchMaps == ListMatchesRequests /\ IndexesMatchChannels

\* What the pallet still owes each para for its requests and its channels.
Owed(p) ==
    SumFunctionOnSet([c \in Channels |-> RequestDue(h, config, c, p) + ChannelDue(h, c, p)],
                     Channels)

\* No deposit is returned twice or to the wrong party: what a para has reserved
\* always covers what its requests and channels will return to it, also when
\* the configured deposits change and when its counterparties leave.
DepositsCovered == \A p \in Paras : Owed(p) <= h.reserved[p]

\* A para never has more outbound channels and requests than its limit, nor
\* more inbound channels and accepted requests: the counters checked by
\* init_open_channel and accept_open_channel never fall behind, and the one of
\* the accepted requests never runs ahead (the invariant stated with
\* HrmpAcceptedChannelRequestCount), unless root resets them with
\* force_clean_hrmp.
WithinLimits ==
    forced = 0 => \A p \in Paras :
        /\ Cardinality({c \in Open(h) \cup Requested(h) : c[1] = p})
               <= OutboundLimit[p]
        /\ Cardinality({c \in Open(h) \cup Confirmed(h) : c[2] = p})
               <= InboundLimit[p]
        /\ h.acceptedCount[p] = Cardinality({c \in Confirmed(h) : c[2] = p})

\* Neither a channel nor a request survives one of its parties.
NoneOutlivesItsParties ==
    \A c \in Open(h) \cup Requested(h), p \in Paras :
        p \in Participants(c) => life[p] # "gone"

\* A close request never outlives its channel, so that it cannot close one that
\* is opened later, unless root closed the channel in between.
CloseRequestsAreCurrent == forced = 0 => h.closeRequests \subseteq Open(h)

\* hrmp.rs on HrmpOpenChannelRequestCount: "HrmpOpenChannelRequests should
\* contain the same number of items that has (X, _) as the number of
\* HrmpOpenChannelRequestCount for X".
RequestCountMatches ==
    \A p \in Paras :
        h.openCount[p] = Cardinality({c \in Requested(h) : c[1] = p})
=============================================================================

------------------------------- MODULE Paras -------------------------------
(***************************************************************************)
(* The relay chain's paras pallet (runtime/parachains/src/paras/mod.rs):   *)
(* the life cycle of the paras, their validation code and its upgrades,    *)
(* the pre-checking votes on new code, and the retention of old code.      *)
(*                                                                         *)
(* The storage is the record s; the routines of the pallet are operators   *)
(* from storage to storage, so that a block and a session change compose   *)
(* them.  A code is its hash.  Sorted vectors are sets.  Head data is left *)
(* out: nothing but full_deactivate, a removal of empty metadata, reads it *)
(* here.  A candidate is accepted in one block and enacted in a later one  *)
(* (inclusion pallet); a session change drops it.                          *)
(***************************************************************************)
EXTENDS Naturals, FiniteSets, FiniteSetsExt

CONSTANTS
    ParaIds,
    Codes,                  \* validation codes
    GenesisCode,            \* the code of the paras in the genesis
    Validators,
    PvfCheckingEnabled,     \* config.pvf_checking_enabled
    VotingTtl,              \* config.pvf_voting_ttl
    UpgradeDelay,           \* config.validation_upgrade_delay
    MinimumUpgradeDelay,    \* config.minimum_validation_upgrade_delay
    UpgradeCooldown,        \* config.validation_upgrade_cooldown
    CodeRetention,          \* config.code_retention_period
    MaxBlock,               \* bound on the block number
    MaxSession,             \* bound on the session index
    None

ASSUME ParasAssumption ==
    /\ GenesisCode \in Codes /\ None \notin Codes
    /\ None \notin {"Onboarding", "Parathread", "Parachain", "UpgradingParathread",
                    "DowngradingParachain", "OffboardingParathread",
                    "OffboardingParachain"}
    /\ {VotingTtl, UpgradeDelay, MinimumUpgradeDelay, UpgradeCooldown,
        CodeRetention, MaxBlock, MaxSession} \subseteq Nat
    /\ PvfCheckingEnabled \in BOOLEAN

VARIABLES
    now,      \* number of the block being built
    session,
    s,        \* the storage of the pallet
    pending   \* the accepted candidate of each para

parasVars == <<now, session, s, pending>>

SESSION_DELAY == 2

is_parachain(life) ==
    life \in {"Parachain", "DowngradingParachain", "OffboardingParachain"}
is_parathread(life) ==
    life \in {"Parathread", "UpgradingParathread", "OffboardingParathread"}
is_offboarding(life) == life \in {"OffboardingParathread", "OffboardingParachain"}
is_stable(life) == life \in {"Parachain", "Parathread"}

NoVote == [accept |-> {}, reject |-> {}, age |-> 0, causes |-> {}]
Voting(t) == {c \in Codes : t.votes[c].causes # {}}

\* The genesis: some of the paras are parachains with the genesis code.
ParasInit ==
    /\ now = 1 /\ session = 0
    /\ pending = [p \in ParaIds |-> None]
    /\ \E born \in SUBSET ParaIds :
        s = [life |-> [p \in ParaIds |-> IF p \in born THEN "Parachain" ELSE None],
             parachains |-> born,
             genesis |-> [p \in ParaIds |-> None],
             actions |-> [n \in 0 .. MaxSession + SESSION_DELAY |-> {}],
             current |-> [p \in ParaIds |-> IF p \in born THEN GenesisCode ELSE None],
             future |-> [p \in ParaIds |-> None],
             futureAt |-> [p \in ParaIds |-> 0],
             goAhead |-> [p \in ParaIds |-> None],
             restricted |-> {}, cooldowns |-> {}, upcoming |-> {},
             past |-> {}, meta |-> {}, pruning |-> {},
             refs |-> [c \in Codes |-> IF c = GenesisCode THEN Cardinality(born) ELSE 0],
             stored |-> IF born = {} THEN {} ELSE {GenesisCode},
             votes |-> [c \in Codes |-> NoVote]]

-----------------------------------------------------------------------------
(* Code storage.                                                           *)

increase_code_ref(t, code) ==
    [t EXCEPT !.refs[code] = @ + 1,
              !.stored = IF t.refs[code] = 0 THEN @ \cup {code} ELSE @]

\* decrease_code_ref, n[c] times for every code c.
decrease_code_ref(t, n) ==
    [t EXCEPT !.refs = [c \in Codes |-> IF @[c] < n[c] THEN 0 ELSE @[c] - n[c]],
              !.stored = @ \ {c \in Codes : 0 < t.refs[c] /\ t.refs[c] <= n[c]}]

\* replaced is a set of codes that no longer are current; at is the block the
\* para knows, now the block of the replacement.
note_past_code(t, replaced) ==
    [t EXCEPT !.past = {x \in @ : \A y \in replaced : <<x.id, x.at>> # <<y.id, y.at>>}
                           \cup replaced,
              !.meta = @ \cup {[id |-> y.id, expected_at |-> y.at, activated_at |-> now] :
                               y \in replaced},
              !.pruning = @ \cup {<<y.id, now>> : y \in replaced}]

\* The height at and below which replaced code may go.
KeepsTooLittle(block) == block - CodeRetention
KeepsTooMuch(block) == block - (CodeRetention + 2)
PruningHeight(block) == block - (CodeRetention + 1)

prune_old_code(t, block) ==
    LET height == PruningHeight(block)
        due == {x \in t.pruning : x[2] <= height}
        ids == {x[1] : x \in due}
        old == {x \in t.meta : x.id \in ids /\ x.activated_at <= height}
        gone == {x \in t.past : \E y \in old : x.id = y.id /\ x.at = y.expected_at}
        n == [c \in Codes |-> Cardinality({x \in gone : x.code = c})]
    IN  IF block <= CodeRetention THEN t
        ELSE [decrease_code_ref(t, n) EXCEPT
                 !.pruning = @ \ due, !.meta = @ \ old, !.past = @ \ gone]

-----------------------------------------------------------------------------
(* Pre-checking.                                                           *)

Queue(t, ids, sess) == [t EXCEPT !.actions[sess] = @ \cup ids]

OnboardAt(sess, observed) == sess + (IF observed >= SESSION_DELAY - 1 THEN 1
                                     ELSE SESSION_DELAY - observed)

proceed_with_onboarding(t, ids, observed) ==
    Queue(t, ids, OnboardAt(session, observed))

ExpectedAt(rp) ==
    LET a == rp + UpgradeDelay
        b == now + MinimumUpgradeDelay
    IN  IF a < b THEN b ELSE a

\* Of two upgrades of one para the later, which the vote lists last, stays.
proceed_with_upgrade(t, upgrades) ==
    LET Parents(id) == {x.relay_parent : x \in {y \in upgrades : y.id = id}}
    IN  [t EXCEPT
            !.futureAt = [p \in ParaIds |-> IF Parents(p) = {} THEN @[p]
                                            ELSE ExpectedAt(Max(Parents(p)))],
            !.upcoming = @ \cup {<<x.id, ExpectedAt(x.relay_parent)>> : x \in upgrades}]

Onboardings(causes) == {x \in causes : x.kind = "Onboarding"}
Upgrades(causes) == {x \in causes : x.kind = "Upgrade"}
IdsOf(causes) == {x.id : x \in causes}

enact_pvf_accepted(t, causes, observed) ==
    proceed_with_upgrade(
        proceed_with_onboarding(t, IdsOf(Onboardings(causes)), observed),
        Upgrades(causes))

Without(f, ids, zero) == [p \in ParaIds |-> IF p \in ids THEN zero ELSE f[p]]

\* The votes on these codes are over, their causes are undone.
enact_pvf_rejected(t, codes) ==
    LET causes == UNION {t.votes[c].causes : c \in codes}
        new == IdsOf(Onboardings(causes))
        upgrading == IdsOf(Upgrades(causes))
        n == [c \in Codes |-> IF c \in codes THEN Cardinality(t.votes[c].causes) ELSE 0]
    IN  [decrease_code_ref(t, n) EXCEPT
            !.votes = [c \in Codes |-> IF c \in codes THEN NoVote ELSE @[c]],
            !.genesis = Without(@, new, None), !.current = Without(@, new, None),
            !.life = Without(@, new, None), !.future = Without(@, upgrading, None),
            !.goAhead = Without(@, upgrading, "Abort")]

NewReferenceOnly(t, cause, code) ==
    IF t.votes[code] # NoVote THEN [t EXCEPT !.votes[code].causes = @ \cup {cause}]
    ELSE increase_code_ref(
        IF ~PvfCheckingEnabled \/ code \in t.stored
        THEN enact_pvf_accepted(t, {cause}, 0)
        ELSE [t EXCEPT !.votes[code].causes = {cause}], code)

\* A vote that runs is joined; known code is accepted at once; otherwise a
\* vote starts.  The code has one user more in every case.
kick_off_pvf_check(t, cause, code) ==
    increase_code_ref(
        IF t.votes[code] # NoVote THEN [t EXCEPT !.votes[code].causes = @ \cup {cause}]
        ELSE IF ~PvfCheckingEnabled \/ code \in t.stored
        THEN enact_pvf_accepted(t, {cause}, 0)
        ELSE [t EXCEPT !.votes[code].causes = {cause}], code)

\* A vote is one session older and starts over with the new validators.
Aged(vote) ==
    [vote EXCEPT !.age = @ + 1, !.accept = {}, !.reject = {}]

\* Votes that reached their time to live are rejected, the others go on.
groom_ongoing_pvf_votes(t) ==
    LET expired == {c \in Voting(t) : t.votes[c].age + 1 >= VotingTtl} IN
    enact_pvf_rejected(
        [t EXCEPT !.votes = [c \in Codes |->
            IF c \in Voting(t) THEN Aged(@[c]) ELSE @[c]]],
        expired)

-----------------------------------------------------------------------------
(* Upgrades.                                                               *)

can_upgrade_validation_code(id) == s.future[id] = None /\ id \notin s.restricted

schedule_code_upgrade(t, id, code, rp) ==
    IF t.future[id] # None \/ t.current[id] = code THEN t
    ELSE kick_off_pvf_check(
            [t EXCEPT !.future[id] = code,
                      !.restricted = @ \cup {id},
                      !.cooldowns = @ \cup {<<id, rp + UpgradeCooldown>>}],
            [kind |-> "Upgrade", id |-> id, relay_parent |-> rp], code)

\* The upgrade is applied by the first candidate whose relay parent has
\* reached the expected block.
DueByBlock(at, rp) == at <= now
IsDue(at, rp) == at <= rp

note_new_head(t, id, rp) ==
    LET at == t.futureAt[id]
        due == [t EXCEPT !.futureAt[id] = 0, !.goAhead[id] = None]
        switched == [due EXCEPT !.future[id] = None, !.current[id] = t.future[id]]
    IN  IF at = 0 THEN [t EXCEPT !.goAhead[id] = None]
        ELSE IF ~IsDue(at, rp) THEN t
        ELSE IF t.future[id] = None THEN due
        ELSE IF t.current[id] = None THEN switched
        ELSE note_past_code(switched, {[id |-> id, at |-> at, code |-> t.current[id]]})

process_scheduled_upgrade_changes(t, block) ==
    LET due == {x \in t.upcoming : x[2] <= block}
        ids == {x[1] : x \in due}
    IN  [t EXCEPT !.upcoming = @ \ due,
                  !.goAhead = [p \in ParaIds |-> IF p \in ids THEN "GoAhead" ELSE @[p]]]

\* The list of cooldowns is read and not shortened.
process_scheduled_upgrade_cooldowns(t) ==
    [t EXCEPT !.restricted = @ \ {x[1] : x \in {y \in t.cooldowns : y[2] <= now}}]

-----------------------------------------------------------------------------
(* The actions queue.                                                      *)

\* The paras that leave: their code becomes past code.
Offboard(t, off) ==
    LET n == [c \in Codes |-> Cardinality({p \in off : t.future[p] = c})]
        replaced == {[id |-> p, at |-> now, code |-> t.current[p]] :
                     p \in {q \in off : t.current[q] # None}}
    IN  [decrease_code_ref(note_past_code(t, replaced), n) EXCEPT
            !.parachains = @ \ off, !.life = Without(@, off, None),
            !.futureAt = Without(@, off, 0), !.goAhead = Without(@, off, None),
            !.restricted = @ \ off, !.future = Without(@, off, None),
            !.current = Without(@, off, None),
            !.upcoming = {x \in @ : x[1] \notin off},
            !.cooldowns = {x \in @ : x[1] \notin off}]

apply_actions_queue(t, sess) ==
    LET Is(life) == {p \in t.actions[sess] : t.life[p] = life}
        on == {p \in Is("Onboarding") : t.genesis[p] # None}
        up == Is("UpgradingParathread")
        down == Is("DowngradingParachain")
        off == {p \in t.actions[sess] : is_offboarding(t.life[p])}
    IN  Offboard([t EXCEPT
            !.actions[sess] = {},
            !.parachains = (@ \cup up \cup {p \in on : t.genesis[p] = "Parachain"}) \ down,
            !.genesis = Without(@, on, None),
            !.life = [p \in ParaIds |->
                IF p \in on THEN t.genesis[p]
                ELSE IF p \in up THEN "Parachain"
                ELSE IF p \in down THEN "Parathread" ELSE @[p]]], off)

-----------------------------------------------------------------------------
(* Calls.                                                                  *)

Becomes(t) == s' = t /\ UNCHANGED <<now, session, pending>>

ForThisSession(t, id, life) == Queue([t EXCEPT !.life[id] = life], {id}, session)
Scheduled(t, id, life) ==
    Queue([t EXCEPT !.life[id] = life], {id}, session + SESSION_DELAY)

schedule_para_initialize(id, kind, code) ==
    /\ s.life[id] = None
    /\ Becomes(kick_off_pvf_check(
          [s EXCEPT !.life[id] = "Onboarding", !.genesis[id] = kind, !.current[id] = code],
          [kind |-> "Onboarding", id |-> id, relay_parent |-> 0], code))

schedule_para_cleanup(id) ==
    /\ s.future[id] = None
    /\ \/ s.life[id] = "Parathread" /\ Becomes(Scheduled(s, id, "OffboardingParathread"))
       \/ s.life[id] = "Parachain" /\ Becomes(Scheduled(s, id, "OffboardingParachain"))

schedule_parathread_upgrade(id) ==
    s.life[id] = "Parathread" /\ Becomes(Scheduled(s, id, "UpgradingParathread"))

schedule_parachain_downgrade(id) ==
    s.life[id] = "Parachain" /\ Becomes(Scheduled(s, id, "DowngradingParachain"))

\* supermajority_threshold
Threshold == LET n == Cardinality(Validators) IN n - ((n - 1) \div 3)

\* The vote of a validator; the one that makes a quorum also decides.
include_pvf_check_statement(v, code, accept) ==
    LET old == s.votes[code]
        vote == [old EXCEPT !.accept = IF accept THEN @ \cup {v} ELSE @,
                            !.reject = IF accept THEN @ ELSE @ \cup {v}]
        closed == [s EXCEPT !.votes[code] = NoVote]
    IN  /\ PvfCheckingEnabled /\ old # NoVote
        /\ v \notin old.accept \cup old.reject
        /\ Becomes(
              IF Cardinality(vote.reject) >= Threshold
              THEN enact_pvf_rejected(s, {code})
              ELSE IF Cardinality(vote.accept) >= Threshold
              THEN enact_pvf_accepted(closed, vote.causes, vote.age)
              ELSE [s EXCEPT !.votes[code] = vote])

add_trusted_validation_code(code) ==
    Becomes(IF s.votes[code] # NoVote
            THEN enact_pvf_accepted([s EXCEPT !.votes[code] = NoVote],
                                    s.votes[code].causes, s.votes[code].age)
            ELSE [s EXCEPT !.stored = @ \cup {code}])

poke_unused_validation_code(code) ==
    /\ s.refs[code] = 0
    /\ Becomes([s EXCEPT !.stored = @ \ {code}])

-----------------------------------------------------------------------------
(* Candidates, blocks and sessions.                                        *)

\* A candidate of a para with a core, on the parent of this block, is accepted;
\* code is the new code it announces, or None.
accept_candidate(id, code) ==
    /\ pending[id] = None /\ now > 1
    /\ is_parachain(s.life[id]) \/ is_parathread(s.life[id])
    /\ code # None => can_upgrade_validation_code(id)
    /\ pending' = [pending EXCEPT ![id] = [relay_parent |-> now - 1, code |-> code]]
    /\ UNCHANGED <<now, session, s>>

\* It is available, in a later block.
enact_candidate(id) ==
    /\ pending[id] # None /\ pending[id].relay_parent < now - 1
    /\ LET rp == pending[id].relay_parent
           code == pending[id].code
       IN  s' = note_new_head(
                    IF code = None THEN s ELSE schedule_code_upgrade(s, id, code, rp),
                    id, rp)
    /\ pending' = [pending EXCEPT ![id] = None]
    /\ UNCHANGED <<now, session>>

\* The end of a block, and the beginning of the next one.
Initialized(t) ==
    process_scheduled_upgrade_changes(prune_old_code(t, now + 1), now + 1)

new_block ==
    /\ now < MaxBlock /\ now' = now + 1
    /\ s' = Initialized(process_scheduled_upgrade_cooldowns(s))
    /\ UNCHANGED <<session, pending>>

initializer_on_new_session ==
    /\ now < MaxBlock /\ now' = now + 1
    /\ session < MaxSession /\ session' = session + 1
    /\ s' = Initialized(groom_ongoing_pvf_votes(apply_actions_queue(
                process_scheduled_upgrade_cooldowns(s), session + 1)))
    /\ pending' = [p \in ParaIds |-> None]

ParaCall(id) ==
    \/ \E kind \in {"Parachain", "Parathread"}, code \in Codes :
          schedule_para_initialize(id, kind, code)
    \/ schedule_para_cleanup(id)
    \/ schedule_parathread_upgrade(id)
    \/ schedule_parachain_downgrade(id)

RootCall(code) == add_trusted_validation_code(code) \/ poke_unused_validation_code(code)

ParasNext ==
    \/ \E id \in ParaIds : ParaCall(id)
    \/ \E code \in Codes : RootCall(code)
    \/ \E v \in Validators, code \in Codes, accept \in BOOLEAN :
          include_pvf_check_statement(v, code, accept)
    \/ \E id \in ParaIds, code \in Codes \cup {None} : accept_candidate(id, code)
    \/ \E id \in ParaIds : enact_candidate(id)
    \/ new_block
    \/ initializer_on_new_session

ParasSpec == ParasInit /\ [][ParasNext]_parasVars

-----------------------------------------------------------------------------
(* Properties.                                                             *)

\* How often a code is used: by current, announced and past code.
Users(c) ==
    Cardinality({p \in ParaIds : s.current[p] = c})
    + Cardinality({p \in ParaIds : s.future[p] = c})
    + Cardinality({x \in s.past : x.code = c})

\* paras/mod.rs on CodeByHash: "This storage is consistent with FutureCodeHash,
\* CurrentCodeHash and PastCodeHash": the reference counts are the number of
\* users, and code that is used is stored.
RefsMatchUsers ==
    \A c \in Codes : s.refs[c] = Users(c) /\ (s.refs[c] > 0 => c \in s.stored)

\* A live para changes its code only to the code it announced, after the vote
\* on it was accepted and no earlier than the block it was promised, seen from
\* the candidate that applies it (note_new_head).
UpgradeAsPromised ==
    \A p \in ParaIds :
        s.current[p] # None /\ s'.current[p] \notin {None, s.current[p]} =>
            /\ s'.current[p] = s.future[p]
            /\ s.future[p] \notin Voting(s)
            /\ s.futureAt[p] # 0 /\ s.futureAt[p] <= pending[p].relay_parent
            /\ s.goAhead[p] = "GoAhead"

\* A para in transition is queued for one of the next two sessions or waits for
\* a vote, and the list of parachains, which the scheduler gives cores to, holds
\* exactly the paras whose life cycle says parachain (apply_actions_queue).
TransitionsTakeEffect ==
    /\ s.parachains = {p \in ParaIds : is_parachain(s.life[p])}
    /\ \A p \in ParaIds : s.life[p] # None /\ ~is_stable(s.life[p]) =>
          \/ \E n \in session + 1 .. session + SESSION_DELAY : p \in s.actions[n]
          \/ \E c \in Codes : \E x \in s.votes[c].causes :
                x.kind = "Onboarding" /\ x.id = p

\* Replaced code goes once the retention period after the block that replaced
\* it is over: metadata, hashes and pruning tasks agree (prune_old_code).
PastCodePruned ==
    /\ \A x \in s.meta : x.activated_at + CodeRetention >= now
    /\ \A x \in s.meta : <<x.id, x.activated_at>> \in s.pruning
    /\ {<<x.id, x.at>> : x \in s.past} = {<<x.id, x.expected_at>> : x \in s.meta}

\* No replaced code goes earlier: approval and dispute checks may still ask for
\* it (note_past_code, prune_old_code).
PastCodeNotForgotten ==
    [][\A x \in s.past : x \notin s'.past =>
          \E y \in s.meta : /\ y.id = x.id /\ y.expected_at = x.at
                            /\ y.activated_at + CodeRetention < now']_parasVars

\* paras/mod.rs on schedule_para_cleanup: refusing paras with an upcoming
\* upgrade "allows us to get away without introducing additional logic for
\* pruning and, more importantly, enacting ongoing PVF pre-checking votes": the
\* paras that a vote is about are registered.
VotesAreAboutRegisteredParas ==
    \A c \in Codes : \A x \in s.votes[c].causes : s.life[x.id] # None

\* paras/mod.rs on UpgradeCooldowns: "The list of parachains that are awaiting
\* for their upgrade restriction to cooldown": while one waits, the restriction
\* is there.
CoolingDownIsRestricted ==
    \A x \in s.cooldowns : x[2] > now => x[1] \in s.restricted
=============================================================================

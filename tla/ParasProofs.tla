---------------------------- MODULE ParasProofs ----------------------------
(***************************************************************************)
(* The theorems of the paras pallet of the relay chain (Paras), for every  *)
(* set of paras, codes and validators and every configuration.             *)
(*                                                                         *)
(* Each routine of the pallet has a lemma on what it changes of the fields *)
(* that the invariant is about; calls, blocks and session changes compose  *)
(* them in the order of the code.                                          *)
(***************************************************************************)
EXTENDS Paras, TLAPS

-----------------------------------------------------------------------------
(* Fields and routines. *)

\* The fields of the storage, and the values of those that the theorems are about.
ParasFields == {"life", "parachains", "genesis", "actions", "current", "future",
    "futureAt", "goAhead", "restricted", "cooldowns", "upcoming", "past", "meta",
    "pruning", "refs", "stored", "votes"}

Kinds == {"Parachain", "Parathread"}
Lives == {"Onboarding", "Parathread", "Parachain", "UpgradingParathread",
          "DowngradingParachain", "OffboardingParathread", "OffboardingParachain"}
Metas == [id : ParaIds, expected_at : Nat, activated_at : Nat]
Causes == [kind : {"Onboarding", "Upgrade"}, id : ParaIds, relay_parent : 0 .. MaxBlock]
Votes == [accept : SUBSET Validators, reject : SUBSET Validators, age : Nat,
          causes : SUBSET Causes]
Sessions == 0 .. MaxSession + SESSION_DELAY

StorageOK(t) ==
    /\ t = [f \in ParasFields |-> t[f]]
    /\ t.life \in [ParaIds -> Lives \cup {None}]
    /\ t.parachains \in SUBSET ParaIds
    /\ t.genesis \in [ParaIds -> Kinds \cup {None}]
    /\ t.actions \in [Sessions -> SUBSET ParaIds]
    /\ t.futureAt \in [ParaIds -> Nat]
    /\ t.meta \in SUBSET Metas
    /\ t.votes \in [Codes -> Votes]

\* What a routine leaves alone.
SamePast(t, u) == u.past = t.past /\ u.meta = t.meta /\ u.pruning = t.pruning
SameLives(t, u) ==
    /\ u.life = t.life /\ u.parachains = t.parachains
    /\ u.genesis = t.genesis /\ u.actions = t.actions
Neutral(t, u) ==
    /\ StorageOK(u) /\ SamePast(t, u) /\ SameLives(t, u)
    /\ u.futureAt = t.futureAt /\ u.votes = t.votes

\* Neither the counts of CodeByHashRefs nor the lists of cooldowns and upcoming
\* upgrades are part of what the theorems are about.
LEMMA DecreaseNeutral ==
    ASSUME NEW t, StorageOK(t), NEW n
    PROVE  Neutral(t, decrease_code_ref(t, n))
  BY Zenon DEF StorageOK, Neutral, SamePast, SameLives, decrease_code_ref, ParasFields

\* So for increase_code_ref.
LEMMA IncreaseNeutral ==
    ASSUME NEW t, StorageOK(t), NEW code
    PROVE  Neutral(t, increase_code_ref(t, code))
  BY Zenon DEF StorageOK, Neutral, SamePast, SameLives, increase_code_ref, ParasFields

\* So for the signals and restrictions that the end and the beginning of a block set.
LEMMA TimersNeutral ==
    ASSUME NEW t, StorageOK(t), NEW height
    PROVE  /\ Neutral(t, process_scheduled_upgrade_changes(t, height))
           /\ Neutral(t, process_scheduled_upgrade_cooldowns(t))
<1>1. Neutral(t, process_scheduled_upgrade_changes(t, height))
  BY ZenonT(30) DEF StorageOK, Neutral, SamePast, SameLives, process_scheduled_upgrade_changes,
     ParasFields
<1>2. Neutral(t, process_scheduled_upgrade_cooldowns(t))
  BY ZenonT(30) DEF StorageOK, Neutral, SamePast, SameLives, process_scheduled_upgrade_cooldowns,
     ParasFields
<1>. QED  BY <1>1, <1>2, Zenon

\* The relay parents of the upgrades that wait for a vote are bounded, so that one of them
\* is the last; proved at the end, where the library of theorems comes in.
MaxFacts == \A S \in SUBSET (0 .. MaxBlock) : S # {} => Max(S) \in Nat

\* What the pallet knows of the time.
ClockOK ==
    /\ now \in Nat /\ now > 0 /\ now <= MaxBlock + 1
    /\ session \in 0 .. MaxSession

\* The block that an upgrade is expected at is never in the past (proceed_with_upgrade).
LEMMA ExpectedLater ==
    ASSUME ClockOK, NEW rp \in Nat
    PROVE  ExpectedAt(rp) \in Nat /\ ExpectedAt(rp) >= now
  BY ParasAssumption DEF ExpectedAt, ClockOK

\* Promises of upgrades change only to blocks that are not over.
Promised(t, u) ==
    \A p \in ParaIds : u.futureAt[p] = t.futureAt[p] \/ u.futureAt[p] >= now

\* Onboarding is one or two sessions ahead (proceed_with_onboarding).
LEMMA OnboardSession ==
    ASSUME ClockOK, NEW observed \in Nat
    PROVE  /\ OnboardAt(session, observed) \in Sessions
           /\ OnboardAt(session, observed) \in session + 1 .. session + SESSION_DELAY
  BY ParasAssumption DEF OnboardAt, ClockOK, Sessions, SESSION_DELAY

\* The actions queue with these paras queued for the session k.
Queued(t, k, ids) == [t.actions EXCEPT ![k] = @ \cup ids]

\* Accepted code (enact_pvf_accepted): the new paras are queued, the upgrades are
\* expected, nothing else that the theorems are about changes.
LEMMA AcceptedEffect ==
    ASSUME MaxFacts, ClockOK, NEW t, StorageOK(t), NEW causes \in SUBSET Causes, NEW observed \in Nat
    PROVE  LET u == enact_pvf_accepted(t, causes, observed)
               k == OnboardAt(session, observed)
           IN  /\ StorageOK(u) /\ SamePast(t, u) /\ Promised(t, u)
               /\ u.life = t.life /\ u.parachains = t.parachains
               /\ u.genesis = t.genesis /\ u.votes = t.votes
               /\ u.actions = Queued(t, k, IdsOf(Onboardings(causes)))
<1>. DEFINE k == OnboardAt(session, observed)
            ids == IdsOf(Onboardings(causes))
            v == proceed_with_onboarding(t, ids, observed)
            ups == Upgrades(causes)
            Parents(id) == {x.relay_parent : x \in {y \in ups : y.id = id}}
            at == [p \in ParaIds |-> IF Parents(p) = {} THEN v.futureAt[p]
                                     ELSE ExpectedAt(Max(Parents(p)))]
            u == proceed_with_upgrade(v, ups)
<1>0. u = enact_pvf_accepted(t, causes, observed)
  BY DEF enact_pvf_accepted
<1>1. k \in Sessions
  BY OnboardSession
<1>2. ids \subseteq ParaIds
  BY DEF IdsOf, Onboardings, Causes
<1>3. /\ v = [f \in ParasFields |-> v[f]]
      /\ v.actions = [t.actions EXCEPT ![k] = @ \cup ids]
      /\ v.futureAt = t.futureAt /\ v.votes = t.votes
      /\ v.life = t.life /\ v.parachains = t.parachains /\ v.genesis = t.genesis
      /\ v.past = t.past /\ v.meta = t.meta /\ v.pruning = t.pruning
  BY Zenon DEF StorageOK, proceed_with_onboarding, Queue, ParasFields
<1>4. v.actions \in [Sessions -> SUBSET ParaIds]
  <2>. HIDE DEF k, ids, v
  <2>. QED  BY ZenonT(30), <1>1, <1>2, <1>3 DEF StorageOK
<1>5. \A p \in ParaIds : Parents(p) # {} => Max(Parents(p)) \in Nat
  <2>. TAKE p \in ParaIds
  <2>1. Parents(p) \subseteq 0 .. MaxBlock
    BY DEF Upgrades, Causes
  <2>. HIDE DEF Parents
  <2>. QED  BY <2>1 DEF MaxFacts
<1>6. at \in [ParaIds -> Nat] /\ \A p \in ParaIds : at[p] = t.futureAt[p] \/ at[p] >= now
  <2>. HIDE DEF Parents, v
  <2>. QED  BY <1>3, <1>5, ExpectedLater DEF StorageOK
<1>. HIDE DEF v, k, ids
<1>7. /\ u = [f \in ParasFields |-> u[f]]
      /\ u.futureAt = at
      /\ u.actions = v.actions /\ u.votes = v.votes
      /\ u.life = v.life /\ u.parachains = v.parachains /\ u.genesis = v.genesis
      /\ u.past = v.past /\ u.meta = v.meta /\ u.pruning = v.pruning
  BY <1>3, Zenon DEF proceed_with_upgrade, ParasFields
<1>. HIDE DEF at, u
<1>8. StorageOK(u)
  BY <1>3, <1>4, <1>6, <1>7, Zenon DEF StorageOK
<1>9. SamePast(t, u) /\ Promised(t, u)
  BY <1>3, <1>6, <1>7 DEF SamePast, Promised
<1>. QED  BY <1>0, <1>3, <1>7, <1>8, <1>9, Zenon DEF k, ids, Queued

\* A vote is a record; the causes of none are empty.
LEMMA VoteFields ==
    /\ NoVote \in Votes /\ NoVote.causes = {}
    /\ \A v \in Votes :
          /\ v.causes \in SUBSET Causes /\ v.age \in Nat
          /\ v.accept \in SUBSET Validators /\ v.reject \in SUBSET Validators
          /\ \A S \in SUBSET Causes :
                /\ [v EXCEPT !.causes = S] \in Votes
                /\ [v EXCEPT !.causes = S].causes = S
<1>1. NoVote \in Votes /\ NoVote.causes = {}
  BY DEF NoVote, Votes
<1>2. \A v \in Votes :
          /\ v.causes \in SUBSET Causes /\ v.age \in Nat
          /\ v.accept \in SUBSET Validators /\ v.reject \in SUBSET Validators
          /\ \A S \in SUBSET Causes :
                /\ [v EXCEPT !.causes = S] \in Votes
                /\ [v EXCEPT !.causes = S].causes = S
  BY DEF Votes
<1>. QED  BY <1>1, <1>2, Zenon

\* A vote on the code is joined or started by the cause.
Joins(t, u, code, cause) ==
    /\ u.votes \in [Codes -> Votes]
    /\ u.votes[code].causes = t.votes[code].causes \cup {cause}
    /\ \A c \in Codes \ {code} : u.votes[c] = t.votes[c]
    /\ u.actions = t.actions

\* The cause needs no vote.
AtOnce(t, u, cause) ==
    /\ u.votes = t.votes
    /\ \E k \in Sessions :
          /\ k \in session + 1 .. session + SESSION_DELAY
          /\ u.actions = Queued(t, k, IdsOf(Onboardings({cause})))

\* kick_off_pvf_check: a vote is joined or started, or what it is for is done at once.
LEMMA KickOffEffect ==
    ASSUME MaxFacts, ClockOK, NEW t, StorageOK(t), NEW cause \in Causes, NEW code \in Codes
    PROVE  LET u == kick_off_pvf_check(t, cause, code)
           IN  /\ StorageOK(u) /\ SamePast(t, u) /\ Promised(t, u)
               /\ u.life = t.life /\ u.parachains = t.parachains /\ u.genesis = t.genesis
               /\ Joins(t, u, code, cause) \/ AtOnce(t, u, cause)
<1>. DEFINE one == [t EXCEPT !.votes[code].causes = @ \cup {cause}]
            two == enact_pvf_accepted(t, {cause}, 0)
            three == [t EXCEPT !.votes[code].causes = {cause}]
            v == IF t.votes[code] # NoVote THEN one
                 ELSE IF ~PvfCheckingEnabled \/ code \in t.stored THEN two ELSE three
            u == increase_code_ref(v, code)
            Good(w) == /\ StorageOK(w) /\ SamePast(t, w) /\ Promised(t, w)
                       /\ w.life = t.life /\ w.parachains = t.parachains
                       /\ w.genesis = t.genesis
                       /\ Joins(t, w, code, cause) \/ AtOnce(t, w, cause)
<1>0. t.votes \in [Codes -> Votes] /\ t.votes[code] \in Votes
      /\ t.votes[code].causes \in SUBSET Causes
  BY VoteFields DEF StorageOK
<1>1. \A S \in SUBSET Causes : \A w :
        (w = [t EXCEPT !.votes[code].causes = S] /\ S = t.votes[code].causes \cup {cause})
        => Good(w)
  <2>. TAKE S \in SUBSET Causes
  <2>. TAKE w
  <2>. HAVE w = [t EXCEPT !.votes[code].causes = S] /\ S = t.votes[code].causes \cup {cause}
  <2>. DEFINE nv == [t.votes EXCEPT ![code] = [t.votes[code] EXCEPT !.causes = S]]
  <2>1. nv \in [Codes -> Votes] /\ nv[code].causes = S /\ \A c \in Codes \ {code} : nv[c] = t.votes[c]
    BY ZenonT(30), <1>0, VoteFields
  <2>2. /\ w = [f \in ParasFields |-> w[f]] /\ w.votes = nv
        /\ w.actions = t.actions /\ w.futureAt = t.futureAt
        /\ w.life = t.life /\ w.parachains = t.parachains /\ w.genesis = t.genesis
        /\ w.past = t.past /\ w.meta = t.meta /\ w.pruning = t.pruning
    BY Zenon DEF StorageOK, ParasFields
  <2>. HIDE DEF nv
  <2>3. StorageOK(w) /\ SamePast(t, w) /\ Promised(t, w)
    BY <2>1, <2>2, Zenon DEF StorageOK, SamePast, Promised
  <2>4. Joins(t, w, code, cause)
    BY ZenonT(30), <2>1, <2>2 DEF Joins
  <2>. QED  BY <2>2, <2>3, <2>4, Zenon
<1>2. ASSUME t.votes[code] # NoVote  PROVE Good(one)
  <2>1. t.votes[code].causes \cup {cause} \in SUBSET Causes
    BY <1>0
  <2>2. one = [t EXCEPT !.votes[code].causes = t.votes[code].causes \cup {cause}]
    OBVIOUS
  <2>. HIDE DEF one, Good
  <2>. QED  BY ZenonT(30), <1>1, <2>1, <2>2
<1>3. ASSUME t.votes[code] = NoVote  PROVE Good(three)
  <2>1. {cause} \in SUBSET Causes /\ {cause} = t.votes[code].causes \cup {cause}
    BY <1>3, VoteFields
  <2>. HIDE DEF Good
  <2>. QED  BY ZenonT(30), <1>1, <2>1
<1>4. Good(two)
  <2>. DEFINE cs == {cause}
  <2>1. cs \in SUBSET Causes /\ 0 \in Nat /\ two = enact_pvf_accepted(t, cs, 0)
    OBVIOUS
  <2>. HIDE DEF two, cs
  <2>2. /\ StorageOK(two) /\ SamePast(t, two) /\ Promised(t, two)
        /\ two.life = t.life /\ two.parachains = t.parachains
        /\ two.genesis = t.genesis /\ two.votes = t.votes
        /\ two.actions = Queued(t, OnboardAt(session, 0), IdsOf(Onboardings(cs)))
    BY <2>1, AcceptedEffect, Zenon
  <2>3. AtOnce(t, two, cause)
    BY <2>1, <2>2, OnboardSession DEF AtOnce, cs
  <2>. QED  BY <2>2, <2>3, Zenon
<1>. HIDE DEF one, two, three
<1>5. Good(v)
  <2>. HIDE DEF Good
  <2>. QED  BY <1>2, <1>3, <1>4, Zenon
<1>6. u = kick_off_pvf_check(t, cause, code)
  BY DEF kick_off_pvf_check, one, two, three
<1>. HIDE DEF v
<1>7. Neutral(v, u)
  BY <1>5, IncreaseNeutral
<1>. HIDE DEF u
<1>8. Good(u)
  <2>1. StorageOK(u) /\ SamePast(t, u) /\ Promised(t, u)
        /\ u.life = t.life /\ u.parachains = t.parachains /\ u.genesis = t.genesis
    BY <1>5, <1>7, Zenon DEF Neutral, SamePast, SameLives, Promised
  <2>2. Joins(t, u, code, cause) \/ AtOnce(t, u, cause)
    BY <1>5, <1>7, Zenon DEF Neutral, SameLives, Joins, AtOnce
  <2>. QED  BY <2>1, <2>2, Zenon
<1>. QED  BY <1>6, <1>8, Zenon

\* The paras that wait for the vote on a code to be onboarded.
Joined(t, c) == IdsOf(Onboardings(t.votes[c].causes))

\* The votes on these codes are over and undone, the others have their causes.
Undone(t, u, codes) ==
    LET new == UNION {Joined(t, c) : c \in codes}
    IN  /\ u.life = Without(t.life, new, None) /\ u.genesis = Without(t.genesis, new, None)
        /\ u.parachains = t.parachains /\ u.actions = t.actions
        /\ u.futureAt = t.futureAt
        /\ \A c \in Codes : u.votes[c].causes =
                               IF c \in codes THEN {} ELSE t.votes[c].causes

\* Rejected code (enact_pvf_rejected).
LEMMA RejectedEffect ==
    ASSUME NEW t, StorageOK(t), NEW codes \in SUBSET Codes
    PROVE  LET u == enact_pvf_rejected(t, codes)
           IN  StorageOK(u) /\ SamePast(t, u) /\ Undone(t, u, codes)
<1>. DEFINE causes == UNION {t.votes[c].causes : c \in codes}
            new == IdsOf(Onboardings(causes))
            upgrading == IdsOf(Upgrades(causes))
            n == [c \in Codes |-> IF c \in codes THEN Cardinality(t.votes[c].causes) ELSE 0]
            v == decrease_code_ref(t, n)
            nv == [c \in Codes |-> IF c \in codes THEN NoVote ELSE v.votes[c]]
            u == [v EXCEPT !.votes = nv,
                    !.genesis = Without(@, new, None), !.current = Without(@, new, None),
                    !.life = Without(@, new, None), !.future = Without(@, upgrading, None),
                    !.goAhead = Without(@, upgrading, "Abort")]
<1>0. u = enact_pvf_rejected(t, codes)
  BY DEF enact_pvf_rejected
<1>1. Neutral(t, v)
  <2>. HIDE DEF n
  <2>. QED  BY DecreaseNeutral
<1>2. new = UNION {Joined(t, c) : c \in codes}
  BY DEF Joined, IdsOf, Onboardings
<1>. HIDE DEF v, new, upgrading
<1>3. nv \in [Codes -> Votes]
      /\ \A c \in Codes : nv[c].causes = IF c \in codes THEN {} ELSE t.votes[c].causes
  BY ZenonT(30), <1>1, VoteFields DEF Neutral, StorageOK
<1>4. /\ Without(v.life, new, None) \in [ParaIds -> Lives \cup {None}]
      /\ Without(v.genesis, new, None) \in [ParaIds -> Kinds \cup {None}]
  BY <1>1 DEF Neutral, StorageOK, Without
<1>. HIDE DEF nv
<1>5. /\ u = [f \in ParasFields |-> u[f]] /\ u.votes = nv
      /\ u.life = Without(v.life, new, None) /\ u.genesis = Without(v.genesis, new, None)
      /\ u.actions = v.actions /\ u.futureAt = v.futureAt /\ u.parachains = v.parachains
      /\ u.past = v.past /\ u.meta = v.meta /\ u.pruning = v.pruning
  BY <1>1, ZenonT(40) DEF Neutral, StorageOK, ParasFields
<1>. HIDE DEF u
<1>6. StorageOK(u)
  BY <1>1, <1>3, <1>4, <1>5, Zenon DEF StorageOK, Neutral
<1>7. SamePast(t, u) /\ Undone(t, u, codes)
  BY <1>1, <1>2, <1>3, <1>5, Zenon DEF SamePast, SameLives, Undone, Neutral
<1>. QED  BY <1>0, <1>6, <1>7, Zenon

\* A new session (groom_ongoing_pvf_votes): the votes that are too old are rejected.
LEMMA GroomEffect ==
    ASSUME NEW t, StorageOK(t)
    PROVE  LET u == groom_ongoing_pvf_votes(t)
           IN  /\ StorageOK(u) /\ SamePast(t, u)
               /\ \E codes \in SUBSET Codes : Undone(t, u, codes)
<1>. DEFINE expired == {c \in Voting(t) : t.votes[c].age + 1 >= VotingTtl}
            nv == [c \in Codes |-> IF c \in Voting(t) THEN Aged(t.votes[c]) ELSE t.votes[c]]
            v == [t EXCEPT !.votes = nv]
            u == enact_pvf_rejected(v, expired)
<1>a. u = groom_ongoing_pvf_votes(t)
  BY DEF groom_ongoing_pvf_votes
<1>b. expired \in SUBSET Codes
  BY DEF Voting
<1>0. u = groom_ongoing_pvf_votes(t) /\ expired \in SUBSET Codes
  BY <1>a, <1>b, Zenon
<1>1. ASSUME NEW w \in Votes
      PROVE  /\ Aged(w) \in Votes
             /\ Aged(w).causes = w.causes
  <2>1. w.age + 1 \in Nat
    BY VoteFields
  <2>. QED  BY ZenonT(30), <2>1 DEF Votes, Aged
<1>. HIDE DEF expired
<1>2. nv \in [Codes -> Votes] /\ \A c \in Codes : nv[c].causes = t.votes[c].causes
  BY <1>1 DEF StorageOK
<1>. HIDE DEF nv
<1>3. /\ v = [f \in ParasFields |-> v[f]] /\ v.votes = nv
      /\ v.life = t.life /\ v.genesis = t.genesis
      /\ v.actions = t.actions /\ v.futureAt = t.futureAt /\ v.parachains = t.parachains
      /\ v.past = t.past /\ v.meta = t.meta /\ v.pruning = t.pruning
  BY Zenon DEF StorageOK, ParasFields
<1>. HIDE DEF v
<1>4. StorageOK(v)
  BY <1>2, <1>3, Zenon DEF StorageOK
<1>5. StorageOK(u) /\ SamePast(v, u) /\ Undone(v, u, expired)
  BY <1>0, <1>4, RejectedEffect, Zenon
<1>. HIDE DEF u
<1>6. \A c \in Codes : Joined(v, c) = Joined(t, c)
  BY <1>2, <1>3, Zenon DEF Joined
<1>7. UNION {Joined(v, c) : c \in expired} = UNION {Joined(t, c) : c \in expired}
  BY <1>0, <1>6
<1>8. SamePast(t, u) /\ Undone(t, u, expired)
  BY <1>2, <1>3, <1>5, <1>7, Zenon DEF SamePast, Undone
<1>. QED  BY <1>0, <1>5, <1>8, Zenon

-----------------------------------------------------------------------------
(* Replaced code. *)

\* What is kept of replaced code: metadata that is told apart by para and block, expected
\* before block b, each with its task in the list of prunings and its hash; what is due
\* before c is gone.
PastOK(t, b, c) ==
    /\ \A x \in t.meta : x.expected_at < b /\ x.activated_at + CodeRetention >= c
    /\ \A x \in t.meta : <<x.id, x.activated_at>> \in t.pruning
    /\ \A x, y \in t.meta : x.id = y.id /\ x.expected_at = y.expected_at => x = y
    /\ \A x \in t.past : \E y \in t.meta : y.id = x.id /\ y.expected_at = x.at
    /\ \A y \in t.meta : \E x \in t.past : x.id = y.id /\ x.at = y.expected_at

\* An upgrade that is promised comes after those that were.
FutureOK(t) ==
    \A p \in ParaIds : t.futureAt[p] # 0 =>
        \A x \in t.meta : x.id = p => x.expected_at < t.futureAt[p]

\* Metadata of replaced code (ReplacementTimes) is of a para and two blocks.
LEMMA MetaFields ==
    /\ \A x \in Metas : x.id \in ParaIds /\ x.expected_at \in Nat /\ x.activated_at \in Nat
    /\ \A i \in ParaIds, a, b \in Nat : [id |-> i, expected_at |-> a, activated_at |-> b] \in Metas
  BY DEF Metas

\* note_past_code: one code for each of some paras, replaced at a block after those that
\* are known.
LEMMA NoteEffect ==
    ASSUME ClockOK, NEW t, StorageOK(t), NEW b \in Nat, NEW d \in Nat, b <= d,
           PastOK(t, b, now), NEW replaced,
           \A y \in replaced : y.id \in ParaIds /\ y.at \in Nat /\ y.at < d,
           \A y, z \in replaced : y.id = z.id => y = z,
           \A y \in replaced, x \in t.meta : x.id = y.id => x.expected_at < y.at
    PROVE  LET u == note_past_code(t, replaced)
           IN  /\ StorageOK(u) /\ SameLives(t, u) /\ PastOK(u, d, now)
               /\ u.futureAt = t.futureAt /\ u.votes = t.votes
               /\ t.past \subseteq u.past
               /\ \A x \in u.meta : x \in t.meta \/
                     \E y \in replaced : x.id = y.id /\ x.expected_at = y.at
<1>. DEFINE M(y) == [id |-> y.id, expected_at |-> y.at, activated_at |-> now]
            u == note_past_code(t, replaced)
<1>1. /\ u = [f \in ParasFields |-> u[f]]
      /\ u.meta = t.meta \cup {M(y) : y \in replaced}
      /\ u.past = {x \in t.past : \A y \in replaced : <<x.id, x.at>> # <<y.id, y.at>>}
                     \cup replaced
      /\ u.pruning = t.pruning \cup {<<y.id, now>> : y \in replaced}
      /\ u.life = t.life /\ u.genesis = t.genesis /\ u.votes = t.votes
      /\ u.actions = t.actions /\ u.futureAt = t.futureAt /\ u.parachains = t.parachains
  BY Zenon DEF StorageOK, ParasFields, note_past_code
<1>. HIDE DEF u
<1>2. now \in Nat /\ CodeRetention \in Nat
  BY ParasAssumption DEF ClockOK
<1>3. \A y \in replaced : /\ M(y) \in Metas /\ M(y).id = y.id /\ M(y).expected_at = y.at
                          /\ M(y).activated_at = now
  BY <1>2, MetaFields
<1>. HIDE DEF M
<1>4. t.meta \subseteq Metas
  BY DEF StorageOK
<1>5. u.meta \subseteq Metas
  BY <1>1, <1>3, <1>4
<1>6. StorageOK(u) /\ SameLives(t, u)
  BY <1>1, <1>5, Zenon DEF StorageOK, SameLives
<1>7. \A x \in u.meta : x.expected_at < d /\ x.activated_at + CodeRetention >= now
  BY <1>1, <1>2, <1>3, <1>4, MetaFields DEF PastOK
<1>8. ASSUME NEW x \in u.meta PROVE <<x.id, x.activated_at>> \in u.pruning
  <2>1. CASE x \in t.meta
    BY <1>1, <2>1 DEF PastOK
  <2>2. CASE x \notin t.meta
    <3>1. PICK y \in replaced : x = M(y)
      BY <1>1, <2>2
    <3>2. x.id = y.id /\ x.activated_at = now
      BY <1>3, <3>1
    <3>. QED  BY <1>1, <3>2
  <2>. QED  BY <2>1, <2>2
<1>9. ASSUME NEW x \in u.meta, NEW y \in u.meta, x.id = y.id, x.expected_at = y.expected_at
      PROVE  x = y
  <2>1. ASSUME NEW z \in t.meta, NEW r \in replaced, z.id = r.id
        PROVE  z.expected_at # r.at
    BY <1>4, <2>1, MetaFields
  <2>2. CASE x \in t.meta /\ y \in t.meta
    BY <1>9, <2>2 DEF PastOK
  <2>3. CASE x \in t.meta /\ \E r \in replaced : y = M(r)
    BY <1>3, <1>9, <2>1, <2>3
  <2>4. CASE y \in t.meta /\ \E r \in replaced : x = M(r)
    BY <1>3, <1>9, <2>1, <2>4
  <2>5. CASE (\E r \in replaced : x = M(r)) /\ \E r \in replaced : y = M(r)
    BY <1>3, <1>9, <2>5
  <2>. QED  BY <1>1, <2>2, <2>3, <2>4, <2>5
<1>10. t.past \subseteq u.past
  <2>. SUFFICES ASSUME NEW x \in t.past, NEW y \in replaced, x.id = y.id, x.at = y.at
       PROVE  FALSE
    BY <1>1
  <2>1. PICK z \in t.meta : z.id = x.id /\ z.expected_at = x.at
    BY Zenon DEF PastOK
  <2>2. z.expected_at < y.at /\ z.expected_at \in Nat
    BY <1>4, <2>1, MetaFields
  <2>. QED  BY <2>1, <2>2
<1>11. \A x \in u.past : \E y \in u.meta : y.id = x.id /\ y.expected_at = x.at
  BY SMTT(30), <1>1, <1>3 DEF PastOK
<1>12. \A y \in u.meta : \E x \in u.past : x.id = y.id /\ x.at = y.expected_at
  BY SMTT(30), <1>1, <1>3, <1>10 DEF PastOK
<1>13. PastOK(u, d, now)
  BY <1>7, <1>8, <1>9, <1>11, <1>12, Zenon DEF PastOK
<1>14. \A x \in u.meta : x \in t.meta \/
           \E y \in replaced : x.id = y.id /\ x.expected_at = y.at
  BY <1>1, <1>3
<1>. QED  BY <1>1, <1>6, <1>10, <1>13, <1>14, Zenon DEF u

\* Code that is due is forgotten with its metadata and its tasks, other code is kept
\* (prune_old_code).
LEMMA PruneEffect ==
    ASSUME ClockOK, NEW t, StorageOK(t), NEW b \in Nat, PastOK(t, b, now)
    PROVE  LET u == prune_old_code(t, now + 1)
           IN  /\ StorageOK(u) /\ SameLives(t, u) /\ PastOK(u, b, now + 1)
               /\ u.futureAt = t.futureAt /\ u.votes = t.votes
               /\ u.meta \subseteq t.meta
               /\ \A x \in t.past : x \notin u.past =>
                     \E y \in t.meta : /\ y.id = x.id /\ y.expected_at = x.at
                                       /\ y.activated_at + CodeRetention < now + 1
<1>1. now \in Nat /\ CodeRetention \in Nat
  BY ParasAssumption DEF ClockOK
<1>2. t.meta \subseteq Metas
  BY DEF StorageOK
<1>3. CASE now + 1 <= CodeRetention
  <2>1. prune_old_code(t, now + 1) = t
    BY <1>3, Zenon DEF prune_old_code
  <2>2. \A x \in t.meta : x.activated_at + CodeRetention >= now + 1
    BY <1>1, <1>2, <1>3, MetaFields
  <2>3. PastOK(t, b, now + 1)
    BY <2>2, Zenon DEF PastOK
  <2>. QED  BY <2>1, <2>3 DEF SameLives
<1>4. CASE ~(now + 1 <= CodeRetention)
  <2>. DEFINE height == PruningHeight(now + 1)
              due == {x \in t.pruning : x[2] <= height}
              ids == {x[1] : x \in due}
              old == {x \in t.meta : x.id \in ids /\ x.activated_at <= height}
              gone == {x \in t.past : \E y \in old : x.id = y.id /\ x.at = y.expected_at}
              n == [c \in Codes |-> Cardinality({x \in gone : x.code = c})]
              v == decrease_code_ref(t, n)
              u == [v EXCEPT !.pruning = @ \ due, !.meta = @ \ old, !.past = @ \ gone]
  <2>1. u = prune_old_code(t, now + 1)
    BY <1>4, Zenon DEF prune_old_code
  <2>2. Neutral(t, v)
    <3>. HIDE DEF n
    <3>. QED  BY DecreaseNeutral
  <2>3. height = now - CodeRetention
    BY <1>1 DEF PruningHeight
  <2>. HIDE DEF v, due, old, gone, height
  <2>4. /\ u = [f \in ParasFields |-> u[f]]
        /\ u.pruning = v.pruning \ due /\ u.meta = v.meta \ old /\ u.past = v.past \ gone
        /\ u.life = v.life /\ u.genesis = v.genesis /\ u.votes = v.votes
        /\ u.actions = v.actions /\ u.futureAt = v.futureAt /\ u.parachains = v.parachains
    BY <2>2, Zenon DEF Neutral, StorageOK, ParasFields
  <2>. HIDE DEF u
  <2>5. /\ u.pruning = t.pruning \ due /\ u.meta = t.meta \ old /\ u.past = t.past \ gone
    BY <2>2, <2>4 DEF Neutral, SamePast
  <2>6. StorageOK(u) /\ SameLives(t, u) /\ u.futureAt = t.futureAt /\ u.votes = t.votes
    <3>1. u.meta \in SUBSET Metas
      BY <1>2, <2>5
    <3>. QED  BY <2>2, <2>4, <3>1, Zenon DEF StorageOK, SameLives, Neutral
  <2>7. ASSUME NEW x \in t.meta
        PROVE  x \in old <=> x.activated_at <= height
    <3>1. <<x.id, x.activated_at>> \in t.pruning
      BY Zenon DEF PastOK
    <3>2. x.activated_at <= height => <<x.id, x.activated_at>> \in due
      BY <3>1 DEF due
    <3>3. x.activated_at <= height => x.id \in ids
      BY <3>2
    <3>. HIDE DEF ids
    <3>. QED  BY <3>3 DEF old
  <2>. HIDE DEF ids
  <2>8. \A x \in u.meta : /\ x \in t.meta /\ x.activated_at \in Nat
                          /\ x.activated_at + CodeRetention >= now + 1 /\ x.expected_at < b
                          /\ <<x.id, x.activated_at>> \in u.pruning
    <3>. TAKE x \in u.meta
    <3>1. x \in t.meta /\ x \notin old
      BY <2>5
    <3>2. x.activated_at \in Nat /\ x.expected_at < b /\ <<x.id, x.activated_at>> \in t.pruning
      BY <1>2, <3>1, MetaFields DEF PastOK
    <3>3. ~(x.activated_at <= height)
      BY <2>7, <3>1
    <3>4. <<x.id, x.activated_at>> \notin due
      BY <3>3 DEF due
    <3>. QED  BY <1>1, <2>3, <2>5, <3>1, <3>2, <3>3, <3>4
  <2>9. \A x \in u.past : \E y \in u.meta : y.id = x.id /\ y.expected_at = x.at
    <3>. TAKE x \in u.past
    <3>1. x \in t.past /\ x \notin gone
      BY <2>5
    <3>2. PICK y \in t.meta : y.id = x.id /\ y.expected_at = x.at
      BY <3>1, Zenon DEF PastOK
    <3>3. y \notin old
      BY <3>1, <3>2 DEF gone
    <3>. QED  BY <2>5, <3>2, <3>3
  <2>10. \A y \in u.meta : \E x \in u.past : x.id = y.id /\ x.at = y.expected_at
    <3>. TAKE y \in u.meta
    <3>1. y \in t.meta /\ y \notin old
      BY <2>5
    <3>2. PICK x \in t.past : x.id = y.id /\ x.at = y.expected_at
      BY <3>1, Zenon DEF PastOK
    <3>3. ASSUME NEW z \in old, x.id = z.id, x.at = z.expected_at PROVE FALSE
      <4>1. z \in t.meta
        BY DEF old
      <4>2. z = y
        BY ZenonT(30), <3>1, <3>2, <3>3, <4>1 DEF PastOK
      <4>. QED  BY <3>1, <4>2
    <3>4. x \notin gone
      BY <3>3 DEF gone
    <3>. QED  BY <2>5, <3>2, <3>4
  <2>11. PastOK(u, b, now + 1)
    <3>1. \A x, y \in u.meta : x.id = y.id /\ x.expected_at = y.expected_at => x = y
      BY <2>8, Zenon DEF PastOK
    <3>. QED  BY <2>8, <2>9, <2>10, <3>1, Zenon DEF PastOK
  <2>12. ASSUME NEW x \in t.past, x \notin u.past
         PROVE  \E y \in t.meta : /\ y.id = x.id /\ y.expected_at = x.at
                                  /\ y.activated_at + CodeRetention < now + 1
    <3>1. x \in gone
      BY <2>5, <2>12
    <3>2. PICK y \in old : x.id = y.id /\ x.at = y.expected_at
      BY <3>1 DEF gone
    <3>3. y \in t.meta
      BY DEF old
    <3>4. y.activated_at <= height /\ y.activated_at \in Nat
      BY <1>2, <2>7, <3>3, MetaFields
    <3>. QED  BY <1>1, <2>3, <3>2, <3>3, <3>4
  <2>13. u.meta \subseteq t.meta
    BY ZenonT(30), <2>8
  <2>. QED  BY <2>1, <2>6, <2>11, <2>12, <2>13, Zenon
<1>. QED  BY <1>3, <1>4, Zenon

-----------------------------------------------------------------------------
(* The actions queue. *)

\* The paras that the queue of a session brings in, moves and lets go.
On(t, n) == {p \in t.actions[n] : t.life[p] = "Onboarding" /\ t.genesis[p] # None}
Up(t, n) == {p \in t.actions[n] : t.life[p] = "UpgradingParathread"}
Down(t, n) == {p \in t.actions[n] : t.life[p] = "DowngradingParachain"}
Off(t, n) == {p \in t.actions[n] : is_offboarding(t.life[p])}

\* What the queue of session n makes of the lives of the paras.
Moved(t, u, n) ==
    /\ u.actions = [t.actions EXCEPT ![n] = {}]
    /\ u.votes = t.votes
    /\ u.genesis = Without(t.genesis, On(t, n), None)
    /\ u.parachains = ((t.parachains \cup Up(t, n)
                           \cup {p \in On(t, n) : t.genesis[p] = "Parachain"})
                       \ Down(t, n)) \ Off(t, n)
    /\ \A p \in ParaIds : u.life[p] =
          IF p \in Off(t, n) THEN None
          ELSE IF p \in On(t, n) THEN t.genesis[p]
          ELSE IF p \in Up(t, n) THEN "Parachain"
          ELSE IF p \in Down(t, n) THEN "Parathread" ELSE t.life[p]

\* The code of the paras that leave is noted as replaced in this block; what is kept of
\* other code stays (apply_actions_queue).
LEMMA ApplyEffect ==
    ASSUME ClockOK, NEW t, StorageOK(t), PastOK(t, now, now), FutureOK(t), NEW n \in Sessions
    PROVE  LET u == apply_actions_queue(t, n)
           IN  /\ StorageOK(u) /\ PastOK(u, now + 1, now) /\ FutureOK(u)
               /\ Moved(t, u, n)
               /\ t.past \subseteq u.past
               /\ \A x \in u.meta : x \in t.meta \/ x.expected_at = now
<1>. DEFINE on == On(t, n)
            up == Up(t, n)
            down == Down(t, n)
            off == Off(t, n)
            lives == [p \in ParaIds |-> IF p \in on THEN t.genesis[p]
                         ELSE IF p \in up THEN "Parachain"
                         ELSE IF p \in down THEN "Parathread" ELSE t.life[p]]
            chains == (t.parachains \cup up \cup {p \in on : t.genesis[p] = "Parachain"}) \ down
            v == [t EXCEPT !.actions[n] = {}, !.parachains = chains,
                    !.genesis = Without(@, on, None), !.life = lives]
            k == [c \in Codes |-> Cardinality({p \in off : v.future[p] = c})]
            replaced == {[id |-> p, at |-> now, code |-> v.current[p]] :
                         p \in {q \in off : v.current[q] # None}}
            w == note_past_code(v, replaced)
            d == decrease_code_ref(w, k)
            u == [d EXCEPT
                    !.parachains = @ \ off, !.life = Without(@, off, None),
                    !.futureAt = Without(@, off, 0), !.goAhead = Without(@, off, None),
                    !.restricted = @ \ off, !.future = Without(@, off, None),
                    !.current = Without(@, off, None),
                    !.upcoming = {x \in @ : x[1] \notin off},
                    !.cooldowns = {x \in @ : x[1] \notin off}]
<1>1. u = Offboard(v, off)
  BY Zenon DEF Offboard
<1>2. Offboard(v, off) = apply_actions_queue(t, n)
  <2>1. /\ on = {p \in {q \in t.actions[n] : t.life[q] = "Onboarding"} : t.genesis[p] # None}
    BY DEF On
  <2>. HIDE DEF on
  <2>. QED  BY <2>1, Zenon DEF apply_actions_queue, Up, Down, Off
<1>3. /\ on \subseteq ParaIds /\ up \subseteq ParaIds /\ down \subseteq ParaIds
      /\ off \subseteq ParaIds
  BY DEF StorageOK, On, Up, Down, Off
<1>4. /\ lives \in [ParaIds -> Lives \cup {None}]
      /\ chains \in SUBSET ParaIds
      /\ Without(t.genesis, on, None) \in [ParaIds -> Kinds \cup {None}]
      /\ [t.actions EXCEPT ![n] = {}] \in [Sessions -> SUBSET ParaIds]
  <2>1. \A p \in ParaIds : t.genesis[p] \in Lives \cup {None} /\ t.life[p] \in Lives \cup {None}
    BY DEF StorageOK, Kinds, Lives
  <2>2. "Parachain" \in Lives /\ "Parathread" \in Lives
    BY DEF Lives
  <2>. HIDE DEF on, up, down
  <2>3. lives \in [ParaIds -> Lives \cup {None}]
    BY <2>1, <2>2
  <2>4. chains \in SUBSET ParaIds
    BY <1>3 DEF StorageOK
  <2>5. /\ Without(t.genesis, on, None) \in [ParaIds -> Kinds \cup {None}]
        /\ [t.actions EXCEPT ![n] = {}] \in [Sessions -> SUBSET ParaIds]
    BY DEF StorageOK, Without
  <2>. QED  BY <2>3, <2>4, <2>5, Zenon
<1>. HIDE DEF on, up, down, off, lives, chains
<1>5. /\ v = [f \in ParasFields |-> v[f]]
      /\ v.actions = [t.actions EXCEPT ![n] = {}] /\ v.parachains = chains
      /\ v.genesis = Without(t.genesis, on, None) /\ v.life = lives
      /\ v.votes = t.votes /\ v.futureAt = t.futureAt
      /\ v.past = t.past /\ v.meta = t.meta /\ v.pruning = t.pruning
  BY Zenon DEF StorageOK, ParasFields
<1>. HIDE DEF v
<1>6. StorageOK(v) /\ PastOK(v, now, now)
  <2>1. StorageOK(v)
    BY <1>4, <1>5, Zenon DEF StorageOK
  <2>2. PastOK(v, now, now)
    BY <1>5, Zenon DEF PastOK
  <2>. QED  BY <2>1, <2>2
<1>7. /\ \A y \in replaced : y.id \in ParaIds /\ y.id \in off /\ y.at = now
      /\ \A y, z \in replaced : y.id = z.id => y = z
  BY <1>3
<1>. HIDE DEF replaced
<1>8. now \in Nat /\ now + 1 \in Nat /\ now <= now + 1 /\ now < now + 1
  BY DEF ClockOK
<1>9. \A y \in replaced : y.id \in ParaIds /\ y.at \in Nat /\ y.at < now + 1
  BY <1>7, <1>8
<1>10. \A y \in replaced, x \in v.meta : x.id = y.id => x.expected_at < y.at
  BY <1>6, <1>7, ZenonT(40) DEF PastOK
<1>11. /\ StorageOK(w) /\ SameLives(v, w) /\ PastOK(w, now + 1, now)
       /\ w.futureAt = v.futureAt /\ w.votes = v.votes
       /\ v.past \subseteq w.past
       /\ \A x \in w.meta : x \in v.meta \/
             \E y \in replaced : x.id = y.id /\ x.expected_at = y.at
  BY <1>6, <1>7, <1>8, <1>9, <1>10, NoteEffect, ZenonT(40)
<1>. HIDE DEF w, k
<1>12. Neutral(w, d)
  BY <1>11, DecreaseNeutral
<1>. HIDE DEF d
<1>13. /\ u = [f \in ParasFields |-> u[f]]
       /\ u.parachains = d.parachains \ off /\ u.life = Without(d.life, off, None)
       /\ u.futureAt = Without(d.futureAt, off, 0)
       /\ u.actions = d.actions /\ u.genesis = d.genesis /\ u.votes = d.votes
       /\ u.past = d.past /\ u.meta = d.meta /\ u.pruning = d.pruning
  BY <1>12, ZenonT(40) DEF Neutral, StorageOK, ParasFields
<1>. HIDE DEF u
<1>14. /\ u.parachains = chains \ off /\ u.life = Without(lives, off, None)
       /\ u.futureAt = Without(t.futureAt, off, 0)
       /\ u.actions = [t.actions EXCEPT ![n] = {}]
       /\ u.genesis = Without(t.genesis, on, None) /\ u.votes = t.votes
       /\ u.past = w.past /\ u.meta = w.meta /\ u.pruning = w.pruning
  BY <1>5, <1>11, <1>12, <1>13, ZenonT(40) DEF Neutral, SamePast, SameLives
<1>15. StorageOK(u)
  <2>1. /\ u.parachains \in SUBSET ParaIds /\ u.life \in [ParaIds -> Lives \cup {None}]
        /\ u.futureAt \in [ParaIds -> Nat]
    BY <1>4, <1>14 DEF StorageOK, Without
  <2>2. u.meta \in SUBSET Metas /\ u.votes \in [Codes -> Votes]
    BY <1>11, <1>14 DEF StorageOK
  <2>. QED  BY <1>4, <1>13, <1>14, <2>1, <2>2, Zenon DEF StorageOK
<1>16. PastOK(u, now + 1, now)
  BY <1>11, <1>14, ZenonT(40) DEF PastOK
<1>17. FutureOK(u)
  <2>. SUFFICES ASSUME NEW p \in ParaIds, u.futureAt[p] # 0, NEW x \in u.meta, x.id = p
       PROVE  x.expected_at < u.futureAt[p]
    BY Zenon DEF FutureOK
  <2>1. p \notin off /\ u.futureAt[p] = t.futureAt[p]
    BY <1>14 DEF Without
  <2>2. x \in t.meta
    BY <1>5, <1>7, <1>11, <1>14, <2>1
  <2>. QED  BY <2>1, <2>2, Zenon DEF FutureOK
<1>18. t.past \subseteq u.past /\ \A x \in u.meta : x \in t.meta \/ x.expected_at = now
  BY <1>5, <1>7, <1>11, <1>14, ZenonT(40)
<1>19. Moved(t, u, n)
  <2>1. \A p \in ParaIds : u.life[p] = IF p \in off THEN None ELSE lives[p]
    BY <1>14 DEF Without
  <2>2. \A p \in ParaIds : u.life[p] =
          IF p \in off THEN None
          ELSE IF p \in on THEN t.genesis[p]
          ELSE IF p \in up THEN "Parachain"
          ELSE IF p \in down THEN "Parathread" ELSE t.life[p]
    BY <2>1 DEF lives
  <2>. QED  BY <1>14, <2>2, Zenon DEF Moved, chains, on, up, down, off
<1>. QED  BY <1>1, <1>2, <1>15, <1>16, <1>17, <1>18, <1>19, Zenon

-----------------------------------------------------------------------------
(* Life cycles. *)

InTransition(life) == life # None /\ ~is_stable(life)

\* What the list of parachains, the queue of actions from session m on and the votes say
\* about the lives of the paras.  A para in transition is queued once or waits for the
\* vote on its first code, never both: neither the queue nor a vote finds it changed.
LifeInv(t, m) ==
    /\ t.parachains = {p \in ParaIds : is_parachain(t.life[p])}
    /\ \A p \in ParaIds : t.life[p] = "Onboarding" => t.genesis[p] # None
    /\ \A c \in Codes : \A p \in Joined(t, c) :
          /\ t.life[p] = "Onboarding"
          /\ \A d \in Codes : p \in Joined(t, d) => d = c
          /\ \A n \in Sessions : n > m => p \notin t.actions[n]
    /\ \A n \in Sessions : \A p \in t.actions[n] : n > m =>
          /\ InTransition(t.life[p])
          /\ \A k \in Sessions : k > m /\ p \in t.actions[k] => k = n
    /\ \A p \in ParaIds : InTransition(t.life[p]) =>
          \/ \E n \in m + 1 .. m + SESSION_DELAY : p \in t.actions[n]
          \/ \E c \in Codes : p \in Joined(t, c)

\* The causes of a vote are about paras.
LEMMA JoinedParas ==
    ASSUME NEW t, StorageOK(t), NEW c \in Codes
    PROVE  Joined(t, c) \subseteq ParaIds
<1>1. t.votes[c].causes \in SUBSET Causes
  BY VoteFields DEF StorageOK
<1>. QED  BY <1>1 DEF Joined, IdsOf, Onboardings, Causes

\* A routine that leaves lives, queues and the onboardings in votes alone.
LEMMA LivesKept ==
    ASSUME NEW t, NEW u, NEW m, LifeInv(t, m), SameLives(t, u),
           \A c \in Codes : Joined(u, c) = Joined(t, c)
    PROVE  LifeInv(u, m)
  BY Zenon DEF LifeInv, SameLives

\* The paras ids, and no others, are queued for the session k.
QueuedOnly(t, u, m, k, ids) ==
    /\ u.actions = Queued(t, k, ids) /\ u.parachains = t.parachains
    /\ \A p \in ids :
          /\ \A n \in Sessions : n > m => p \notin t.actions[n]
          /\ InTransition(u.life[p])
          /\ u.life[p] = "Onboarding" => u.genesis[p] # None
          /\ is_parachain(u.life[p]) <=> is_parachain(t.life[p])
    /\ \A p \in ParaIds \ ids : u.life[p] = t.life[p] /\ u.genesis[p] = t.genesis[p]
    /\ \A c \in Codes : Joined(u, c) = Joined(t, c) \ ids

\* The para id, and no other, waits for the vote on code.
JoinedOnly(t, u, id, code) ==
    /\ t.life[id] = None /\ u.life[id] = "Onboarding" /\ u.genesis[id] # None
    /\ \A p \in ParaIds \ {id} : u.life[p] = t.life[p] /\ u.genesis[p] = t.genesis[p]
    /\ u.parachains = t.parachains /\ u.actions = t.actions
    /\ Joined(u, code) = Joined(t, code) \cup {id}
    /\ \A c \in Codes \ {code} : Joined(u, c) = Joined(t, c)

\* Paras that are queued for one of the next two sessions, and wait for no vote from now
\* on (proceed_with_onboarding, the schedule_ calls).
LEMMA QueuedLives ==
    ASSUME NEW t, StorageOK(t), NEW u, StorageOK(u), NEW m \in 0 .. MaxSession,
           LifeInv(t, m),
           NEW ids \in SUBSET ParaIds, NEW k \in Sessions, k \in m + 1 .. m + SESSION_DELAY,
           QueuedOnly(t, u, m, k, ids)
    PROVE  LifeInv(u, m)
<1>. USE DEF QueuedOnly
<1>0. m + 1 .. m + SESSION_DELAY \subseteq Sessions /\ k > m /\ DOMAIN t.actions = Sessions
      /\ Sessions \subseteq Nat
  BY SMTT(30), ParasAssumption DEF StorageOK, SESSION_DELAY, Sessions
<1>1. \A n \in Sessions : u.actions[n] = IF n = k THEN t.actions[n] \cup ids ELSE t.actions[n]
  BY ZenonT(30), <1>0 DEF Queued
<1>2. \A n \in Sessions : t.actions[n] \in SUBSET ParaIds
  BY DEF StorageOK
<1>3. u.parachains = {p \in ParaIds : is_parachain(u.life[p])}
  BY DEF LifeInv
<1>4. \A p \in ParaIds : u.life[p] = "Onboarding" => u.genesis[p] # None
  BY Zenon DEF LifeInv
<1>5. ASSUME NEW c \in Codes, NEW p \in Joined(u, c)
      PROVE  /\ u.life[p] = "Onboarding"
             /\ \A d \in Codes : p \in Joined(u, d) => d = c
             /\ \A n \in Sessions : n > m => p \notin u.actions[n]
  <2>1. p \in Joined(t, c) /\ p \notin ids /\ p \in ParaIds
    BY JoinedParas
  <2>2. /\ t.life[p] = "Onboarding"
        /\ \A d \in Codes : p \in Joined(t, d) => d = c
        /\ \A n \in Sessions : n > m => p \notin t.actions[n]
    BY <2>1, Zenon DEF LifeInv
  <2>3. u.life[p] = "Onboarding"
    BY <2>1, <2>2
  <2>4. \A d \in Codes : p \in Joined(u, d) => d = c
    BY <2>2
  <2>5. \A n \in Sessions : n > m => p \notin u.actions[n]
    BY ZenonT(30), <1>1, <2>1, <2>2
  <2>. QED  BY <2>3, <2>4, <2>5, Zenon
<1>6. ASSUME NEW n \in Sessions, NEW p \in u.actions[n], n > m
      PROVE  /\ InTransition(u.life[p])
             /\ \A j \in Sessions : j > m /\ p \in u.actions[j] => j = n
  <2>1. CASE p \in ids
    BY ZenonT(30), <1>1, <1>6, <2>1
  <2>2. CASE p \notin ids
    <3>1. p \in t.actions[n] /\ p \in ParaIds /\ u.life[p] = t.life[p]
      BY ZenonT(30), <1>1, <1>2, <2>2
    <3>2. \A j \in Sessions : p \in u.actions[j] => p \in t.actions[j]
      BY ZenonT(30), <1>1, <2>2
    <3>. QED  BY <1>6, <3>1, <3>2, Zenon DEF LifeInv
  <2>. QED  BY <2>1, <2>2
<1>7. ASSUME NEW p \in ParaIds, InTransition(u.life[p])
      PROVE  \/ \E n \in m + 1 .. m + SESSION_DELAY : p \in u.actions[n]
             \/ \E c \in Codes : p \in Joined(u, c)
  <2>1. CASE p \in ids
    BY ZenonT(30), <1>1, <2>1
  <2>2. CASE p \notin ids
    <3>1. InTransition(t.life[p])
      BY <1>7, <2>2
    <3>2. CASE \E n \in m + 1 .. m + SESSION_DELAY : p \in t.actions[n]
      <4>1. PICK n \in m + 1 .. m + SESSION_DELAY : p \in t.actions[n]
        BY <3>2
      <4>2. p \in u.actions[n]
        BY ZenonT(30), <1>0, <1>1, <4>1
      <4>. QED  BY <4>2
    <3>3. CASE \E c \in Codes : p \in Joined(t, c)
      BY <2>2, <3>3
    <3>. QED  BY <3>1, <3>2, <3>3, Zenon DEF LifeInv
  <2>. QED  BY <2>1, <2>2
<1>. QED  BY <1>3, <1>4, <1>5, <1>6, <1>7, Zenon DEF LifeInv

\* A new para waits for the vote on its first code (schedule_para_initialize).
LEMMA JoinedLives ==
    ASSUME NEW t, StorageOK(t), NEW u, StorageOK(u), NEW m \in 0 .. MaxSession,
           LifeInv(t, m), NEW id \in ParaIds, NEW code \in Codes, JoinedOnly(t, u, id, code)
    PROVE  LifeInv(u, m)
<1>. USE DEF JoinedOnly
<1>0. ~is_parachain(None) /\ ~is_parachain("Onboarding") /\ InTransition("Onboarding")
      /\ ~InTransition(None) /\ None # "Onboarding"
  BY ParasAssumption DEF is_parachain, InTransition, is_stable
<1>1. /\ \A c \in Codes : id \notin Joined(t, c)
      /\ \A n \in Sessions : n > m => id \notin t.actions[n]
      /\ t.parachains = {p \in ParaIds : is_parachain(t.life[p])}
  BY <1>0, Zenon DEF LifeInv
<1>2. \A n \in Sessions : t.actions[n] \in SUBSET ParaIds
  BY DEF StorageOK
<1>3. u.parachains = {p \in ParaIds : is_parachain(u.life[p])}
  BY <1>0, <1>1
<1>4. \A p \in ParaIds : u.life[p] = "Onboarding" => u.genesis[p] # None
  BY Zenon DEF LifeInv
<1>5. ASSUME NEW c \in Codes, NEW p \in Joined(u, c)
      PROVE  /\ u.life[p] = "Onboarding"
             /\ \A d \in Codes : p \in Joined(u, d) => d = c
             /\ \A n \in Sessions : n > m => p \notin u.actions[n]
  <2>1. CASE p = id
    <3>1. \A d \in Codes : id \in Joined(u, d) => d = code
      BY <1>1
    <3>. QED  BY <1>1, <2>1, <3>1, Zenon
  <2>2. CASE p # id
    <3>1. \A d \in Codes : p \in Joined(u, d) => p \in Joined(t, d)
      BY <2>2
    <3>2. p \in Joined(t, c)
      BY <3>1
    <3>3. p \in ParaIds
      BY <3>2, JoinedParas
    <3>4. /\ t.life[p] = "Onboarding"
          /\ \A d \in Codes : p \in Joined(t, d) => d = c
          /\ \A n \in Sessions : n > m => p \notin t.actions[n]
      BY <3>2, Zenon DEF LifeInv
    <3>5. u.life[p] = t.life[p]
      BY <2>2, <3>3
    <3>. QED  BY <3>1, <3>4, <3>5, Zenon
  <2>. QED  BY <2>1, <2>2
<1>6. ASSUME NEW n \in Sessions, NEW p \in u.actions[n], n > m
      PROVE  /\ InTransition(u.life[p])
             /\ \A j \in Sessions : j > m /\ p \in u.actions[j] => j = n
  <2>1. p \in ParaIds /\ p # id
    BY <1>1, <1>2, <1>6
  <2>2. u.life[p] = t.life[p]
    BY <2>1
  <2>. QED  BY <1>6, <2>2, Zenon DEF LifeInv
<1>7. ASSUME NEW p \in ParaIds, InTransition(u.life[p])
      PROVE  \/ \E n \in m + 1 .. m + SESSION_DELAY : p \in u.actions[n]
             \/ \E c \in Codes : p \in Joined(u, c)
  <2>1. CASE p = id
    BY <2>1
  <2>2. CASE p # id
    <3>1. InTransition(t.life[p])
      BY <1>7, <2>2
    <3>2. \/ \E n \in m + 1 .. m + SESSION_DELAY : p \in t.actions[n]
          \/ \E c \in Codes : p \in Joined(t, c)
      BY <3>1, Zenon DEF LifeInv
    <3>3. \A c \in Codes : p \in Joined(t, c) => p \in Joined(u, c)
      OBVIOUS
    <3>. QED  BY <3>2, <3>3, Zenon
  <2>. QED  BY <2>1, <2>2
<1>. QED  BY <1>3, <1>4, <1>5, <1>6, <1>7, Zenon DEF LifeInv

\* Rejected votes undo the onboarding of paras that are in no queue (enact_pvf_rejected).
LEMMA UndoneLives ==
    ASSUME NEW t, StorageOK(t), NEW u, StorageOK(u), NEW m \in 0 .. MaxSession,
           LifeInv(t, m), NEW codes \in SUBSET Codes, Undone(t, u, codes)
    PROVE  LifeInv(u, m)
<1>. DEFINE new == UNION {Joined(t, c) : c \in codes}
<1>0. ~is_parachain(None) /\ ~is_parachain("Onboarding") /\ ~InTransition(None)
      /\ None # "Onboarding"
  BY ParasAssumption DEF is_parachain, InTransition
<1>1. /\ u.life = Without(t.life, new, None) /\ u.genesis = Without(t.genesis, new, None)
      /\ u.parachains = t.parachains /\ u.actions = t.actions
      /\ \A c \in Codes : u.votes[c].causes = IF c \in codes THEN {} ELSE t.votes[c].causes
  BY Zenon DEF Undone
<1>2. \A c \in Codes : Joined(u, c) = IF c \in codes THEN {} ELSE Joined(t, c)
  BY <1>1 DEF Joined, IdsOf, Onboardings
<1>3. \A p \in new : \E c \in codes : p \in Joined(t, c)
  OBVIOUS
<1>4. \A p \in new : t.life[p] = "Onboarding" /\ p \in ParaIds
         /\ \A n \in Sessions : n > m => p \notin t.actions[n]
  <2>. TAKE p \in new
  <2>1. PICK c \in codes : p \in Joined(t, c)
    BY <1>3
  <2>2. c \in Codes
    OBVIOUS
  <2>3. p \in ParaIds
    BY <2>1, <2>2, JoinedParas
  <2>. QED  BY <2>1, <2>2, <2>3, Zenon DEF LifeInv
<1>5. \A c \in Codes : \A p \in Joined(u, c) : p \in Joined(t, c) /\ p \notin new
  <2>. TAKE c \in Codes
  <2>. TAKE p \in Joined(u, c)
  <2>1. c \notin codes /\ p \in Joined(t, c)
    BY <1>2
  <2>2. \A d \in Codes : p \in Joined(t, d) => d = c
    BY <2>1, Zenon DEF LifeInv
  <2>. QED  BY <2>1, <2>2
<1>6. \A c \in Codes : \A p \in Joined(t, c) : p \in new \/ p \in Joined(u, c)
  BY <1>2
<1>. HIDE DEF new
<1>7. \A p \in ParaIds : /\ p \in new => u.life[p] = None
                         /\ p \notin new => u.life[p] = t.life[p] /\ u.genesis[p] = t.genesis[p]
  BY <1>1 DEF Without
<1>8. \A n \in Sessions : t.actions[n] \in SUBSET ParaIds
  BY DEF StorageOK
<1>9. u.parachains = {p \in ParaIds : is_parachain(u.life[p])}
  <2>1. t.parachains = {p \in ParaIds : is_parachain(t.life[p])}
    BY Zenon DEF LifeInv
  <2>2. \A p \in ParaIds : is_parachain(u.life[p]) <=> is_parachain(t.life[p])
    BY <1>0, <1>4, <1>7
  <2>. QED  BY <1>1, <2>1, <2>2
<1>10. \A p \in ParaIds : u.life[p] = "Onboarding" => u.genesis[p] # None
  BY <1>0, <1>7, Zenon DEF LifeInv
<1>11. ASSUME NEW c \in Codes, NEW p \in Joined(u, c)
       PROVE  /\ u.life[p] = "Onboarding"
              /\ \A d \in Codes : p \in Joined(u, d) => d = c
              /\ \A n \in Sessions : n > m => p \notin u.actions[n]
  <2>1. p \in Joined(t, c) /\ p \notin new /\ p \in ParaIds
    BY <1>5, JoinedParas
  <2>. QED  BY <1>1, <1>5, <1>7, <2>1, Zenon DEF LifeInv
<1>12. ASSUME NEW n \in Sessions, NEW p \in u.actions[n], n > m
       PROVE  /\ InTransition(u.life[p])
              /\ \A j \in Sessions : j > m /\ p \in u.actions[j] => j = n
  <2>1. p \in ParaIds /\ p \notin new
    BY <1>1, <1>4, <1>8, <1>12
  <2>. QED  BY <1>1, <1>7, <1>12, <2>1, Zenon DEF LifeInv
<1>13. ASSUME NEW p \in ParaIds, InTransition(u.life[p])
       PROVE  \/ \E n \in m + 1 .. m + SESSION_DELAY : p \in u.actions[n]
              \/ \E c \in Codes : p \in Joined(u, c)
  <2>1. p \notin new /\ InTransition(t.life[p])
    BY <1>0, <1>7, <1>13
  <2>. QED  BY <1>1, <1>6, <2>1, Zenon DEF LifeInv
<1>. QED  BY <1>9, <1>10, <1>11, <1>12, <1>13, Zenon DEF LifeInv

\* The queue of the next session settles every para in it (apply_actions_queue).
LEMMA MovedLives ==
    ASSUME NEW t, StorageOK(t), NEW u, StorageOK(u), NEW m \in 0 .. MaxSession - 1,
           LifeInv(t, m), Moved(t, u, m + 1)
    PROVE  LifeInv(u, m + 1)
<1>. DEFINE n0 == m + 1
            Q == t.actions[n0]
<1>0. /\ n0 \in Sessions /\ n0 > m /\ m \in Nat /\ n0 \in Nat /\ Sessions \subseteq Nat
      /\ n0 + 1 .. n0 + SESSION_DELAY \subseteq Nat
  BY ParasAssumption DEF Sessions, SESSION_DELAY
<1>1. /\ ~is_parachain(None) /\ ~InTransition(None) /\ None # "Onboarding"
      /\ \A k \in Kinds : /\ ~InTransition(k) /\ k # "Onboarding" /\ k # None
                          /\ is_parachain(k) <=> k = "Parachain"
      /\ \A l \in Lives \cup {None} : InTransition(l) =>
            \/ l \in {"Onboarding", "UpgradingParathread", "DowngradingParachain"}
            \/ is_offboarding(l)
      /\ ~is_parachain("Onboarding") /\ ~is_parachain("UpgradingParathread")
      /\ is_parachain("DowngradingParachain")
      /\ "Parachain" \in Kinds /\ "Parathread" \in Kinds /\ "Parachain" # "Parathread"
      /\ ~is_offboarding("Onboarding") /\ ~is_offboarding("UpgradingParathread")
      /\ ~is_offboarding("DowngradingParachain")
  BY ParasAssumption DEF is_parachain, InTransition, is_stable, is_offboarding, Kinds, Lives
<1>2. \A n \in Sessions : t.actions[n] \in SUBSET ParaIds
  BY DEF StorageOK
<1>3. /\ u.actions = [t.actions EXCEPT ![n0] = {}] /\ DOMAIN t.actions = Sessions
      /\ u.genesis = Without(t.genesis, On(t, n0), None)
      /\ u.parachains = ((t.parachains \cup Up(t, n0)
                           \cup {p \in On(t, n0) : t.genesis[p] = "Parachain"})
                       \ Down(t, n0)) \ Off(t, n0)
      /\ \A p \in ParaIds : u.life[p] =
          IF p \in Off(t, n0) THEN None
          ELSE IF p \in On(t, n0) THEN t.genesis[p]
          ELSE IF p \in Up(t, n0) THEN "Parachain"
          ELSE IF p \in Down(t, n0) THEN "Parathread" ELSE t.life[p]
      /\ \A c \in Codes : Joined(u, c) = Joined(t, c)
  BY ZenonT(30) DEF Moved, Joined, StorageOK
<1>4. \A n \in Sessions : u.actions[n] = IF n = n0 THEN {} ELSE t.actions[n]
  BY <1>0, <1>3
<1>5. \A p \in Q : p \in ParaIds /\ InTransition(t.life[p])
         /\ \A k \in Sessions : k > m /\ p \in t.actions[k] => k = n0
  BY <1>0, <1>2, Zenon DEF LifeInv
<1>6. \A p \in ParaIds : /\ t.life[p] \in Lives \cup {None}
                         /\ t.genesis[p] \in Kinds \cup {None}
                         /\ t.life[p] = "Onboarding" => t.genesis[p] # None
  BY DEF LifeInv, StorageOK
<1>7. /\ \A p \in On(t, n0) : p \in Q /\ t.life[p] = "Onboarding" /\ t.genesis[p] # None
      /\ \A p \in Up(t, n0) : p \in Q /\ t.life[p] = "UpgradingParathread"
      /\ \A p \in Down(t, n0) : p \in Q /\ t.life[p] = "DowngradingParachain"
      /\ \A p \in Off(t, n0) : p \in Q /\ is_offboarding(t.life[p])
      /\ \A p \in Q : /\ t.life[p] = "Onboarding" /\ t.genesis[p] # None => p \in On(t, n0)
                      /\ t.life[p] = "UpgradingParathread" => p \in Up(t, n0)
                      /\ t.life[p] = "DowngradingParachain" => p \in Down(t, n0)
                      /\ is_offboarding(t.life[p]) => p \in Off(t, n0)
  BY DEF On, Up, Down, Off
<1>8. \A p \in ParaIds : p \notin Q => u.life[p] = t.life[p] /\ u.genesis[p] = t.genesis[p]
  BY <1>3, <1>7 DEF Without
<1>9. ASSUME NEW p \in Q
      PROVE  u.life[p] \in Kinds \cup {None}
  <2>1. p \in ParaIds /\ InTransition(t.life[p])
    BY <1>5
  <2>2. CASE t.life[p] = "Onboarding"
    <3>1. p \in On(t, n0) /\ p \notin Off(t, n0) /\ t.genesis[p] \in Kinds
      BY <1>1, <1>6, <1>7, <2>1, <2>2
    <3>. QED  BY <1>3, <2>1, <3>1
  <2>3. CASE t.life[p] = "UpgradingParathread"
    BY <1>1, <1>3, <1>7, <2>1, <2>3
  <2>4. CASE t.life[p] = "DowngradingParachain"
    BY <1>1, <1>3, <1>7, <2>1, <2>4
  <2>5. CASE is_offboarding(t.life[p])
    BY <1>3, <1>7, <2>1, <2>5
  <2>. QED  BY <1>1, <1>6, <2>1, <2>2, <2>3, <2>4, <2>5
<1>. HIDE DEF n0, Q
<1>10. ASSUME NEW p \in ParaIds
       PROVE  p \in u.parachains <=> is_parachain(u.life[p])
  <2>1. p \in t.parachains <=> is_parachain(t.life[p])
    BY DEF LifeInv
  <2>2. CASE p \notin Q
    BY <1>3, <1>7, <1>8, <2>1, <2>2
  <2>3. CASE p \in Q /\ t.life[p] = "Onboarding"
    <3>1. p \in On(t, n0) /\ t.genesis[p] \in Kinds
      BY <1>6, <1>7, <2>3
    <3>2. p \notin Up(t, n0) /\ p \notin Down(t, n0) /\ p \notin Off(t, n0)
          /\ p \notin t.parachains
      BY <1>1, <1>7, <2>1, <2>3
    <3>. QED  BY <1>1, <1>3, <3>1, <3>2
  <2>4. CASE p \in Q /\ t.life[p] = "UpgradingParathread"
    <3>1. p \in Up(t, n0) /\ p \notin On(t, n0) /\ p \notin Down(t, n0) /\ p \notin Off(t, n0)
      BY <1>1, <1>7, <2>4
    <3>. QED  BY <1>1, <1>3, <3>1
  <2>5. CASE p \in Q /\ t.life[p] = "DowngradingParachain"
    <3>1. p \in Down(t, n0) /\ p \notin On(t, n0) /\ p \notin Up(t, n0) /\ p \notin Off(t, n0)
      BY <1>1, <1>7, <2>5
    <3>. QED  BY <1>1, <1>3, <3>1
  <2>6. CASE p \in Q /\ is_offboarding(t.life[p])
    <3>1. p \in Off(t, n0)
      BY <1>7, <2>6
    <3>. QED  BY <1>1, <1>3, <3>1
  <2>. QED  BY <1>1, <1>5, <1>6, <2>2, <2>3, <2>4, <2>5, <2>6
<1>11. u.parachains = {p \in ParaIds : is_parachain(u.life[p])}
  <2>1. u.parachains \in SUBSET ParaIds
    BY DEF StorageOK
  <2>. QED  BY <1>10, <2>1
<1>12. \A p \in ParaIds : InTransition(u.life[p]) \/ u.life[p] = "Onboarding" => p \notin Q
  BY <1>1, <1>9, Zenon
<1>13. \A p \in ParaIds : u.life[p] = "Onboarding" => u.genesis[p] # None
  BY <1>6, <1>8, <1>12, Zenon
<1>14. ASSUME NEW c \in Codes, NEW p \in Joined(u, c)
       PROVE  /\ u.life[p] = "Onboarding"
              /\ \A d \in Codes : p \in Joined(u, d) => d = c
              /\ \A n \in Sessions : n > n0 => p \notin u.actions[n]
  <2>1. p \in Joined(t, c) /\ p \in ParaIds
    BY <1>3, JoinedParas
  <2>2. /\ t.life[p] = "Onboarding"
        /\ \A d \in Codes : p \in Joined(t, d) => d = c
        /\ \A n \in Sessions : n > m => p \notin t.actions[n]
    BY <2>1, Zenon DEF LifeInv
  <2>3. p \notin Q
    BY <1>0, <2>2 DEF Q
  <2>4. \A n \in Sessions : n > n0 => p \notin u.actions[n]
    BY <1>0, <1>4, <2>2
  <2>. QED  BY <1>3, <1>8, <2>1, <2>2, <2>3, <2>4, Zenon
<1>15. ASSUME NEW n \in Sessions, NEW p \in u.actions[n], n > n0
       PROVE  /\ InTransition(u.life[p])
              /\ \A k \in Sessions : k > n0 /\ p \in u.actions[k] => k = n
  <2>1. p \in t.actions[n] /\ p \in ParaIds /\ n > m
    BY <1>0, <1>2, <1>4, <1>15
  <2>2. /\ InTransition(t.life[p])
        /\ \A k \in Sessions : k > m /\ p \in t.actions[k] => k = n
    BY <2>1, Zenon DEF LifeInv
  <2>3. p \notin Q
    BY <1>0, <1>15, <2>2 DEF Q
  <2>4. u.life[p] = t.life[p]
    BY <1>8, <2>1, <2>3
  <2>5. \A k \in Sessions : k > n0 /\ p \in u.actions[k] => k > m /\ p \in t.actions[k]
    BY <1>0, <1>4
  <2>. QED  BY <2>2, <2>4, <2>5, Zenon
<1>16. ASSUME NEW p \in ParaIds, InTransition(u.life[p])
       PROVE  \/ \E n \in n0 + 1 .. n0 + SESSION_DELAY : p \in u.actions[n]
              \/ \E c \in Codes : p \in Joined(u, c)
  <2>1. p \notin Q /\ InTransition(t.life[p])
    BY <1>8, <1>12, <1>16
  <2>2. CASE \E n \in m + 1 .. m + SESSION_DELAY : p \in t.actions[n]
    <3>1. PICK n \in m + 1 .. m + SESSION_DELAY : p \in t.actions[n]
      BY <2>2
    <3>2. n # n0
      BY <2>1, <3>1 DEF Q
    <3>3. n \in Sessions /\ n \in n0 + 1 .. n0 + SESSION_DELAY
      BY <3>2, ParasAssumption DEF n0, SESSION_DELAY, Sessions
    <3>. QED  BY <1>4, <3>1, <3>2, <3>3
  <2>3. CASE \E c \in Codes : p \in Joined(t, c)
    BY <1>3, <2>3
  <2>. QED  BY <2>1, <2>2, <2>3, Zenon DEF LifeInv
<1>. QED  BY <1>11, <1>13, <1>14, <1>15, <1>16, Zenon DEF LifeInv, n0

-----------------------------------------------------------------------------
(* The steps. *)

\* The candidates that wait were accepted in an earlier block, on its parent.
PendingOK ==
    /\ pending = [p \in ParaIds |-> pending[p]]
    /\ \A p \in ParaIds : pending[p] # None =>
          /\ pending[p].relay_parent \in Nat /\ pending[p].relay_parent < now
          /\ pending[p].code \in Codes \cup {None}

\* The inductive invariant of the pallet.
ParasInv ==
    /\ ClockOK /\ PendingOK /\ StorageOK(s)
    /\ PastOK(s, now, now) /\ FutureOK(s) /\ LifeInv(s, session)

\* What a routine inside a block may make of the storage.
Fits(u) ==
    /\ StorageOK(u) /\ SamePast(s, u) /\ Promised(s, u) /\ LifeInv(u, session)

\* A promise made in this block is later than all replaced code (proceed_with_upgrade).
LEMMA FitsFuture ==
    ASSUME ParasInv, NEW u, Fits(u)
    PROVE  PastOK(u, now, now) /\ FutureOK(u)
<1>1. PastOK(u, now, now)
  BY Zenon DEF ParasInv, Fits, SamePast, PastOK
<1>2. ASSUME NEW p \in ParaIds, u.futureAt[p] # 0, NEW x \in u.meta, x.id = p
      PROVE  x.expected_at < u.futureAt[p]
  <2>1. x \in s.meta /\ x.expected_at \in Nat /\ x.expected_at < now
    BY ZenonT(30), MetaFields DEF ParasInv, StorageOK, Fits, SamePast, PastOK
  <2>2. CASE u.futureAt[p] = s.futureAt[p]
    BY <1>2, <2>1, <2>2, Zenon DEF ParasInv, FutureOK
  <2>3. CASE u.futureAt[p] >= now
    <3>1. u.futureAt[p] \in Nat /\ now \in Nat
      BY DEF Fits, StorageOK, ParasInv, ClockOK
    <3>. QED  BY <2>1, <2>3, <3>1
  <2>. QED  BY <2>2, <2>3, Zenon DEF Fits, Promised
<1>. QED  BY <1>1, <1>2, Zenon DEF FutureOK

\* A call keeps the invariant and forgets no code.
CallKeeps == ParasInv' /\ s.past \subseteq s'.past

\* So for a call whose routine fits.
LEMMA FitsKeeps ==
    ASSUME ParasInv, NEW u, Fits(u), Becomes(u)
    PROVE  CallKeeps
<1>1. PastOK(u, now, now) /\ FutureOK(u)
  BY FitsFuture
<1>2. s' = u /\ now' = now /\ session' = session /\ pending' = pending
  BY DEF Becomes
<1>3. ClockOK' /\ PendingOK'
  BY <1>2, Zenon DEF ParasInv, ClockOK, PendingOK
<1>4. StorageOK(s)' /\ LifeInv(s, session)' /\ PastOK(s, now, now)' /\ FutureOK(s)'
  <2>1. StorageOK(s') /\ LifeInv(s', session') /\ PastOK(s', now', now') /\ FutureOK(s')
    BY <1>1, <1>2, Zenon DEF Fits
  <2>. QED  BY <2>1
<1>5. s.past \subseteq s'.past
  BY <1>2 DEF Fits, SamePast
<1>. QED  BY <1>3, <1>4, <1>5 DEF CallKeeps, ParasInv

\* A routine that is neutral to the invariant fits.
LEMMA NeutralFits ==
    ASSUME ParasInv, NEW u, Neutral(s, u)
    PROVE  Fits(u)
<1>1. LifeInv(u, session)
  BY LivesKept, Zenon DEF ParasInv, Neutral, Joined
<1>. QED  BY <1>1, Zenon DEF Fits, Neutral, Promised

\* A vote that is accepted (include_pvf_check_statement, add_trusted_validation_code).
LEMMA AcceptedFits ==
    ASSUME MaxFacts, ParasInv, NEW code \in Codes
    PROVE  Fits(enact_pvf_accepted([s EXCEPT !.votes[code] = NoVote],
                                   s.votes[code].causes, s.votes[code].age))
<1>. DEFINE cs == s.votes[code].causes
            aged == s.votes[code].age
            t == [s EXCEPT !.votes[code] = NoVote]
            u == enact_pvf_accepted(t, cs, aged)
            k == OnboardAt(session, aged)
            ids == Joined(s, code)
<1>1. /\ StorageOK(s) /\ ClockOK /\ LifeInv(s, session) /\ session \in 0 .. MaxSession
      /\ s.votes[code] \in Votes
  BY DEF ParasInv, StorageOK, ClockOK
<1>2. cs \in SUBSET Causes /\ aged \in Nat /\ NoVote \in Votes /\ NoVote.causes = {}
  BY <1>1, VoteFields
<1>3. /\ t = [f \in ParasFields |-> t[f]] /\ SamePast(s, t) /\ SameLives(s, t)
      /\ t.futureAt = s.futureAt /\ t.votes = [s.votes EXCEPT ![code] = NoVote]
  BY <1>1, Zenon DEF StorageOK, SamePast, SameLives, ParasFields
<1>. HIDE DEF t, cs, aged
<1>4. /\ t.votes \in [Codes -> Votes]
      /\ \A c \in Codes : t.votes[c] = IF c = code THEN NoVote ELSE s.votes[c]
  BY ZenonT(30), <1>1, <1>2, <1>3 DEF StorageOK
<1>5. StorageOK(t)
  BY <1>1, <1>3, <1>4, Zenon DEF StorageOK, SamePast, SameLives
<1>7. k \in Sessions /\ k \in session + 1 .. session + SESSION_DELAY
  BY <1>1, <1>2, OnboardSession, Zenon
<1>. HIDE DEF ids
<1>a. u = enact_pvf_accepted(t, cs, aged) /\ k = OnboardAt(session, aged)
  OBVIOUS
<1>. HIDE DEF u, k
<1>6. /\ StorageOK(u) /\ SamePast(t, u) /\ Promised(t, u)
      /\ u.life = t.life /\ u.parachains = t.parachains
      /\ u.genesis = t.genesis /\ u.votes = t.votes
      /\ u.actions = Queued(t, k, IdsOf(Onboardings(cs)))
  BY <1>1, <1>2, <1>5, <1>a, AcceptedEffect, ZenonT(40)
<1>. USE DEF ids
<1>8. IdsOf(Onboardings(cs)) = ids /\ ids \in SUBSET ParaIds
  BY <1>1, JoinedParas DEF cs, Joined
<1>. HIDE DEF ids
<1>9. /\ u.actions = Queued(s, k, ids) /\ u.life = s.life /\ u.genesis = s.genesis
      /\ u.parachains = s.parachains
  BY <1>3, <1>6, <1>8, Zenon DEF SameLives, Queued
<1>10. \A p \in ids :
          /\ \A n \in Sessions : n > session => p \notin s.actions[n]
          /\ s.life[p] = "Onboarding" /\ InTransition("Onboarding")
          /\ s.genesis[p] # None
          /\ \A d \in Codes : p \in Joined(s, d) => d = code
  <2>1. InTransition("Onboarding")
    BY ParasAssumption DEF InTransition, is_stable
  <2>. QED  BY <1>1, <1>8, <2>1, Zenon DEF LifeInv, ids
<1>11. ASSUME NEW c \in Codes
       PROVE  Joined(u, c) = Joined(s, c) \ ids
  <2>1. CASE c = code
    <3>1. u.votes[c].causes = {}
      BY <1>2, <1>4, <1>6, <2>1
    <3>2. Joined(u, c) = {}
      BY <3>1 DEF Joined, IdsOf, Onboardings
    <3>. QED  BY <2>1, <3>2 DEF ids
  <2>2. CASE c # code
    <3>1. Joined(u, c) = Joined(s, c)
      BY <1>4, <1>6, <2>2 DEF Joined
    <3>. QED  BY <1>10, <2>2, <3>1
  <2>. QED  BY <2>1, <2>2
<1>12. \A p \in ids :
                /\ \A n \in Sessions : n > session => p \notin s.actions[n]
                /\ InTransition(u.life[p])
                /\ u.life[p] = "Onboarding" => u.genesis[p] # None
                /\ is_parachain(u.life[p]) <=> is_parachain(s.life[p])
  BY <1>9, <1>10
<1>13. \A p \in ParaIds \ ids : u.life[p] = s.life[p] /\ u.genesis[p] = s.genesis[p]
  BY <1>9
<1>14. \A c \in Codes : Joined(u, c) = Joined(s, c) \ ids
  BY <1>11
<1>15. LifeInv(u, session)
  <2>1. QueuedOnly(s, u, session, k, ids)
    BY <1>9, <1>12, <1>13, <1>14, Zenon DEF QueuedOnly
  <2>. QED  BY <1>1, <1>6, <1>7, <1>8, <2>1, QueuedLives, Zenon
<1>16. SamePast(s, u) /\ Promised(s, u)
  BY <1>3, <1>6, Zenon DEF SamePast, Promised
<1>17. Fits(u)
  BY <1>6, <1>15, <1>16 DEF Fits
<1>. QED  BY <1>17 DEF u, t, cs, aged

\* A vote that is rejected (include_pvf_check_statement).
LEMMA RejectedFits ==
    ASSUME ParasInv, NEW code \in Codes
    PROVE  Fits(enact_pvf_rejected(s, {code}))
<1>. DEFINE codes == {code}
            u == enact_pvf_rejected(s, codes)
<1>1. StorageOK(s) /\ LifeInv(s, session) /\ session \in 0 .. MaxSession
  BY DEF ParasInv, ClockOK
<1>2. codes \in SUBSET Codes
  OBVIOUS
<1>. HIDE DEF codes
<1>3. StorageOK(u) /\ SamePast(s, u) /\ Undone(s, u, codes)
  BY <1>1, <1>2, RejectedEffect, Zenon
<1>. HIDE DEF u
<1>4. LifeInv(u, session)
  BY <1>1, <1>2, <1>3, UndoneLives
<1>5. Promised(s, u)
  BY <1>3, Zenon DEF Promised, Undone
<1>6. Fits(u)
  BY <1>3, <1>4, <1>5 DEF Fits
<1>. QED  BY <1>6 DEF u, codes

\* A stable para that is queued two sessions ahead as one in transition (the schedule_
\* calls for registered paras).
LEMMA ScheduledFits ==
    ASSUME ParasInv, NEW id \in ParaIds, NEW life \in Lives, InTransition(life),
           life # "Onboarding", is_stable(s.life[id]),
           is_parachain(life) <=> is_parachain(s.life[id])
    PROVE  Fits(Scheduled(s, id, life))
<1>. DEFINE k == session + SESSION_DELAY
            ids == {id}
            u == Scheduled(s, id, life)
            nl == [s.life EXCEPT ![id] = life]
            na == [s.actions EXCEPT ![k] = @ \cup ids]
<1>1. StorageOK(s) /\ LifeInv(s, session) /\ session \in 0 .. MaxSession
  BY DEF ParasInv, ClockOK
<1>2. k \in Sessions /\ k \in session + 1 .. session + SESSION_DELAY /\ ids \in SUBSET ParaIds
  BY <1>1, ParasAssumption DEF Sessions, SESSION_DELAY
<1>3. /\ u = [f \in ParasFields |-> u[f]] /\ u.life = nl /\ u.actions = na
      /\ u.parachains = s.parachains /\ u.genesis = s.genesis /\ u.futureAt = s.futureAt
      /\ u.votes = s.votes /\ SamePast(s, u)
  BY <1>1, Zenon DEF StorageOK, SamePast, ParasFields, Scheduled, Queue
<1>. HIDE DEF u
<1>4. /\ nl \in [ParaIds -> Lives \cup {None}]
      /\ \A p \in ParaIds : nl[p] = IF p = id THEN life ELSE s.life[p]
  BY <1>1 DEF StorageOK
<1>5. na \in [Sessions -> SUBSET ParaIds] /\ na = Queued(s, k, ids)
  BY <1>1, <1>2 DEF StorageOK, Queued
<1>. HIDE DEF nl, na, k
<1>6. StorageOK(u)
  BY <1>1, <1>3, <1>4, <1>5, Zenon DEF StorageOK, SamePast
<1>7. ~InTransition(s.life[id]) /\ s.life[id] # "Onboarding"
  BY DEF InTransition, is_stable
<1>8. \A p \in ids :
                /\ \A n \in Sessions : n > session => p \notin s.actions[n]
                /\ InTransition(u.life[p])
                /\ u.life[p] = "Onboarding" => u.genesis[p] # None
                /\ is_parachain(u.life[p]) <=> is_parachain(s.life[p])
  <2>1. u.life[id] = life
    BY <1>3, <1>4
  <2>2. \A n \in Sessions : n > session => id \notin s.actions[n]
    BY <1>1, <1>7, Zenon DEF LifeInv
  <2>. QED  BY <2>1, <2>2
<1>9. \A p \in ParaIds \ ids : u.life[p] = s.life[p] /\ u.genesis[p] = s.genesis[p]
  BY <1>3, <1>4
<1>10. \A c \in Codes : Joined(u, c) = Joined(s, c) \ ids
  <2>1. \A c \in Codes : Joined(u, c) = Joined(s, c)
    BY <1>3 DEF Joined
  <2>2. \A c \in Codes : id \notin Joined(s, c)
    BY <1>1, <1>7, Zenon DEF LifeInv
  <2>. QED  BY <2>1, <2>2
<1>. HIDE DEF ids
<1>11. u.actions = Queued(s, k, ids) /\ u.parachains = s.parachains
  BY <1>3, <1>5
<1>12. LifeInv(u, session)
  <2>1. QueuedOnly(s, u, session, k, ids)
    BY <1>8, <1>9, <1>10, <1>11, Zenon DEF QueuedOnly
  <2>. QED  BY <1>1, <1>2, <1>6, <2>1, QueuedLives, Zenon
<1>13. Promised(s, u)
  BY <1>3, Zenon DEF Promised
<1>14. Fits(u)
  BY <1>3, <1>6, <1>12, <1>13 DEF Fits
<1>. QED  BY <1>14 DEF u

\* schedule_para_cleanup, schedule_parathread_upgrade and schedule_parachain_downgrade.
LEMMA ScheduleKeeps ==
    ASSUME ParasInv, NEW id \in ParaIds,
           \/ schedule_para_cleanup(id) \/ schedule_parathread_upgrade(id)
           \/ schedule_parachain_downgrade(id)
    PROVE  CallKeeps
<1>1. PICK life \in Lives :
        /\ Becomes(Scheduled(s, id, life)) /\ is_stable(s.life[id])
        /\ life # "Onboarding" /\ InTransition(life)
        /\ is_parachain(life) <=> is_parachain(s.life[id])
  <2>1. /\ is_stable("Parathread") /\ is_stable("Parachain")
        /\ ~is_parachain("Parathread") /\ is_parachain("Parachain")
        /\ "OffboardingParathread" \in Lives /\ ~is_parachain("OffboardingParathread")
        /\ "OffboardingParachain" \in Lives /\ is_parachain("OffboardingParachain")
        /\ "UpgradingParathread" \in Lives /\ ~is_parachain("UpgradingParathread")
        /\ "DowngradingParachain" \in Lives /\ is_parachain("DowngradingParachain")
        /\ \A l \in {"OffboardingParathread", "OffboardingParachain",
                     "UpgradingParathread", "DowngradingParachain"} :
              InTransition(l) /\ l # "Onboarding"
    BY ParasAssumption DEF is_stable, is_parachain, InTransition, Lives
  <2>2. \/ s.life[id] = "Parathread" /\ Becomes(Scheduled(s, id, "OffboardingParathread"))
        \/ s.life[id] = "Parachain" /\ Becomes(Scheduled(s, id, "OffboardingParachain"))
        \/ s.life[id] = "Parathread" /\ Becomes(Scheduled(s, id, "UpgradingParathread"))
        \/ s.life[id] = "Parachain" /\ Becomes(Scheduled(s, id, "DowngradingParachain"))
    BY Zenon DEF schedule_para_cleanup, schedule_parathread_upgrade,
        schedule_parachain_downgrade
  <2>. QED  BY <2>1, <2>2
<1>2. Fits(Scheduled(s, id, life))
  BY <1>1, ScheduledFits, Zenon
<1>. QED  BY <1>1, <1>2, FitsKeeps, Zenon

\* schedule_para_initialize: a new para waits for the vote on its code, or is queued.
LEMMA InitializeKeeps ==
    ASSUME MaxFacts, ParasInv, NEW id \in ParaIds, NEW kind \in Kinds, NEW code \in Codes,
           schedule_para_initialize(id, kind, code)
    PROVE  CallKeeps
<1>. DEFINE cause == [kind |-> "Onboarding", id |-> id, relay_parent |-> 0]
            t == [s EXCEPT !.life[id] = "Onboarding", !.genesis[id] = kind,
                           !.current[id] = code]
            u == kick_off_pvf_check(t, cause, code)
            nl == [s.life EXCEPT ![id] = "Onboarding"]
            ng == [s.genesis EXCEPT ![id] = kind]
            m == session
            cs == {cause}
<1>1. StorageOK(s) /\ LifeInv(s, m) /\ m \in 0 .. MaxSession /\ ClockOK
  BY DEF ParasInv, ClockOK
<1>2. s.life[id] = None /\ Becomes(u)
  BY Zenon DEF schedule_para_initialize
<1>3. /\ t = [f \in ParasFields |-> t[f]] /\ t.life = nl /\ t.genesis = ng
      /\ t.parachains = s.parachains /\ t.actions = s.actions /\ t.futureAt = s.futureAt
      /\ t.votes = s.votes /\ SamePast(s, t)
  BY <1>1, Zenon DEF StorageOK, SamePast, ParasFields
<1>4. /\ cause \in Causes /\ IdsOf(Onboardings(cs)) = {id}
      /\ cause.kind = "Onboarding" /\ cause.id = id
  <2>1. cause \in Causes /\ cause.kind = "Onboarding" /\ cause.id = id
    BY ParasAssumption DEF Causes
  <2>. HIDE DEF cause
  <2>. QED  BY <2>1 DEF IdsOf, Onboardings
<1>. HIDE DEF t, cause, m
<1>5. /\ nl \in [ParaIds -> Lives \cup {None}] /\ ng \in [ParaIds -> Kinds \cup {None}]
      /\ \A p \in ParaIds : nl[p] = IF p = id THEN "Onboarding" ELSE s.life[p]
      /\ \A p \in ParaIds : ng[p] = IF p = id THEN kind ELSE s.genesis[p]
  BY <1>1 DEF StorageOK, Lives
<1>. HIDE DEF nl, ng
<1>6. StorageOK(t)
  BY <1>1, <1>3, <1>5, Zenon DEF StorageOK, SamePast
<1>7. u = kick_off_pvf_check(t, cause, code)
  OBVIOUS
<1>. HIDE DEF u
<1>8. /\ StorageOK(u) /\ SamePast(t, u) /\ Promised(t, u)
      /\ u.life = t.life /\ u.parachains = t.parachains /\ u.genesis = t.genesis
      /\ Joins(t, u, code, cause) \/ AtOnce(t, u, cause)
  BY <1>1, <1>4, <1>6, <1>7, KickOffEffect, Zenon
<1>9. /\ u.life[id] = "Onboarding" /\ u.genesis[id] # None
      /\ \A p \in ParaIds \ {id} : u.life[p] = s.life[p] /\ u.genesis[p] = s.genesis[p]
      /\ u.parachains = s.parachains
  BY <1>3, <1>5, <1>8, ParasAssumption DEF Kinds
<1>10. /\ ~is_parachain("Onboarding") /\ ~is_parachain(None) /\ InTransition("Onboarding")
       /\ ~InTransition(None) /\ None # "Onboarding"
  BY ParasAssumption DEF is_parachain, InTransition, is_stable
<1>11. /\ \A n \in Sessions : n > m => id \notin s.actions[n]
       /\ \A c \in Codes : id \notin Joined(s, c)
  BY <1>1, <1>2, <1>10, Zenon DEF LifeInv
<1>12. ASSUME Joins(t, u, code, cause)  PROVE LifeInv(u, m)
  <2>1. /\ u.votes[code].causes = s.votes[code].causes \cup {cause}
        /\ \A c \in Codes \ {code} : u.votes[c] = s.votes[c]
        /\ u.actions = s.actions
    BY <1>3, <1>12 DEF Joins
  <2>2. Joined(u, code) = Joined(s, code) \cup {id}
    BY <1>4, <2>1 DEF Joined, IdsOf, Onboardings
  <2>3. \A c \in Codes \ {code} : Joined(u, c) = Joined(s, c)
    BY <2>1 DEF Joined
  <2>4. JoinedOnly(s, u, id, code)
    BY <1>2, <1>9, <2>1, <2>2, <2>3, Zenon DEF JoinedOnly
  <2>. QED  BY <1>1, <1>2, <1>8, <2>4, JoinedLives, Zenon
<1>13. ASSUME AtOnce(t, u, cause)  PROVE LifeInv(u, m)
  <2>. DEFINE ids == {id}
  <2>1. PICK k \in Sessions : /\ k \in m + 1 .. m + SESSION_DELAY
                              /\ u.actions = Queued(s, k, ids)
    <3>1. \E k \in Sessions : /\ k \in m + 1 .. m + SESSION_DELAY
                              /\ u.actions = Queued(t, k, {id})
      BY <1>4, <1>13, Zenon DEF AtOnce, m
    <3>2. \A k : Queued(t, k, {id}) = Queued(s, k, {id})
      BY <1>3, Zenon DEF Queued
    <3>. QED  BY <3>1, <3>2, Zenon
  <2>2. u.votes = s.votes
    BY <1>3, <1>13, Zenon DEF AtOnce
  <2>3. \A c \in Codes : Joined(u, c) = Joined(s, c) \ ids
    BY <1>11, <2>2 DEF Joined
  <2>4. \A p \in ids :
                /\ \A n \in Sessions : n > m => p \notin s.actions[n]
                /\ InTransition(u.life[p])
                /\ u.life[p] = "Onboarding" => u.genesis[p] # None
                /\ is_parachain(u.life[p]) <=> is_parachain(s.life[p])
    BY <1>2, <1>9, <1>10, <1>11
  <2>5. \A p \in ParaIds \ ids : u.life[p] = s.life[p] /\ u.genesis[p] = s.genesis[p]
    BY <1>9
  <2>6. ids \in SUBSET ParaIds
    OBVIOUS
  <2>. HIDE DEF ids
  <2>7. QueuedOnly(s, u, m, k, ids)
    BY <1>9, <2>1, <2>3, <2>4, <2>5, Zenon DEF QueuedOnly
  <2>. QED  BY <1>1, <1>8, <2>1, <2>6, <2>7, QueuedLives, Zenon
<1>14. LifeInv(u, session)
  BY <1>8, <1>12, <1>13, Zenon DEF m
<1>15. SamePast(s, u) /\ Promised(s, u)
  BY <1>3, <1>8, Zenon DEF SamePast, Promised
<1>16. Fits(u)
  BY <1>8, <1>14, <1>15 DEF Fits
<1>. QED  BY <1>2, <1>16, FitsKeeps, Zenon

\* include_pvf_check_statement: the vote is recorded, or it decides.
LEMMA StatementKeeps ==
    ASSUME MaxFacts, ParasInv, NEW v \in Validators, NEW code \in Codes, NEW accept \in BOOLEAN,
           include_pvf_check_statement(v, code, accept)
    PROVE  CallKeeps
<1>. DEFINE old == s.votes[code]
            vote == [old EXCEPT !.accept = IF accept THEN @ \cup {v} ELSE @,
                                !.reject = IF accept THEN @ ELSE @ \cup {v}]
            closed == [s EXCEPT !.votes[code] = NoVote]
            u == [s EXCEPT !.votes[code] = vote]
            nv == [s.votes EXCEPT ![code] = vote]
<1>1. StorageOK(s) /\ LifeInv(s, session) /\ old \in Votes
  BY DEF ParasInv, StorageOK
<1>2. vote \in Votes /\ vote.causes = old.causes /\ vote.age = old.age
  BY ZenonT(30), <1>1 DEF Votes
<1>. HIDE DEF vote
<1>3. /\ u = [f \in ParasFields |-> u[f]] /\ u.votes = nv /\ SameLives(s, u)
      /\ SamePast(s, u) /\ u.futureAt = s.futureAt
  BY <1>1, Zenon DEF StorageOK, SamePast, SameLives, ParasFields
<1>. HIDE DEF u
<1>4. /\ nv \in [Codes -> Votes]
      /\ \A c \in Codes : nv[c].causes = s.votes[c].causes
  BY <1>1, <1>2 DEF StorageOK
<1>. HIDE DEF nv
<1>5. StorageOK(u)
  BY <1>1, <1>3, <1>4, Zenon DEF StorageOK, SamePast, SameLives
<1>6. \A c \in Codes : Joined(u, c) = Joined(s, c)
  BY <1>3, <1>4 DEF Joined
<1>7. LifeInv(u, session)
  BY <1>1, <1>3, <1>6, LivesKept
<1>8. Fits(u)
  BY <1>3, <1>5, <1>7, Zenon DEF Fits, Promised
<1>9. \/ Becomes(enact_pvf_rejected(s, {code}))
      \/ Becomes(enact_pvf_accepted(closed, vote.causes, vote.age))
      \/ Becomes(u)
  BY DEF include_pvf_check_statement, vote, u
<1>10. Becomes(enact_pvf_accepted(closed, vote.causes, vote.age))
         => Becomes(enact_pvf_accepted(closed, old.causes, old.age))
  BY <1>2, Zenon
<1>. QED  BY <1>8, <1>9, <1>10, AcceptedFits, RejectedFits, FitsKeeps, Zenon

\* add_trusted_validation_code and poke_unused_validation_code.
LEMMA RootCallKeeps ==
    ASSUME MaxFacts, ParasInv, NEW code \in Codes, RootCall(code)
    PROVE  CallKeeps
<1>. DEFINE more == [s EXCEPT !.stored = @ \cup {code}]
            less == [s EXCEPT !.stored = @ \ {code}]
            accepted == enact_pvf_accepted([s EXCEPT !.votes[code] = NoVote],
                                           s.votes[code].causes, s.votes[code].age)
<1>1. StorageOK(s)
  BY DEF ParasInv
<1>2. Neutral(s, more) /\ Neutral(s, less)
  BY <1>1, Zenon DEF StorageOK, Neutral, SamePast, SameLives, ParasFields
<1>3. Becomes(more) \/ Becomes(less) \/ Becomes(accepted)
  BY Zenon DEF RootCall, add_trusted_validation_code, poke_unused_validation_code
<1>4. Fits(accepted)
  BY AcceptedFits, Zenon
<1>. HIDE DEF more, less, accepted
<1>. QED  BY <1>2, <1>3, <1>4, NeutralFits, FitsKeeps, Zenon

\* accept_candidate: the candidate waits.
LEMMA AcceptKeeps ==
    ASSUME ParasInv, NEW id \in ParaIds, NEW code \in Codes \cup {None},
           accept_candidate(id, code)
    PROVE  CallKeeps
<1>. DEFINE c == [relay_parent |-> now - 1, code |-> code]
<1>1. /\ now \in Nat /\ now > 1 /\ now' = now /\ session' = session /\ s' = s
      /\ pending' = [pending EXCEPT ![id] = c] /\ pending = [p \in ParaIds |-> pending[p]]
  BY DEF accept_candidate, ParasInv, ClockOK, PendingOK
<1>2. c.relay_parent \in Nat /\ c.relay_parent < now /\ c.code \in Codes \cup {None}
  BY <1>1
<1>. HIDE DEF c
<1>3. /\ pending' = [p \in ParaIds |-> pending'[p]]
      /\ \A p \in ParaIds : pending'[p] = IF p = id THEN c ELSE pending[p]
  BY <1>1
<1>4. PendingOK'
  <2>1. ASSUME NEW p \in ParaIds, pending'[p] # None
        PROVE  /\ pending'[p].relay_parent \in Nat /\ pending'[p].relay_parent < now'
               /\ pending'[p].code \in Codes \cup {None}
    <3>1. CASE p = id
      BY <1>1, <1>2, <1>3, <3>1
    <3>2. CASE p # id
      BY <1>1, <1>3, <2>1, <3>2 DEF ParasInv, PendingOK
    <3>. QED  BY <3>1, <3>2
  <2>. QED  BY <1>3, <2>1 DEF PendingOK
<1>5. ClockOK'
  BY <1>1, Zenon DEF ParasInv, ClockOK
<1>6. StorageOK(s') /\ LifeInv(s', session') /\ PastOK(s', now', now') /\ FutureOK(s')
  BY <1>1, Zenon DEF ParasInv
<1>. QED  BY <1>1, <1>4, <1>5, <1>6 DEF CallKeeps, ParasInv

\* schedule_code_upgrade: the announced code waits for a vote, or is expected.
LEMMA UpgradeFits ==
    ASSUME MaxFacts, ParasInv, NEW id \in ParaIds, NEW code \in Codes, NEW rp \in 0 .. MaxBlock
    PROVE  Fits(schedule_code_upgrade(s, id, code, rp))
<1>. DEFINE t == [s EXCEPT !.future[id] = code,
                           !.restricted = @ \cup {id},
                           !.cooldowns = @ \cup {<<id, rp + UpgradeCooldown>>}]
            cause == [kind |-> "Upgrade", id |-> id, relay_parent |-> rp]
            u == kick_off_pvf_check(t, cause, code)
<1>1. StorageOK(s) /\ ClockOK
  BY DEF ParasInv
<1>2. Neutral(s, s) /\ Neutral(s, t)
  BY <1>1, Zenon DEF StorageOK, Neutral, SamePast, SameLives, ParasFields
<1>3. schedule_code_upgrade(s, id, code, rp) = s \/ schedule_code_upgrade(s, id, code, rp) = u
  BY Zenon DEF schedule_code_upgrade
<1>. HIDE DEF t
<1>4. StorageOK(t) /\ LifeInv(t, session)
  BY <1>2, NeutralFits, Zenon DEF Fits
<1>5. cause \in Causes /\ cause.kind = "Upgrade"
  BY DEF Causes
<1>. HIDE DEF cause
<1>6. u = kick_off_pvf_check(t, cause, code)
  OBVIOUS
<1>. HIDE DEF u
<1>7. /\ StorageOK(u) /\ SamePast(t, u) /\ Promised(t, u)
      /\ u.life = t.life /\ u.parachains = t.parachains /\ u.genesis = t.genesis
      /\ Joins(t, u, code, cause) \/ AtOnce(t, u, cause)
  BY <1>1, <1>4, <1>5, <1>6, KickOffEffect, Zenon
<1>8. ASSUME Joins(t, u, code, cause)
      PROVE  u.actions = t.actions /\ \A c \in Codes : Joined(u, c) = Joined(t, c)
  <2>1. /\ u.actions = t.actions
        /\ \A c \in Codes : u.votes[c].causes = t.votes[c].causes
                            \/ u.votes[c].causes = t.votes[c].causes \cup {cause}
    BY <1>8 DEF Joins
  <2>2. \A cs : Onboardings(cs \cup {cause}) = Onboardings(cs)
    BY <1>5 DEF Onboardings
  <2>. QED  BY <2>1, <2>2, Zenon DEF Joined
<1>9. ASSUME AtOnce(t, u, cause)
      PROVE  u.actions = t.actions /\ \A c \in Codes : Joined(u, c) = Joined(t, c)
  <2>1. IdsOf(Onboardings({cause})) = {}
    BY <1>5 DEF IdsOf, Onboardings
  <2>2. \A k \in Sessions : Queued(t, k, {}) = t.actions
    BY ZenonT(30), <1>4 DEF Queued, StorageOK
  <2>. QED  BY <1>9, <2>1, <2>2 DEF AtOnce, Joined
<1>10. SameLives(t, u) /\ \A c \in Codes : Joined(u, c) = Joined(t, c)
  BY <1>7, <1>8, <1>9, Zenon DEF SameLives
<1>11. LifeInv(u, session)
  BY <1>4, <1>10, LivesKept
<1>12. SamePast(s, u) /\ Promised(s, u)
  BY <1>2, <1>7, Zenon DEF Neutral, SamePast, Promised
<1>13. Fits(u)
  BY <1>7, <1>11, <1>12 DEF Fits
<1>. QED  BY <1>2, <1>3, <1>13, NeutralFits, Zenon

\* note_new_head: an upgrade whose block has come is applied, the code it replaces is
\* noted at that block.
LEMMA HeadEffect ==
    ASSUME ParasInv, NEW v, Fits(v), NEW id \in ParaIds, NEW rp \in Nat, rp < now
    PROVE  LET u == note_new_head(v, id, rp)
           IN  /\ StorageOK(u) /\ PastOK(u, now, now) /\ FutureOK(u) /\ LifeInv(u, session)
               /\ s.past \subseteq u.past
<1>. DEFINE at == v.futureAt[id]
            due == [v EXCEPT !.futureAt[id] = 0, !.goAhead[id] = None]
            switched == [due EXCEPT !.future[id] = None, !.current[id] = v.future[id]]
            idle == [v EXCEPT !.goAhead[id] = None]
            rep == {[id |-> id, at |-> at, code |-> v.current[id]]}
            u == note_new_head(v, id, rp)
            nf == [v.futureAt EXCEPT ![id] = 0]
            Good(w) == /\ StorageOK(w) /\ PastOK(w, now, now) /\ FutureOK(w)
                       /\ LifeInv(w, session) /\ s.past \subseteq w.past
<1>1. /\ StorageOK(v) /\ PastOK(v, now, now) /\ FutureOK(v) /\ LifeInv(v, session)
      /\ v.past = s.past /\ ClockOK /\ now \in Nat
  BY FitsFuture DEF Fits, SamePast, ParasInv, ClockOK
<1>2. u = idle \/ u = v \/ u = due \/ u = switched
      \/ (u = note_past_code(switched, rep) /\ at # 0 /\ at <= rp)
  BY Zenon DEF note_new_head, IsDue
<1>3. /\ nf \in [ParaIds -> Nat] /\ at \in Nat
      /\ \A p \in ParaIds : nf[p] = IF p = id THEN 0 ELSE v.futureAt[p]
  BY <1>1 DEF StorageOK
<1>4. /\ idle = [f \in ParasFields |-> idle[f]] /\ idle.futureAt = v.futureAt
      /\ SamePast(v, idle) /\ SameLives(v, idle) /\ idle.votes = v.votes
  BY <1>1, Zenon DEF StorageOK, SamePast, SameLives, ParasFields
<1>5. /\ due = [f \in ParasFields |-> due[f]] /\ due.futureAt = nf
      /\ SamePast(v, due) /\ SameLives(v, due) /\ due.votes = v.votes
  BY <1>1, Zenon DEF StorageOK, SamePast, SameLives, ParasFields
<1>. HIDE DEF due, nf
<1>6. /\ switched = [f \in ParasFields |-> switched[f]] /\ switched.futureAt = nf
      /\ SamePast(v, switched) /\ SameLives(v, switched) /\ switched.votes = v.votes
  BY <1>5, Zenon DEF SamePast, SameLives, ParasFields
<1>. HIDE DEF idle, switched, at, u
<1>7. ASSUME NEW w, w = [f \in ParasFields |-> w[f]],
             w.futureAt = nf \/ w.futureAt = v.futureAt,
             SamePast(v, w), SameLives(v, w), w.votes = v.votes
      PROVE  Good(w)
  <2>1. StorageOK(w) /\ PastOK(w, now, now)
    BY <1>1, <1>3, <1>7, Zenon DEF StorageOK, SamePast, SameLives, PastOK
  <2>2. LifeInv(w, session)
    BY <1>1, <1>7, LivesKept, Zenon DEF Joined
  <2>3. \A p \in ParaIds : w.futureAt[p] # 0 => w.futureAt[p] = v.futureAt[p]
    BY <1>3, <1>7
  <2>4. FutureOK(w)
    BY <1>1, <1>7, <2>3, Zenon DEF FutureOK, SamePast
  <2>. QED  BY <1>1, <1>7, <2>1, <2>2, <2>4 DEF SamePast
<1>8. Good(v) /\ Good(idle) /\ Good(due) /\ Good(switched)
  <2>1. SamePast(v, v) /\ SameLives(v, v) /\ v = [f \in ParasFields |-> v[f]]
    BY <1>1, Zenon DEF SamePast, SameLives, StorageOK
  <2>. HIDE DEF Good
  <2>. QED  BY <1>4, <1>5, <1>6, <1>7, <2>1, Zenon
<1>9. ASSUME u = note_past_code(switched, rep), at # 0, at <= rp
      PROVE  Good(u)
  <2>. DEFINE b == now
              d == now
  <2>1. /\ b \in Nat /\ d \in Nat /\ b <= d /\ PastOK(switched, b, now) /\ StorageOK(switched) /\ ClockOK
    BY <1>1, <1>8
  <2>2. \A y \in rep : y.id = id /\ y.at = at
    OBVIOUS
  <2>a. \A y \in rep : y.id \in ParaIds /\ y.at \in Nat /\ y.at < d
    BY <1>1, <1>3, <1>9
  <2>b. \A y, z \in rep : y.id = z.id => y = z
    OBVIOUS
  <2>3. \A x \in v.meta : x.id = id => x.expected_at < at
    BY <1>1, <1>9, Zenon DEF FutureOK, at
  <2>4. \A y \in rep, x \in switched.meta : x.id = y.id => x.expected_at < y.at
    BY <1>6, <2>2, <2>3 DEF SamePast
  <2>. HIDE DEF rep, b, d
  <2>5. /\ StorageOK(u) /\ SameLives(switched, u) /\ PastOK(u, d, now)
        /\ u.futureAt = switched.futureAt /\ u.votes = switched.votes
        /\ switched.past \subseteq u.past
        /\ \A x \in u.meta : x \in switched.meta \/
              \E y \in rep : x.id = y.id /\ x.expected_at = y.at
    <3>. DEFINE n == note_past_code(switched, rep)
    <3>1. /\ StorageOK(n) /\ SameLives(switched, n) /\ PastOK(n, d, now)
          /\ n.futureAt = switched.futureAt /\ n.votes = switched.votes
          /\ switched.past \subseteq n.past
          /\ \A x \in n.meta : x \in switched.meta \/
                \E y \in rep : x.id = y.id /\ x.expected_at = y.at
      BY <2>1, <2>a, <2>b, <2>4, NoteEffect, SMTT(60)
    <3>. QED  BY <1>9, <3>1, Zenon
  <2>6. LifeInv(u, session)
    BY <1>8, <2>5, LivesKept, Zenon DEF Joined
  <2>7. FutureOK(u)
    <3>1. ASSUME NEW p \in ParaIds, u.futureAt[p] # 0, NEW x \in u.meta, x.id = p
          PROVE  x.expected_at < u.futureAt[p]
      <4>1. p # id
        BY <1>3, <1>6, <2>5, <3>1
      <4>2. x \in switched.meta
        BY <2>2, <2>5, <3>1, <4>1
      <4>. QED  BY <1>8, <2>5, <3>1, <4>2, Zenon DEF FutureOK
    <3>. QED  BY <3>1, Zenon DEF FutureOK
  <2>. QED  BY <1>8, <2>5, <2>6, <2>7 DEF d
<1>10. Good(u)
  <2>. HIDE DEF Good
  <2>. QED  BY <1>2, <1>8, <1>9, Zenon
<1>. QED  BY <1>10 DEF u

\* enact_candidate: the announced code is scheduled, then the head is noted.
LEMMA EnactKeeps ==
    ASSUME MaxFacts, ParasInv, NEW id \in ParaIds, enact_candidate(id)
    PROVE  CallKeeps
<1>. DEFINE rp == pending[id].relay_parent
            code == pending[id].code
            v == IF code = None THEN s ELSE schedule_code_upgrade(s, id, code, rp)
            u == note_new_head(v, id, rp)
<1>1. /\ now \in Nat /\ now <= MaxBlock + 1 /\ MaxBlock \in Nat
      /\ now' = now /\ session' = session /\ s' = u /\ pending[id] # None
      /\ pending' = [pending EXCEPT ![id] = None]
      /\ pending = [p \in ParaIds |-> pending[p]]
  BY ParasAssumption DEF enact_candidate, ParasInv, ClockOK, PendingOK
<1>2. rp \in Nat /\ rp < now /\ code \in Codes \cup {None}
  BY <1>1 DEF ParasInv, PendingOK
<1>3. rp \in 0 .. MaxBlock
  BY <1>1, <1>2
<1>4. Fits(s)
  <2>1. Neutral(s, s)
    BY Zenon DEF Neutral, ParasInv, SamePast, SameLives
  <2>. QED  BY <2>1, NeutralFits
<1>. HIDE DEF rp, code, u
<1>5. Fits(v)
  <2>1. CASE code = None
    BY <1>4, <2>1
  <2>2. CASE code # None
    <3>1. v = schedule_code_upgrade(s, id, code, rp) /\ code \in Codes
      BY <1>2, <2>2
    <3>. HIDE DEF v
    <3>. QED  BY <1>3, <3>1, UpgradeFits
  <2>. QED  BY <2>1, <2>2
<1>. HIDE DEF v
<1>6. /\ StorageOK(u) /\ PastOK(u, now, now) /\ FutureOK(u) /\ LifeInv(u, session)
      /\ s.past \subseteq u.past
  BY <1>2, <1>5, HeadEffect DEF u
<1>7. PendingOK'
  <2>1. /\ pending' = [p \in ParaIds |-> pending'[p]]
        /\ \A p \in ParaIds : pending'[p] = IF p = id THEN None ELSE pending[p]
    BY <1>1
  <2>. QED  BY <1>1, <2>1 DEF PendingOK, ParasInv
<1>8. ClockOK'
  BY <1>1, Zenon DEF ParasInv, ClockOK
<1>9. StorageOK(s') /\ LifeInv(s', session') /\ PastOK(s', now', now') /\ FutureOK(s')
      /\ s.past \subseteq s'.past
  BY <1>1, <1>6, Zenon
<1>. QED  BY <1>7, <1>8, <1>9 DEF CallKeeps, ParasInv

\* The end of a block and the beginning of the next one (Initialized): the code that is
\* due is forgotten, nothing else that the theorems are about changes.
LEMMA InitializedEffect ==
    ASSUME ClockOK, NEW t, StorageOK(t), PastOK(t, now + 1, now), FutureOK(t)
    PROVE  LET u == Initialized(t)
           IN  /\ StorageOK(u) /\ PastOK(u, now + 1, now + 1) /\ FutureOK(u)
               /\ SameLives(t, u) /\ u.votes = t.votes
               /\ \A x \in t.past : x \notin u.past =>
                     \E y \in t.meta : /\ y.id = x.id /\ y.expected_at = x.at
                                       /\ y.activated_at + CodeRetention < now + 1
<1>. DEFINE v == prune_old_code(t, now + 1)
            b == now + 1
            w == process_scheduled_upgrade_changes(v, b)
<1>0. b \in Nat /\ b = now + 1
  BY DEF ClockOK
<1>. HIDE DEF b
<1>1. /\ StorageOK(v) /\ SameLives(t, v) /\ PastOK(v, b, now + 1)
      /\ v.futureAt = t.futureAt /\ v.votes = t.votes
      /\ v.meta \subseteq t.meta
      /\ \A x \in t.past : x \notin v.past =>
            \E y \in t.meta : /\ y.id = x.id /\ y.expected_at = x.at
                              /\ y.activated_at + CodeRetention < now + 1
  BY <1>0, PruneEffect
<1>. HIDE DEF v
<1>2. Neutral(v, w)
  BY <1>1, TimersNeutral, Zenon
<1>3. w = Initialized(t)
  BY DEF Initialized, v, b
<1>. HIDE DEF w
<1>4. StorageOK(w) /\ SameLives(t, w) /\ w.votes = t.votes
  BY <1>1, <1>2, Zenon DEF Neutral, SameLives
<1>5. PastOK(w, now + 1, now + 1)
  BY <1>0, <1>1, <1>2, ZenonT(40) DEF Neutral, SamePast, PastOK
<1>6. FutureOK(w)
  <2>1. w.futureAt = t.futureAt /\ \A x \in w.meta : x \in t.meta
    BY <1>1, <1>2 DEF Neutral, SamePast
  <2>. QED  BY <2>1, Zenon DEF FutureOK
<1>7. w.past = v.past
  BY <1>2 DEF Neutral, SamePast
<1>. QED  BY <1>1, <1>3, <1>4, <1>5, <1>6, <1>7, Zenon

\* What a step may forget.
Remembers ==
    \A x \in s.past : x \notin s'.past =>
        \E y \in s.meta : /\ y.id = x.id /\ y.expected_at = x.at
                          /\ y.activated_at + CodeRetention < now'

\* The next block is within the bounds, and the candidates that wait still are of a block
\* before it; a session change drops them.
LEMMA NextBlock ==
    ASSUME ParasInv, now < MaxBlock, now' = now + 1,
           \/ session' = session /\ pending' = pending
           \/ /\ session < MaxSession /\ session' = session + 1
              /\ pending' = [p \in ParaIds |-> None]
    PROVE  ClockOK' /\ PendingOK'
<1>1. ClockOK'
  BY ParasAssumption DEF ParasInv, ClockOK
<1>2. ASSUME pending' = pending  PROVE PendingOK'
  <2>1. pending = [p \in ParaIds |-> pending[p]]
    BY DEF ParasInv, PendingOK
  <2>2. ASSUME NEW p \in ParaIds, pending[p] # None
        PROVE  /\ pending[p].relay_parent \in Nat /\ pending[p].relay_parent < now'
               /\ pending[p].code \in Codes \cup {None}
    BY <2>2 DEF ParasInv, ClockOK, PendingOK
  <2>. QED  BY <1>2, <2>1, <2>2, Zenon DEF PendingOK
<1>3. ASSUME pending' = [p \in ParaIds |-> None]  PROVE PendingOK'
  BY <1>3, Zenon DEF PendingOK
<1>. QED  BY <1>1, <1>2, <1>3

\* The restrictions that are over are lifted at the end of a block.
LEMMA CooledDown ==
    ASSUME ParasInv, NEW t, t = process_scheduled_upgrade_cooldowns(s)
    PROVE  /\ StorageOK(t) /\ SamePast(s, t) /\ SameLives(s, t) /\ t.votes = s.votes
           /\ PastOK(t, now, now) /\ FutureOK(t) /\ LifeInv(t, session)
<1>1. Neutral(s, t)
  BY TimersNeutral, Zenon DEF ParasInv
<1>2. Fits(t)
  BY <1>1, NeutralFits
<1>. QED  BY <1>1, <1>2, FitsFuture, Zenon DEF Fits, Neutral

\* A later block is after more blocks.
LEMMA PastLater ==
    ASSUME ClockOK, NEW t, StorageOK(t), PastOK(t, now, now)
    PROVE  PastOK(t, now + 1, now)
<1>1. \A x \in t.meta : x.expected_at < now + 1
  BY SMTT(30), MetaFields DEF ClockOK, StorageOK, PastOK
<1>. QED  BY <1>1, Zenon DEF PastOK

\* A block in the same session.
LEMMA NewBlockKeeps ==
    ASSUME ParasInv, new_block
    PROVE  ParasInv' /\ Remembers
<1>. DEFINE t == process_scheduled_upgrade_cooldowns(s)
            u == Initialized(t)
<1>1. /\ now < MaxBlock /\ now' = now + 1 /\ session' = session /\ pending' = pending
      /\ s' = u /\ ClockOK
  BY DEF new_block, ParasInv
<1>2. /\ StorageOK(t) /\ SamePast(s, t)
      /\ PastOK(t, now, now) /\ FutureOK(t) /\ LifeInv(t, session)
  BY CooledDown, Zenon
<1>. HIDE DEF t
<1>3. PastOK(t, now + 1, now)
  BY <1>1, <1>2, PastLater
<1>4. /\ StorageOK(u) /\ PastOK(u, now + 1, now + 1) /\ FutureOK(u)
      /\ SameLives(t, u) /\ u.votes = t.votes
      /\ \A x \in t.past : x \notin u.past =>
            \E y \in t.meta : /\ y.id = x.id /\ y.expected_at = x.at
                              /\ y.activated_at + CodeRetention < now + 1
  BY <1>1, <1>2, <1>3, InitializedEffect, Zenon
<1>. HIDE DEF u
<1>5. LifeInv(u, session)
  BY <1>2, <1>4, LivesKept, Zenon DEF Joined
<1>6. ClockOK' /\ PendingOK'
  BY <1>1, NextBlock
<1>7. StorageOK(s') /\ LifeInv(s', session') /\ PastOK(s', now', now') /\ FutureOK(s')
  BY <1>1, <1>4, <1>5, Zenon
<1>8. Remembers
  BY <1>1, <1>2, <1>4, Zenon DEF Remembers, SamePast
<1>. QED  BY <1>6, <1>7, <1>8 DEF ParasInv

\* A block that begins a session (initializer_on_new_session): the queue of the session
\* is applied, old votes are rejected.
LEMMA NewSessionKeeps ==
    ASSUME ParasInv, initializer_on_new_session
    PROVE  ParasInv' /\ Remembers
<1>. DEFINE t == process_scheduled_upgrade_cooldowns(s)
            m == session + 1
            v == apply_actions_queue(t, m)
            w == groom_ongoing_pvf_votes(v)
            u == Initialized(w)
<1>1. /\ now < MaxBlock /\ now' = now + 1 /\ session' = m /\ s' = u /\ ClockOK
      /\ session < MaxSession /\ pending' = [p \in ParaIds |-> None]
  BY DEF initializer_on_new_session, ParasInv
<1>2. /\ m \in Sessions /\ m \in 0 .. MaxSession /\ m = session + 1
      /\ session \in 0 .. MaxSession - 1 /\ now \in Nat
  BY <1>1, ParasAssumption DEF ClockOK, Sessions, SESSION_DELAY
<1>3. /\ StorageOK(t) /\ SamePast(s, t)
      /\ PastOK(t, now, now) /\ FutureOK(t) /\ LifeInv(t, session)
  BY CooledDown, Zenon
<1>. HIDE DEF t, m
<1>4. /\ StorageOK(v) /\ PastOK(v, now + 1, now) /\ FutureOK(v)
      /\ Moved(t, v, m)
      /\ t.past \subseteq v.past
      /\ \A x \in v.meta : x \in t.meta \/ x.expected_at = now
  BY <1>1, <1>2, <1>3, ApplyEffect, Zenon
<1>. HIDE DEF v
<1>5. LifeInv(v, m)
  BY <1>2, <1>3, <1>4, MovedLives
<1>6. /\ StorageOK(w) /\ SamePast(v, w)
      /\ \E codes \in SUBSET Codes : Undone(v, w, codes)
  BY <1>4, GroomEffect, Zenon
<1>. HIDE DEF w
<1>7. PICK codes \in SUBSET Codes : Undone(v, w, codes)
  BY <1>6
<1>8. LifeInv(w, m)
  BY <1>2, <1>4, <1>5, <1>6, <1>7, UndoneLives
<1>9. PastOK(w, now + 1, now) /\ FutureOK(w)
  BY <1>4, <1>6, <1>7, Zenon DEF PastOK, FutureOK, SamePast, Undone
<1>10. /\ StorageOK(u) /\ PastOK(u, now + 1, now + 1) /\ FutureOK(u)
       /\ SameLives(w, u) /\ u.votes = w.votes
       /\ \A x \in w.past : x \notin u.past =>
             \E y \in w.meta : /\ y.id = x.id /\ y.expected_at = x.at
                               /\ y.activated_at + CodeRetention < now + 1
  BY <1>1, <1>6, <1>9, InitializedEffect, Zenon
<1>. HIDE DEF u
<1>11. LifeInv(u, m)
  BY <1>8, <1>10, LivesKept, Zenon DEF Joined
<1>12. ClockOK' /\ PendingOK'
  BY <1>1, NextBlock DEF m
<1>13. StorageOK(s') /\ LifeInv(s', session') /\ PastOK(s', now', now') /\ FutureOK(s')
  BY <1>1, <1>10, <1>11, Zenon
<1>14. ASSUME NEW x \in s.past, x \notin s'.past
       PROVE  \E y \in s.meta : /\ y.id = x.id /\ y.expected_at = x.at
                                /\ y.activated_at + CodeRetention < now'
  <2>1. x \in w.past /\ x \notin u.past
    BY <1>1, <1>3, <1>4, <1>6, <1>14 DEF SamePast
  <2>2. PICK y \in w.meta : /\ y.id = x.id /\ y.expected_at = x.at
                            /\ y.activated_at + CodeRetention < now + 1
    BY <1>10, <2>1, Zenon
  <2>3. PICK z \in s.meta : z.id = x.id /\ z.expected_at = x.at
    BY Zenon DEF ParasInv, PastOK
  <2>4. z.expected_at \in Nat /\ z.expected_at < now
    BY MetaFields DEF ParasInv, StorageOK, PastOK
  <2>5. y \in s.meta
    BY <1>2, <1>3, <1>4, <1>6, <2>2, <2>3, <2>4, SMTT(60) DEF SamePast
  <2>. QED  BY <1>1, <2>2, <2>5
<1>15. Remembers
  BY <1>14 DEF Remembers
<1>. QED  BY <1>12, <1>13, <1>15 DEF ParasInv

\* The genesis satisfies the invariant.
LEMMA ParasGenesis ==
    ASSUME ParasInit
    PROVE  ParasInv
<1>1. PICK born \in SUBSET ParaIds :
        s = [life |-> [p \in ParaIds |-> IF p \in born THEN "Parachain" ELSE None],
             parachains |-> born,
             genesis |-> [p \in ParaIds |-> None],
             actions |-> [n \in 0 .. MaxSession + SESSION_DELAY |-> {}],
             current |-> [p \in ParaIds |-> IF p \in born THEN GenesisCode ELSE None],
             future |-> [p \in ParaIds |-> None],
             futureAt |-> [p \in ParaIds |-> 0],
             goAhead |-> [p \in ParaIds |-> None],
             restricted |-> {}, cooldowns |-> {}, upcoming |-> {},
             past |-> {}, meta |-> {}, pruning |-> {},
             refs |-> [c \in Codes |-> IF c = GenesisCode THEN Cardinality(born) ELSE 0],
             stored |-> IF born = {} THEN {} ELSE {GenesisCode},
             votes |-> [c \in Codes |-> NoVote]]
  BY Zenon DEF ParasInit
<1>2. ClockOK /\ PendingOK
  <2>1. now = 1 /\ session = 0 /\ pending = [p \in ParaIds |-> None]
    BY Zenon DEF ParasInit
  <2>2. ClockOK
    BY <2>1, ParasAssumption DEF ClockOK
  <2>3. PendingOK
    BY <2>1, Zenon DEF PendingOK
  <2>. QED  BY <2>2, <2>3
<1>3. /\ s = [f \in ParasFields |-> s[f]]
      /\ s.life = [p \in ParaIds |-> IF p \in born THEN "Parachain" ELSE None]
      /\ s.parachains = born /\ s.genesis = [p \in ParaIds |-> None]
      /\ s.actions = [n \in 0 .. MaxSession + SESSION_DELAY |-> {}]
      /\ s.futureAt = [p \in ParaIds |-> 0] /\ s.past = {} /\ s.meta = {}
      /\ s.votes = [c \in Codes |-> NoVote]
  BY <1>1, Zenon DEF ParasFields
<1>4. StorageOK(s)
  <2>1. s.futureAt \in [ParaIds -> Nat] /\ s.parachains \in SUBSET ParaIds
        /\ s.meta \in SUBSET Metas
    <3>1. s.futureAt = [p \in ParaIds |-> 0] /\ s.parachains = born /\ s.meta = {}
      BY <1>3, Zenon
    <3>2. [p \in ParaIds |-> 0] \in [ParaIds -> Nat]
      OBVIOUS
    <3>. QED  BY <3>1, <3>2, Zenon
  <2>4. s.life \in [ParaIds -> Lives \cup {None}]
    <3>1. "Parachain" \in Lives \cup {None} /\ None \in Lives \cup {None}
      BY DEF Lives
    <3>. QED  BY <1>3, <3>1
  <2>2. /\ s.genesis \in [ParaIds -> Kinds \cup {None}]
        /\ s.actions \in [Sessions -> SUBSET ParaIds]
    BY <1>3 DEF Kinds, Sessions
  <2>3. s.votes \in [Codes -> Votes]
    BY <1>3, VoteFields
  <2>. QED  BY <1>3, <2>1, <2>2, <2>3, <2>4, Zenon DEF StorageOK
<1>5. PastOK(s, now, now) /\ FutureOK(s)
  BY ZenonT(30), <1>3 DEF PastOK, FutureOK
<1>6. LifeInv(s, session)
  <2>1. \A c \in Codes : Joined(s, c) = {}
    BY <1>3, VoteFields DEF Joined, IdsOf, Onboardings
  <2>2. \A n \in Sessions : s.actions[n] = {}
    BY ZenonT(30), <1>3 DEF Sessions
  <2>3. /\ is_parachain("Parachain") /\ ~is_parachain(None) /\ ~InTransition(None)
        /\ ~InTransition("Parachain") /\ "Parachain" # "Onboarding" /\ None # "Onboarding"
    BY ParasAssumption DEF is_parachain, InTransition, is_stable
  <2>4. \A p \in ParaIds : s.life[p] = IF p \in born THEN "Parachain" ELSE None
    BY <1>3
  <2>5. s.parachains = {p \in ParaIds : is_parachain(s.life[p])}
    BY <1>3, <2>3, <2>4
  <2>6. \A p \in ParaIds : ~InTransition(s.life[p]) /\ s.life[p] # "Onboarding"
    BY <2>3, <2>4
  <2>. QED  BY <2>1, <2>2, <2>5, <2>6 DEF LifeInv
<1>. QED  BY <1>2, <1>4, <1>5, <1>6 DEF ParasInv

\* Every step keeps the invariant and forgets only what is due.
LEMMA ParasStep ==
    ASSUME MaxFacts, ParasInv, [ParasNext]_parasVars
    PROVE  ParasInv' /\ Remembers
<1>1. CallKeeps => ParasInv' /\ Remembers
  BY DEF CallKeeps, Remembers
<1>2. CASE UNCHANGED parasVars
  <2>1. now' = now /\ session' = session /\ s' = s /\ pending' = pending
    BY <1>2 DEF parasVars
  <2>2. ClockOK' /\ PendingOK'
    BY <2>1, Zenon DEF ParasInv, ClockOK, PendingOK
  <2>3. StorageOK(s') /\ LifeInv(s', session') /\ PastOK(s', now', now') /\ FutureOK(s')
    BY <2>1, Zenon DEF ParasInv
  <2>. QED  BY <2>1, <2>2, <2>3 DEF ParasInv, Remembers
<1>3. ASSUME NEW id \in ParaIds, ParaCall(id)  PROVE CallKeeps
  BY <1>3, InitializeKeeps, ScheduleKeeps, Zenon DEF ParaCall, Kinds
<1>4. ASSUME NEW code \in Codes, RootCall(code)  PROVE CallKeeps
  BY <1>4, RootCallKeeps
<1>5. ASSUME NEW v \in Validators, NEW code \in Codes, NEW accept \in BOOLEAN,
             include_pvf_check_statement(v, code, accept)
      PROVE  CallKeeps
  BY <1>5, StatementKeeps, Zenon
<1>6. ASSUME NEW id \in ParaIds, NEW code \in Codes \cup {None}, accept_candidate(id, code)
      PROVE  CallKeeps
  BY <1>6, AcceptKeeps
<1>7. ASSUME NEW id \in ParaIds, enact_candidate(id)  PROVE CallKeeps
  BY <1>7, EnactKeeps
<1>8. CASE new_block
  BY <1>8, NewBlockKeeps
<1>9. CASE initializer_on_new_session
  BY <1>9, NewSessionKeeps
<1>. QED  BY <1>1, <1>2, <1>3, <1>4, <1>5, <1>6, <1>7, <1>8, <1>9, Zenon DEF ParasNext

-----------------------------------------------------------------------------
(* The theorems. *)

INSTANCE WellFoundedInduction

\* A set of naturals that is not empty has a least element: for the last of the upgrades
\* that a vote is about.
LEMMA Least ==
    ASSUME NEW S, S # {}, S \subseteq Nat
    PROVE  \E m \in S : \A n \in S : m <= n
<1>1. PICK m \in S : \A n \in S : <<n, m>> \notin OpToRel(<, Nat)
  BY Zenon, WFMin, NatLessThanWellFounded
<1>2. \A n \in S : ~(n < m)
  BY Zenon, <1>1 DEF OpToRel
<1>. QED  BY <1>2

\* The relay parents of the upgrades that wait for a vote are bounded, so that one of them
\* is the last.
LEMMA LatestParent ==
    ASSUME NEW S, S # {}, S \subseteq 0 .. MaxBlock
    PROVE  Max(S) \in Nat
<1>. DEFINE T == {n \in Nat : \E x \in S : n = MaxBlock - x}
<1>0. MaxBlock \in Nat
  BY ParasAssumption
<1>1. T # {} /\ T \subseteq Nat
  <2>1. PICK x : x \in S
    OBVIOUS
  <2>2. MaxBlock - x \in Nat
    BY <1>0, <2>1
  <2>. QED  BY <2>1, <2>2
<1>2. PICK m \in T : \A n \in T : m <= n
  BY ZenonT(30), <1>1, Least
<1>3. PICK x \in S : m = MaxBlock - x
  BY <1>2
<1>4. \A y \in S : x >= y
  <2>. TAKE y \in S
  <2>1. MaxBlock - y \in T
    BY <1>0
  <2>. HIDE DEF T
  <2>2. m <= MaxBlock - y
    BY <1>2, <2>1
  <2>. QED  BY <1>0, <1>3, <2>2
<1>5. Max(S) \in S
  BY ZenonT(30), <1>4 DEF Max
<1>6. \A y \in S : y \in Nat
  BY <1>0
<1>. QED  BY <1>5, <1>6, Zenon

\* The last of the upgrades that a vote on accepted code is about (enact_pvf_accepted) has
\* a relay parent.
LEMMA MaxFactsHold == MaxFacts
  BY LatestParent, Zenon DEF MaxFacts

\* The invariant of the pallet holds throughout: calls, votes, candidates, blocks and
\* sessions keep what is known of lives, queues, promises and replaced code.
THEOREM ParasInvariant == ParasSpec => []ParasInv
<1>1. ParasInit => ParasInv
  BY ParasGenesis
<1>2. ParasInv /\ [ParasNext]_parasVars => ParasInv'
  BY MaxFactsHold, ParasStep
<1>. QED  BY <1>1, <1>2, PTL DEF ParasSpec

\* Replaced code is gone once the retention period is over, and its metadata, its hashes
\* and the tasks to prune it agree: for all paras, codes, delays and retention periods.
THEOREM OldCodeIsPruned == ParasSpec => []PastCodePruned
<1>1. ParasInv => PastCodePruned
  <2>. SUFFICES ASSUME PastOK(s, now, now) PROVE PastCodePruned
    BY Zenon DEF ParasInv
  <2>1. /\ \A x \in s.meta : x.activated_at + CodeRetention >= now
        /\ \A x \in s.meta : <<x.id, x.activated_at>> \in s.pruning
    BY Zenon DEF PastOK
  <2>2. /\ \A x \in s.past : \E y \in s.meta : y.id = x.id /\ y.expected_at = x.at
        /\ \A y \in s.meta : \E x \in s.past : x.id = y.id /\ x.at = y.expected_at
    BY Zenon DEF PastOK
  <2>3. {<<x.id, x.at>> : x \in s.past} = {<<x.id, x.expected_at>> : x \in s.meta}
    BY <2>2, SMTT(30)
  <2>. QED  BY <2>1, <2>3, Zenon DEF PastCodePruned
<1>. QED  BY <1>1, ParasInvariant, PTL

\* No code goes before its retention period is over: for all paras, codes, delays and
\* retention periods.
THEOREM PastCodeIsKept == ParasSpec => PastCodeNotForgotten
<1>1. ParasInv /\ [ParasNext]_parasVars =>
        [\A x \in s.past : x \notin s'.past =>
          \E y \in s.meta : /\ y.id = x.id /\ y.expected_at = x.at
                            /\ y.activated_at + CodeRetention < now']_parasVars
  BY MaxFactsHold, ParasStep DEF Remembers
<1>. QED  BY <1>1, ParasInvariant, PTL DEF ParasSpec, PastCodeNotForgotten

\* A para in transition is always on its way, to a session that is at most two ahead or to
\* a vote, and the parachains are those whose life cycle says so: no transition is lost
\* and no core is given for good to a para that left.
THEOREM TransitionsAreQueued == ParasSpec => []TransitionsTakeEffect
<1>1. ParasInv => TransitionsTakeEffect
  <2>. SUFFICES ASSUME ParasInv PROVE TransitionsTakeEffect
    OBVIOUS
  <2>1. \A c \in Codes, p \in ParaIds : p \in Joined(s, c) =>
          \E x \in s.votes[c].causes : x.kind = "Onboarding" /\ x.id = p
    BY DEF Joined, IdsOf, Onboardings
  <2>2. /\ s.parachains = {p \in ParaIds : is_parachain(s.life[p])}
        /\ \A p \in ParaIds : InTransition(s.life[p]) =>
              \/ \E n \in session + 1 .. session + SESSION_DELAY : p \in s.actions[n]
              \/ \E c \in Codes : p \in Joined(s, c)
    BY DEF ParasInv, LifeInv
  <2>3. ASSUME NEW p \in ParaIds, s.life[p] # None, ~is_stable(s.life[p])
        PROVE  \/ \E n \in session + 1 .. session + SESSION_DELAY : p \in s.actions[n]
               \/ \E c \in Codes : \E x \in s.votes[c].causes :
                     x.kind = "Onboarding" /\ x.id = p
    BY <2>1, <2>2, <2>3, Zenon DEF InTransition
  <2>. QED  BY <2>2, <2>3 DEF TransitionsTakeEffect
<1>. QED  BY <1>1, ParasInvariant, PTL
=============================================================================

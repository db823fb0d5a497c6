-------------------------- MODULE StandaloneProofs --------------------------
(***************************************************************************)
(* Theorems about the parts that share no state with the rest: the lock of *)
(* fetch_remote_info (OcwFetch), for any number of workers and restarts    *)
(* and all timeouts with a lock that outlasts the request; the list of     *)
(* numbers of the same pallet (OcwNumbers), for every length of the list;  *)
(* and the Ethereum contract (VehicleManagement), for every set of         *)
(* accounts and hashes and every bound on the counters.                    *)
(***************************************************************************)
EXTENDS OcwFetch, OcwNumbers, VehicleManagement, TLAPS

-----------------------------------------------------------------------------
(* The lock of fetch_remote_info. *)

\* Without a lock taken from a run that reads, one run fetches; and while it
\* waits for its response, its lock has more time left than its request.
LockInv ==
    ~overtaken =>
        /\ \A r, s \in Runs : Fetching(r) /\ Fetching(s) => r = s
        /\ \A r \in Runs : pc[r] = "waiting" => lock # NoLock /\ lock.time > left[r]

FetchInv == TypeOK /\ LockInv

\* Before any worker runs there is no lock and no request.
LEMMA FetchInit == Init => FetchInv
<1>. SUFFICES ASSUME Init PROVE FetchInv
  OBVIOUS
<1>1. TypeOK
  <2>1. 0 \in 0 .. TX_TYPES - 1 /\ 0 \in 0 .. MaxAge /\ 0 \in 0 .. FetchTimeout
        /\ 0 \in 0 .. MaxCrashes
    BY OcwFetchAssumption DEF TX_TYPES
  <2>. QED  BY <2>1, Zenon DEF Init, TypeOK
<1>2. LockInv
  BY DEF Init, LockInv, Fetching
<1>. QED  BY <1>1, <1>2 DEF FetchInv

\* A worker that starts (offchain_worker, fetch_remote_info) holds nothing yet.
LEMMA StartRunStep ==
    ASSUME FetchInv, NEW r \in Runs, StartRun(r)
    PROVE  FetchInv'
<1>1. TypeOK'
  BY OcwFetchAssumption DEF FetchInv, TypeOK, StartRun
<1>2. \A s \in Runs : Fetching(s)' => Fetching(s)
  BY DEF FetchInv, TypeOK, StartRun, Fetching
<1>3. \A s \in Runs : pc'[s] = "waiting" => pc[s] = "waiting"
  BY DEF FetchInv, TypeOK, StartRun
<1>4. LockInv'
  BY <1>2, <1>3 DEF FetchInv, LockInv, StartRun
<1>. QED  BY <1>1, <1>4 DEF FetchInv

\* While a run waits, its lock is there and has not expired: nobody else gets it.
LEMMA TryLockStep ==
    ASSUME FetchInv, NEW r \in Runs, TryLock(r)
    PROVE  FetchInv'
<1>1. CASE /\ lock # NoLock => Expired(r)
           /\ lock' = NewLock(r)
           /\ pc' = [pc EXCEPT ![r] = "waiting"]
           /\ left' = [left EXCEPT ![r] = FetchTimeout]
           /\ overtaken' = (overtaken \/ \E o \in Runs : pc[o] = "reading")
  <2>1. age[r] \in 0 .. MaxAge
    BY DEF FetchInv, TypeOK
  <2>2. NewLock(r) \in Locks /\ NewLock(r).time = LockTimeout
    BY <2>1, OcwFetchAssumption DEF NewLock, Locks
  <2>3. TypeOK'
    <3>1. lock' \in Locks \cup {NoLock} /\ overtaken' \in BOOLEAN
      BY <1>1, <2>2
    <3>2. /\ pc' \in [Runs -> {"idle", "checked", "waiting", "reading"}]
          /\ left' \in [Runs -> 0 .. FetchTimeout]
      BY <1>1, OcwFetchAssumption DEF FetchInv, TypeOK
    <3>. QED  BY <3>1, <3>2 DEF FetchInv, TypeOK, TryLock
  <2>4. ASSUME ~overtaken' PROVE \A o \in Runs : ~Fetching(o)
    <3>. SUFFICES ASSUME NEW o \in Runs, Fetching(o) PROVE FALSE
      BY Zenon
    <3>1. ~overtaken /\ pc[o] = "waiting"
      BY Zenon, <1>1, <2>4 DEF Fetching
    <3>2. lock # NoLock /\ lock.time > left[o]
      BY <3>1 DEF FetchInv, LockInv
    <3>3. lock.time \in Int /\ left[o] \in Nat
      BY <3>2, OcwFetchAssumption DEF FetchInv, TypeOK, Locks
    <3>. QED  BY <1>1, <3>2, <3>3 DEF Expired
  <2>5. LockInv'
    <3>. SUFFICES ASSUME ~overtaken'
         PROVE  /\ \A s, o \in Runs : Fetching(s)' /\ Fetching(o)' => s = o
                /\ \A s \in Runs : pc'[s] = "waiting" =>
                      lock' # NoLock /\ lock'.time > left'[s]
      BY DEF LockInv
    <3>1. \A o \in Runs : Fetching(o)' => o = r
      BY <1>1, <2>4 DEF FetchInv, TypeOK, Fetching
    <3>2. \A s \in Runs : pc'[s] = "waiting" => s = r
      BY <3>1 DEF Fetching
    <3>3. lock' # NoLock /\ lock'.time > left'[r]
      BY <1>1, <2>2, NoLockAssumption, OcwFetchAssumption DEF FetchInv, TypeOK
    <3>. QED  BY <3>1, <3>2, <3>3
  <2>. QED  BY <2>3, <2>5 DEF FetchInv
<1>2. CASE /\ lock # NoLock /\ ~Expired(r)
           /\ pc' = [pc EXCEPT ![r] = "idle"]
           /\ UNCHANGED <<left, lock, overtaken>>
  <2>1. TypeOK'
    BY <1>2 DEF FetchInv, TypeOK, TryLock
  <2>2. \A s \in Runs : (Fetching(s)' => Fetching(s))
                        /\ (pc'[s] = "waiting" => pc[s] = "waiting")
    BY <1>2 DEF FetchInv, TypeOK, Fetching
  <2>3. LockInv'
    BY <1>2, <2>2 DEF FetchInv, LockInv
  <2>. QED  BY <2>1, <2>3 DEF FetchInv
<1>. QED  BY <1>1, <1>2 DEF TryLock

\* A run that fetched returns: no other run waits, so that the lock it drops is
\* its own, or has been taken over already.
LEMMA DropGuardStep ==
    ASSUME FetchInv, NEW r \in Runs, Fetching(r), DropGuard(r),
           cached' \in BOOLEAN, UNCHANGED <<phase, age, left, crashes, overtaken>>
    PROVE  FetchInv'
<1>1. TypeOK'
  BY DEF FetchInv, TypeOK, DropGuard
<1>2. ASSUME ~overtaken PROVE \A s \in Runs : ~Fetching(s)' /\ pc'[s] # "waiting"
  BY <1>2 DEF FetchInv, TypeOK, LockInv, DropGuard, Fetching
<1>3. LockInv'
  BY <1>2 DEF LockInv
<1>. QED  BY <1>1, <1>3 DEF FetchInv

\* A response that arrives takes its run from waiting to reading; the lock stays.
LEMMA RespondStep ==
    ASSUME FetchInv, NEW r \in Runs, Respond(r)
    PROVE  FetchInv'
<1>1. TypeOK'
  BY DEF FetchInv, TypeOK, Respond
<1>2. \A s \in Runs : (Fetching(s)' => Fetching(s)) /\ (pc'[s] = "waiting" => pc[s] = "waiting")
  BY DEF FetchInv, TypeOK, Respond, Fetching
<1>3. LockInv'
  BY <1>2 DEF FetchInv, LockInv, Respond
<1>. QED  BY <1>1, <1>3 DEF FetchInv

\* The lock and the request that waits run down together.
LEMMA TickStep ==
    ASSUME FetchInv, Tick
    PROVE  FetchInv'
<1>1. left' \in [Runs -> 0 .. FetchTimeout]
  BY OcwFetchAssumption DEF FetchInv, TypeOK, Tick
<1>2. ASSUME lock # NoLock
      PROVE  lock' \in Locks /\ (lock.time > 0 => lock'.time = lock.time - 1)
  <2>1. lock \in Locks
    BY <1>2 DEF FetchInv, TypeOK
  <2>2. lock' = [lock EXCEPT !.time = CountDown(lock.time, -1)]
    BY <1>2 DEF Tick
  <2>3. lock.time \in -1 .. LockTimeout
    BY <2>1 DEF Locks
  <2>4. CountDown(lock.time, -1) \in -1 .. LockTimeout
        /\ (lock.time > 0 => CountDown(lock.time, -1) = lock.time - 1)
    BY <2>3, OcwFetchAssumption DEF CountDown
  <2>. QED  BY <2>1, <2>2, <2>4 DEF Locks
<1>3. TypeOK'
  <2>1. lock' \in Locks \cup {NoLock}
    BY <1>2 DEF Tick
  <2>. QED  BY <1>1, <2>1 DEF FetchInv, TypeOK, Tick
<1>4. LockInv'
  <2>. SUFFICES ASSUME ~overtaken'
       PROVE  /\ \A r, s \in Runs : Fetching(r)' /\ Fetching(s)' => r = s
              /\ \A r \in Runs : pc'[r] = "waiting" => lock' # NoLock /\ lock'.time > left'[r]
    BY DEF LockInv
  <2>1. ~overtaken /\ pc' = pc
    BY DEF Tick
  <2>2. \A r, s \in Runs : Fetching(r)' /\ Fetching(s)' => r = s
    BY <2>1 DEF FetchInv, LockInv, Fetching
  <2>3. ASSUME NEW r \in Runs, pc[r] = "waiting"
        PROVE  lock' # NoLock /\ lock'.time > left'[r]
    <3>1. lock # NoLock /\ lock.time > left[r] /\ left[r] > 0 /\ left'[r] = left[r] - 1
      BY <2>1, <2>3 DEF FetchInv, LockInv, Tick
    <3>2. left[r] \in Nat /\ lock.time \in Int
      BY <3>1, OcwFetchAssumption DEF FetchInv, TypeOK, Locks
    <3>3. lock' \in Locks /\ lock'.time = lock.time - 1
      BY <1>2, <3>1, <3>2
    <3>. QED  BY <3>1, <3>2, <3>3, NoLockAssumption
  <2>. QED  BY <2>1, <2>2, <2>3
<1>. QED  BY <1>3, <1>4 DEF FetchInv

\* A new block shortens the block half of the lock's deadline only: BlockAndTime expires
\* when both halves have.
LEMMA NewBlockStep ==
    ASSUME FetchInv, NewBlock
    PROVE  FetchInv'
<1>1. ASSUME lock # NoLock PROVE lock' \in Locks /\ lock'.time = lock.time
  <2>1. lock \in Locks
    BY <1>1 DEF FetchInv, TypeOK
  <2>2. lock' = [lock EXCEPT !.blocks = CountDown(lock.blocks, -(MaxAge + 1))]
    BY <1>1 DEF NewBlock
  <2>3. lock.blocks \in -(MaxAge + 1) .. LockBlocks
    BY <2>1 DEF Locks
  <2>4. CountDown(lock.blocks, -(MaxAge + 1)) \in -(MaxAge + 1) .. LockBlocks
    BY <2>3, OcwFetchAssumption DEF CountDown
  <2>. QED  BY <2>1, <2>2, <2>4 DEF Locks
<1>2. age' \in [Runs -> 0 .. MaxAge]
  BY OcwFetchAssumption DEF FetchInv, TypeOK, NewBlock
<1>3. phase' \in 0 .. TX_TYPES - 1
  BY DEF FetchInv, TypeOK, NewBlock, TX_TYPES
<1>4. TypeOK'
  <2>1. lock' \in Locks \cup {NoLock}
    BY <1>1 DEF NewBlock
  <2>. QED  BY <1>2, <1>3, <2>1 DEF FetchInv, TypeOK, NewBlock
<1>5. LockInv'
  BY <1>1, NoLockAssumption DEF FetchInv, LockInv, NewBlock, Fetching
<1>. QED  BY <1>4, <1>5 DEF FetchInv

\* Every step keeps the invariant.
LEMMA FetchStep == FetchInv /\ [Next]_vars => FetchInv'
<1>. SUFFICES ASSUME FetchInv, [Next]_vars PROVE FetchInv'
  OBVIOUS
<1>1. ASSUME NEW r \in Runs, FetchError(r) \/ ReadBody(r) \/ ReadError(r) PROVE FetchInv'
  <2>1. cached \in BOOLEAN
    BY DEF FetchInv, TypeOK
  <2>2. Fetching(r) /\ DropGuard(r) /\ cached' \in BOOLEAN
        /\ UNCHANGED <<phase, age, left, crashes, overtaken>>
    BY Zenon, <1>1, <2>1 DEF FetchError, ReadBody, ReadError, Fetching
  <2>. QED  BY <2>2, DropGuardStep
<1>2. CASE Crash
  <2>1. TypeOK'
    BY <1>2, OcwFetchAssumption DEF FetchInv, TypeOK, Crash
  <2>2. LockInv'
    BY <1>2 DEF LockInv, Crash, Fetching
  <2>. QED  BY <2>1, <2>2 DEF FetchInv
<1>3. CASE UNCHANGED vars
  BY <1>3 DEF vars, FetchInv, TypeOK, LockInv, Fetching
<1>. QED  BY <1>1, <1>2, <1>3, StartRunStep, TryLockStep, RespondStep, TickStep,
             NewBlockStep DEF Next

\* The invariant holds throughout.
LEMMA FetchInvHolds == Spec => []FetchInv
  BY FetchInit, FetchStep, PTL DEF Spec

\* However many workers run for however many blocks, and wherever the node is
\* restarted: one run of fetch_remote_info (ocw_ipfs_file_status) fetches at a
\* time, unless a lock was taken over from a run that was reading a body.
THEOREM OneRunFetches == Spec => []OneFetch
<1>1. FetchInv => OneFetch
  BY DEF FetchInv, LockInv, OneFetch
<1>. QED  BY <1>1, FetchInvHolds, PTL

\* A run that waits for its response never loses its lock, for all timeouts with
\* LOCK_TIMEOUT_EXPIRATION above FETCH_TIMEOUT_PERIOD.
THEOREM LockOutlives == Spec => []LockOutlivesRequest
<1>1. FetchInv => LockOutlivesRequest
  <2>. SUFFICES ASSUME FetchInv, ~overtaken, NEW r \in Runs, pc[r] = "waiting"
       PROVE  /\ lock # NoLock /\ lock.time > left[r]
              /\ \A s \in Runs : ~Expired(s)
    BY DEF LockOutlivesRequest
  <2>1. lock # NoLock /\ lock.time > left[r]
    BY DEF FetchInv, LockInv
  <2>2. left[r] \in Nat /\ lock.time \in Int
    BY <2>1, OcwFetchAssumption DEF FetchInv, TypeOK, Locks
  <2>. QED  BY <2>1, <2>2 DEF Expired
<1>. QED  BY <1>1, FetchInvHolds, PTL

-----------------------------------------------------------------------------
(* The list of numbers. *)

\* append_or_replace_number keeps the list equal to the end of the history: the
\* list grows until it has NUM_VEC_LEN numbers and then drops its head.
LEMMA AppendKeepsLatest ==
    ASSUME OcwNumbersAssumption, NumbersTypeOK, NumbersAreTheLatest,
           NEW number \in Nat, append_or_replace_number(number)
    PROVE  /\ Numbers' \in Seq(Nat) /\ submitted' \in Seq(Nat)
           /\ NumbersAreTheLatest'
<1> USE DEF OcwNumbersAssumption, NumbersTypeOK, append_or_replace_number, Reached
<1> DEFINE L == Len(Numbers)
           S == Len(submitted)
           kept == IF L = NUM_VEC_LEN THEN Tail(Numbers) ELSE Numbers
           cut == IF L = NUM_VEC_LEN THEN 1 ELSE 0
<1>1. L \in Nat /\ S \in Nat /\ L <= S /\ L <= NUM_VEC_LEN
  BY DEF NumbersAreTheLatest
<1>2. kept \in Seq(Nat) /\ Len(kept) = L - cut
  BY <1>1
<1>3. \A i \in 1 .. Len(kept) : kept[i] = Numbers[i + cut]
  BY SMTT(30), <1>1
<1>4. Numbers' = Append(kept, number) /\ submitted' = Append(submitted, number)
  OBVIOUS
<1> HIDE DEF kept
<1>5. Numbers' \in Seq(Nat) /\ submitted' \in Seq(Nat)
  BY <1>2, <1>4
<1>6. Len(Numbers') = L - cut + 1 /\ Len(submitted') = S + 1
  BY <1>2, <1>4
<1>7. Len(Numbers') = IF Len(submitted') < NUM_VEC_LEN THEN Len(submitted') ELSE NUM_VEC_LEN
  BY <1>1, <1>6 DEF NumbersAreTheLatest
<1>8. ASSUME NEW i \in 1 .. Len(Numbers')
      PROVE  Numbers'[i] = submitted'[Len(submitted') - Len(Numbers') + i]
  <2>0. /\ i \in Int /\ cut \in Int /\ L \in Int /\ S \in Int
        /\ 0 <= cut /\ cut <= 1 /\ 1 <= i /\ i <= L - cut + 1 /\ L <= S
    BY <1>1, <1>6
  <2> HIDE DEF L, S, cut, NumbersTypeOK, append_or_replace_number, Reached, OcwNumbersAssumption
  <2>1. Len(submitted') - Len(Numbers') + i = (S - L) + (i + cut)
    BY <1>6, <2>0
  <2>2. CASE i = Len(Numbers')
    <3>1. Numbers'[i] = number
      BY <1>2, <1>4, <1>6, <2>2
    <3>2. submitted'[S + 1] = number
      BY <1>4 DEF S, NumbersTypeOK
    <3>3. (S - L) + (i + cut) = S + 1
      BY <1>6, <2>0, <2>2
    <3>4. QED BY <2>1, <3>1, <3>2, <3>3
  <2>3. CASE i # Len(Numbers')
    <3>1. i \in 1 .. Len(kept) /\ i + cut \in 1 .. L
      BY <1>2, <1>6, <2>0, <2>3
    <3>2. Numbers'[i] = Numbers[i + cut]
      BY SMTT(30), <1>2, <1>3, <1>4, <3>1
    <3>3. Numbers[i + cut] = submitted[(S - L) + (i + cut)]
      BY SMTT(30), <3>1 DEF NumbersAreTheLatest, L, S
    <3>4. (S - L) + (i + cut) \in 1 .. S
      BY <2>0, <3>1
    <3>5. submitted'[(S - L) + (i + cut)] = submitted[(S - L) + (i + cut)]
      BY <1>4, <3>4 DEF S, NumbersTypeOK
    <3>6. QED BY <2>1, <3>2, <3>3, <3>5
  <2>4. QED BY <2>2, <2>3
<1>9. QED BY Zenon, <1>5, <1>7, <1>8 DEF NumbersAreTheLatest

\* The list is exactly the last NUM_VEC_LEN numbers submitted by the three calls
\* of the pallet.
THEOREM ListIsTheLatest ==
    ASSUME OcwNumbersAssumption
    PROVE  NumbersSpec => []NumbersAreTheLatest
<1> DEFINE Inv == NumbersTypeOK /\ NumbersAreTheLatest
<1>1. NumbersInit => Inv
  <2> SUFFICES ASSUME NumbersInit PROVE Inv
    OBVIOUS
  <2>1. Numbers = <<>> /\ submitted = <<>>
    BY DEF NumbersInit
  <2>2. NumbersTypeOK
    BY DEF NumbersInit, NumbersTypeOK, NoCall
  <2>3. NumbersAreTheLatest
    BY <2>1 DEF NumbersAreTheLatest, OcwNumbersAssumption
  <2>4. QED BY <2>2, <2>3
<1>2. Inv /\ [NumbersNext]_numbersVars => Inv'
  <2> SUFFICES ASSUME Inv, [NumbersNext]_numbersVars PROVE Inv'
    OBVIOUS
  <2>1. ASSUME NEW n \in Nat, submit_number_signed(n) PROVE Inv'
    BY <2>1, AppendKeepsLatest DEF submit_number_signed, NumbersTypeOK
  <2>2. ASSUME NEW k \in UnsignedKinds, submit_number_unsigned(k) PROVE Inv'
    <3>1. pool[k].number \in Nat
      BY DEF NumbersTypeOK
    <3>2. Numbers' \in Seq(Nat) /\ submitted' \in Seq(Nat) /\ NumbersAreTheLatest'
      BY <2>2, <3>1, AppendKeepsLatest DEF submit_number_unsigned
    <3>3. QED BY <2>2, <3>2 DEF submit_number_unsigned, NumbersTypeOK, NoCall
  <2>3. ASSUME NEW k \in UnsignedKinds, NEW n \in Nat, validate_unsigned(k, n) PROVE Inv'
    <3>1. NumbersTypeOK'
      BY <2>3 DEF validate_unsigned, NumbersTypeOK, OcwNumbersAssumption
    <3>2. NumbersAreTheLatest'
      BY <2>3 DEF validate_unsigned, NumbersAreTheLatest
    <3>3. QED BY <3>1, <3>2
  <2>4. CASE NumbersNewBlock
    <3>1. NumbersTypeOK'
      BY <2>4 DEF NumbersNewBlock, NumbersTypeOK, NoCall
    <3>2. NumbersAreTheLatest'
      BY <2>4 DEF NumbersNewBlock, NumbersAreTheLatest
    <3>3. QED BY <3>1, <3>2
  <2>5. CASE UNCHANGED numbersVars
    BY Zenon, <2>5 DEF numbersVars, NumbersTypeOK, NumbersAreTheLatest
  <2>6. block \in Nat /\ 0 .. MaxBlock \subseteq Nat
    BY DEF NumbersTypeOK, OcwNumbersAssumption
  <2>7. QED
    BY <2>1, <2>2, <2>3, <2>4, <2>5, <2>6 DEF NumbersNext, offchain_worker, UnsignedKinds
<1>3. QED BY <1>1, <1>2, PTL DEF NumbersSpec

-----------------------------------------------------------------------------
(* The contract. *)

\* What makes ContractProvenance inductive: the admin is one of the admins,
\* and a registered vehicle has a registrar that was allowed to register it.
RegistryInv ==
    /\ admin \in admins
    /\ \A v \in Addresses : vehicles[v] # ZeroAddress => vehicles[v] \in factories \cup admins

\* The invariant of the contract.
ContractInv == ContractTypeOK /\ RegistryInv /\ ContractProvenance /\ NothingBeyondCount

\* The deployed contract satisfies the invariant.
LEMMA ContractInitInv ==
    ASSUME ContractAssumption
    PROVE  ContractInit => ContractInv
BY ContractAssumption
   DEF ContractAssumption, ContractInit, ContractInv, ContractTypeOK, RegistryInv,
       ContractProvenance, NothingBeyondCount, Addresses, AccidentKeys, Indices, getAccidentData

\* Every call keeps it.
LEMMA ContractNextInv ==
    ASSUME ContractAssumption
    PROVE  ContractInv /\ [ContractNext]_contractVars => ContractInv'
<1> SUFFICES ASSUME ContractInv, [ContractNext]_contractVars PROVE ContractInv'
  OBVIOUS
<1> USE ContractAssumption
    DEF ContractAssumption, ContractInv, ContractTypeOK, RegistryInv, ContractProvenance,
        NothingBeyondCount,
        isVehicle, getAccidentData
<1>1. ASSUME NEW s \in Senders, NEW f \in Addresses, contract_create_factory(s, f)
      PROVE  ContractInv'
  BY <1>1 DEF contract_create_factory, logVars
<1>2. ASSUME NEW s \in Senders, NEW v \in Addresses, contract_create_vehicle(s, v)
      PROVE  ContractInv'
  BY <1>2 DEF contract_create_vehicle, MayCreateVehicle, logVars, Addresses
<1>3. ASSUME NEW s \in Senders, NEW v \in Addresses, contract_init_vehicle(s, v)
      PROVE  ContractInv'
  BY <1>3 DEF contract_init_vehicle, logVars
<1>4. ASSUME NEW v \in Addresses, NEW d \in Hashes \cup {ZeroHash},
             contract_report_accident(v, d)
      PROVE  ContractInv'
  <2> USE <1>4 DEF contract_report_accident, registryVars
  <2>1. accident_key(v) \in AccidentKeys
    BY DEF accident_key, AccidentKeys, Indices
  <2>2. ContractTypeOK' /\ RegistryInv'
    BY <2>1
  <2>3. ContractProvenance'
    OBVIOUS
  <2>4. NothingBeyondCount'
    <3> SUFFICES ASSUME NEW w \in Addresses, NEW i \in Indices, i >= accidentCount'[w]
                 PROVE  accidents'[<<w, i>>] = ZeroHash
      OBVIOUS
    <3>1. <<w, i>> \in AccidentKeys /\ i \in Int /\ accidentCount[w] \in Int
      BY DEF AccidentKeys, Indices
    <3>2. i >= accidentCount[w] /\ <<w, i>> # accident_key(v)
      BY <3>1 DEF accident_key
    <3>3. QED BY <2>1, <3>1, <3>2
  <2>5. QED BY <2>2, <2>3, <2>4
<1>5. ASSUME NEW s \in Senders, NEW a \in Addresses, changeAdmin(s, a)
      PROVE  ContractInv'
  BY <1>5 DEF changeAdmin, logVars
<1>6. CASE UNCHANGED contractVars
  BY <1>6 DEF contractVars
<1>7. QED BY <1>1, <1>2, <1>3, <1>4, <1>5, <1>6 DEF ContractNext

\* The invariant holds throughout.
LEMMA ContractAlwaysInv ==
    ASSUME ContractAssumption
    PROVE  ContractSpec => []ContractInv
<1>1. QED BY ContractInitInv, ContractNextInv, PTL DEF ContractSpec

\* Accidents belong to active vehicles whose registrar was a factory or an
\* admin: report_accident, init_vehicle and create_vehicle together.
THEOREM ContractHasProvenance ==
    ASSUME ContractAssumption
    PROVE  ContractSpec => []ContractProvenance
<1>1. ContractInv => ContractProvenance
  BY DEF ContractInv
<1>2. QED BY <1>1, ContractAlwaysInv, PTL

\* No accident is stored at or beyond the counter of report_accident.
THEOREM ContractStoresBelowCount ==
    ASSUME ContractAssumption
    PROVE  ContractSpec => []NothingBeyondCount
<1>1. ContractInv => NothingBeyondCount
  BY DEF ContractInv
<1>2. QED BY <1>1, ContractAlwaysInv, PTL

-----------------------------------------------------------------------------
(* Refinement. *)

\* A report appends to the register, every other call leaves it alone.
LEMMA ContractStepRefines ==
    ASSUME ContractAssumption
    PROVE  ContractInv /\ [ContractNext]_contractVars
        => [Register!RegisterNext]_(Register!registerVars)
<1> SUFFICES ASSUME ContractInv, [ContractNext]_contractVars
             PROVE  [Register!RegisterNext]_(Register!registerVars)
  OBVIOUS
<1>1. ASSUME UNCHANGED logVars PROVE UNCHANGED Register!registerVars
  BY <1>1 DEF logVars, Register!registerVars, RecordedAccidents
<1>2. ASSUME NEW v \in Addresses, NEW d \in Hashes \cup {ZeroHash},
             contract_report_accident(v, d)
      PROVE  Register!RegisterNext
  <2> DEFINE c == accidentCount[v]
  <2>1. c \in Indices /\ c \in Nat
    BY <1>2, ContractAssumption
       DEF ContractAssumption, contract_report_accident, ContractInv, ContractTypeOK, Indices
  <2>2. \A k \in AccidentKeys : k[1] \in Addresses /\ k[2] \in Indices /\ k = <<k[1], k[2]>>
    BY DEF AccidentKeys
  <2>3. <<v, c>> \in AccidentKeys /\ RecordedAccidents[<<v, c>>] = None
    BY <2>1 DEF AccidentKeys, RecordedAccidents, Indices
  <2>4. \A j \in Indices : j < c => RecordedAccidents[<<v, j>>] # None
    BY ContractAssumption
       DEF ContractAssumption, RecordedAccidents, AccidentKeys, ContractInv, ContractTypeOK
  <2>5. RecordedAccidents' = [RecordedAccidents EXCEPT ![<<v, c>>] = d]
    <3>1. SUFFICES ASSUME NEW k \in AccidentKeys
                   PROVE  RecordedAccidents'[k] = [RecordedAccidents EXCEPT ![<<v, c>>] = d][k]
      BY Zenon DEF RecordedAccidents
    <3>2. RecordedAccidents[k] = IF k[2] < accidentCount[k[1]] THEN accidents[k] ELSE None
      BY DEF RecordedAccidents
    <3>3. RecordedAccidents'[k] = IF k[2] < accidentCount'[k[1]] THEN accidents'[k] ELSE None
      BY DEF RecordedAccidents
    <3>4. /\ accidents' = [accidents EXCEPT ![<<v, c>>] = d]
          /\ accidentCount' = [accidentCount EXCEPT ![v] = c + 1]
      BY <1>2 DEF contract_report_accident, accident_key
    <3>5. /\ accidents \in [AccidentKeys -> Hashes \cup {ZeroHash}]
          /\ accidentCount \in [Addresses -> 0 .. MaxCount]
      BY DEF ContractInv, ContractTypeOK
    <3>6. CASE k = <<v, c>>
      <4>1. accidents'[k] = d /\ accidentCount'[k[1]] = c + 1 /\ k[2] = c
        BY <3>4, <3>5, <3>6, <2>3
      <4>2. RecordedAccidents'[k] = d
        BY <4>1, <3>3, <2>1
      <4>3. QED BY <4>2, <3>6, <2>3 DEF RecordedAccidents
    <3>7. CASE k # <<v, c>>
      <4>1. accidents'[k] = accidents[k]
        BY <3>4, <3>5, <3>7
      <4>2. k[1] # v => accidentCount'[k[1]] = accidentCount[k[1]]
        BY <3>4, <3>5, <2>2
      <4>3. k[1] = v => k[2] # c /\ (k[2] < c + 1 <=> k[2] < c)
        BY <3>7, <2>1, <2>2 DEF Indices
      <4>4. k[1] = v => accidentCount'[k[1]] = c + 1
        BY <3>4, <3>5
      <4>5. RecordedAccidents'[k] = RecordedAccidents[k]
        BY <3>2, <3>3, <4>1, <4>2, <4>3, <4>4
      <4>6. QED BY <4>5, <3>7 DEF RecordedAccidents
    <3>8. QED BY <3>6, <3>7
  <2>6. Register!Record(v, c, d)
    BY <2>3, <2>4, <2>5 DEF Register!Record
  <2>7. QED BY <2>1, <2>6 DEF Register!RegisterNext
<1>3. QED
  BY <1>1, <1>2
     DEF ContractNext, contract_create_factory, contract_create_vehicle,
         contract_init_vehicle, changeAdmin, contractVars, logVars

\* The contract implements the abstract register of accidents, like the
\* pallets: the log grows index by index and nothing in it is rewritten.
THEOREM ContractImplementsRegister ==
    ASSUME ContractAssumption
    PROVE  ContractSpec => ContractRefinesRegister
<1>1. ContractInit => Register!RegisterInit
  <2> SUFFICES ASSUME ContractInit PROVE Register!RegisterInit
    OBVIOUS
  <2>1. RecordedAccidents = [k \in Addresses \X Indices |-> None]
    BY DEF ContractInit, RecordedAccidents, AccidentKeys, Indices
  <2>2. QED BY <2>1 DEF Register!RegisterInit
<1>2. QED
  BY <1>1, ContractStepRefines, ContractAlwaysInv, PTL
     DEF ContractSpec, ContractRefinesRegister, Register!RegisterSpec
=============================================================================

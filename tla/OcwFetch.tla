------------------------------ MODULE OcwFetch ------------------------------
(***************************************************************************)
(* fetch_remote_info of the pallet ocw_ipfs_file_status: offchain workers  *)
(* of one node fetch a remote document once and cache it in the node's     *)
(* persistent local storage, guarded by a StorageLock that expires.        *)
(*                                                                         *)
(* A worker runs for a block, in parallel with the workers of other blocks *)
(* and of the same block (re-orgs).  Time and blocks are relative: what is *)
(* left until a deadline is counted down, so that nothing grows.           *)
(***************************************************************************)
EXTENDS Integers

CONSTANTS
    Runs,           \* identities of the workers that may run at one time
    FetchTimeout,   \* FETCH_TIMEOUT_PERIOD in units of Tick: 3
    LockTimeout,    \* LOCK_TIMEOUT_EXPIRATION: 4
    LockBlocks,     \* LOCK_BLOCK_EXPIRATION: 3
    MaxAge,         \* bound: blocks that pass before a run reaches its lock
    MaxCrashes,     \* bound: restarts of the node
    NoLock          \* the absent storage entry of the lock

ASSUME OcwFetchAssumption ==
    /\ FetchTimeout \in Nat
    /\ LockTimeout \in Nat /\ LockTimeout > FetchTimeout
    /\ LockBlocks \in Nat
    /\ MaxAge \in Nat
    /\ MaxCrashes \in Nat

TX_TYPES == 4

VARIABLES
    phase,      \* number of the best block modulo TX_TYPES
    pc,         \* run -> "idle", "checked", "waiting" or "reading"
    age,        \* run -> blocks imported since its own block
    left,       \* run -> time left until the deadline of its request
    lock,       \* NoLock, or time and blocks left until the lock's deadline
    cached,     \* is the document in local storage?
    crashes,    \* restarts so far
    overtaken   \* history: a lock was taken from a run that read its body

vars == <<phase, pc, age, left, lock, cached, crashes, overtaken>>

Locks == [time : -1 .. LockTimeout, blocks : -(MaxAge + 1) .. LockBlocks]

ASSUME NoLockAssumption == NoLock \notin Locks

\* Type invariant.
TypeOK ==
    /\ phase \in 0 .. TX_TYPES - 1
    /\ pc \in [Runs -> {"idle", "checked", "waiting", "reading"}]
    /\ age \in [Runs -> 0 .. MaxAge]
    /\ left \in [Runs -> 0 .. FetchTimeout]
    /\ lock \in Locks \cup {NoLock}
    /\ cached \in BOOLEAN
    /\ crashes \in 0 .. MaxCrashes
    /\ overtaken \in BOOLEAN

Init ==
    /\ phase = 0
    /\ pc = [r \in Runs |-> "idle"]
    /\ age = [r \in Runs |-> 0]
    /\ left = [r \in Runs |-> 0]
    /\ lock = NoLock
    /\ cached = FALSE
    /\ crashes = 0
    /\ overtaken = FALSE

Fetching(r) == pc[r] \in {"waiting", "reading"}
-----------------------------------------------------------------------------
\* The worker of a block with number 3 modulo 4 starts and looks for the
\* cached document; with it, the run is over.
StartRun(r) ==
    /\ pc[r] = "idle"
    /\ phase = 3
    /\ pc' = [pc EXCEPT ![r] = IF cached THEN "idle" ELSE "checked"]
    /\ age' = [age EXCEPT ![r] = 0]
    /\ UNCHANGED <<phase, left, lock, cached, crashes, overtaken>>

\* Mutant: the lock expires on the block number alone.
ExpiredByBlock(r) == lock.blocks + age[r] < 0

\* Mutant: a lock never expires.
NeverExpired(r) == FALSE

\* BlockAndTime::has_expired, for a run at its own block: both deadlines
\* have passed.
Expired(r) == lock.time < 0 /\ lock.blocks + age[r] < 0

\* Mutant: the time of the lock is shorter than that of the request.
ShortLock(r) == [time |-> FetchTimeout - 1, blocks |-> LockBlocks - age[r]]

\* with_block_and_time_deadline, at the moment of try_lock.
NewLock(r) == [time |-> LockTimeout, blocks |-> LockBlocks - age[r]]

\* try_lock, then the request is sent; if the lock is held, the run is over.
TryLock(r) ==
    /\ pc[r] = "checked"
    /\ \/ /\ lock # NoLock => Expired(r)
          /\ lock' = NewLock(r)
          /\ pc' = [pc EXCEPT ![r] = "waiting"]
          /\ left' = [left EXCEPT ![r] = FetchTimeout]
          /\ overtaken' = (overtaken \/ \E o \in Runs : pc[o] = "reading")
       \/ /\ lock # NoLock /\ ~Expired(r)
          /\ pc' = [pc EXCEPT ![r] = "idle"]
          /\ UNCHANGED <<left, lock, overtaken>>
    /\ UNCHANGED <<phase, age, cached, crashes>>

\* The lock guard is dropped when the run returns: the entry is cleared,
\* whoever wrote it.
DropGuard(r) == pc' = [pc EXCEPT ![r] = "idle"] /\ lock' = NoLock

\* fetch_from_remote fails: the request, the deadline, or a status not 200.
FetchError(r) ==
    /\ pc[r] = "waiting"
    /\ DropGuard(r)
    /\ UNCHANGED <<phase, age, left, cached, crashes, overtaken>>

\* A response with status 200 before the deadline; its body is still to be
\* read, and for that there is no deadline.
Respond(r) ==
    /\ pc[r] = "waiting"
    /\ pc' = [pc EXCEPT ![r] = "reading"]
    /\ UNCHANGED <<phase, age, left, lock, cached, crashes, overtaken>>

\* The body is complete, parses, and is cached.
ReadBody(r) ==
    /\ pc[r] = "reading"
    /\ cached' = TRUE
    /\ DropGuard(r)
    /\ UNCHANGED <<phase, age, left, crashes, overtaken>>

\* The body is cut short or does not parse.
ReadError(r) ==
    /\ pc[r] = "reading"
    /\ DropGuard(r)
    /\ UNCHANGED <<phase, age, left, cached, crashes, overtaken>>
-----------------------------------------------------------------------------
CountDown(n, floor) == IF n > floor THEN n - 1 ELSE floor

\* A second passes.  The host ends a request at its deadline.
Tick ==
    /\ \A r \in Runs : pc[r] = "waiting" => left[r] > 0
    /\ left' = [r \in Runs |-> IF pc[r] = "waiting" THEN left[r] - 1 ELSE left[r]]
    /\ lock' = IF lock = NoLock THEN NoLock
               ELSE [lock EXCEPT !.time = CountDown(@, -1)]
    /\ UNCHANGED <<phase, pc, age, cached, crashes, overtaken>>

\* A new best block.
NewBlock ==
    /\ \A r \in Runs : pc[r] = "checked" => age[r] < MaxAge
    /\ phase' = (phase + 1) % TX_TYPES
    /\ age' = [r \in Runs |-> IF pc[r] = "checked" THEN age[r] + 1 ELSE age[r]]
    /\ lock' = IF lock = NoLock THEN NoLock
               ELSE [lock EXCEPT !.blocks = CountDown(@, -(MaxAge + 1))]
    /\ UNCHANGED <<pc, left, cached, crashes, overtaken>>

\* The node is restarted: the runs are gone, local storage is persistent.
Crash ==
    /\ crashes < MaxCrashes
    /\ crashes' = crashes + 1
    /\ pc' = [r \in Runs |-> "idle"]
    /\ UNCHANGED <<phase, age, left, lock, cached, overtaken>>

Next ==
    \/ \E r \in Runs : StartRun(r)
    \/ \E r \in Runs : TryLock(r)
    \/ \E r \in Runs : FetchError(r)
    \/ \E r \in Runs : Respond(r)
    \/ \E r \in Runs : ReadBody(r)
    \/ \E r \in Runs : ReadError(r)
    \/ Tick
    \/ NewBlock
    \/ Crash

Spec == Init /\ [][Next]_vars

\* Time passes, blocks are imported, a run goes on once it started.  The
\* worker runs for some of the blocks it may run for, and the remote side
\* sometimes answers with the document.
Fairness ==
    /\ WF_vars(Tick)
    /\ WF_vars(NewBlock)
    /\ \A r \in Runs :
          /\ SF_vars(StartRun(r))
          /\ WF_vars(TryLock(r))
          /\ SF_vars(Respond(r))
          /\ WF_vars(FetchError(r) \/ Respond(r))
          /\ WF_vars(ReadBody(r) \/ ReadError(r))
          /\ SF_vars(ReadBody(r))

FairSpec == Spec /\ Fairness
-----------------------------------------------------------------------------
\* At most one run fetches, as long as no lock was taken over from a run that
\* was still reading a body: the check, the lock and the guard that drops it
\* keep the runs of one block and of later blocks apart, through errors,
\* timeouts and restarts.
OneFetch ==
    ~overtaken =>
        \A r, s \in Runs : Fetching(r) /\ Fetching(s) => r = s

\* The lock outlives the request it guards: LOCK_TIMEOUT_EXPIRATION is
\* FETCH_TIMEOUT_PERIOD and a second, so a run that waits for its response
\* cannot lose its lock, at whatever moment later runs come and look; only a
\* run that reads a body without deadline can.
LockOutlivesRequest ==
    ~overtaken =>
        \A r \in Runs : pc[r] = "waiting" =>
            /\ lock # NoLock
            /\ lock.time > left[r]
            /\ \A s \in Runs : ~Expired(s)

\* The comment on fetch_remote_info, "Check if we have fetched the data
\* before. If yes, we can use the cached version [...] If not, we fetch the
\* remote info": no run starts to fetch when the document is cached.
NoFetchWhenCached ==
    [][\A r \in Runs : pc[r] = "checked" /\ pc'[r] = "waiting" => ~cached]_vars

\* The comment on try_lock, "If failed, we know the fetch_n_parse part
\* inside is being executed by previous run of ocw".
LockedMeansFetching ==
    [][\A r \in Runs :
          pc[r] = "checked" /\ pc'[r] = "idle" /\ crashes' = crashes
              => \E s \in Runs : Fetching(s)]_vars

\* The document ends up cached and stays cached: neither a lock left behind
\* by a restart nor one whose holder hangs or failed keeps later runs from
\* fetching.
EventuallyCached == <>[]cached
=============================================================================

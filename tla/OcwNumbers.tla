----------------------------- MODULE OcwNumbers -----------------------------
(***************************************************************************)
(* The on-chain list of the pallet ocw_ipfs_file_status and the ways a     *)
(* number gets there: a signed call, an unsigned call, or an unsigned call *)
(* with a signed payload, sent by the offchain worker or by anyone else.   *)
(* fetch_remote_info, the worker's fourth task, is module OcwFetch.        *)
(***************************************************************************)
EXTENDS Integers, Sequences

CONSTANTS
    NUM_VEC_LEN,    \* length of the list: 10
    Longevity,      \* blocks an unsigned call stays valid: 3
    MaxBlock,       \* bound: block numbers
    MaxSubmitted    \* bound: numbers submitted in all

\* What the theorem about the list assumes.
OcwNumbersAssumption ==
    NUM_VEC_LEN \in Nat \ {0} /\ Longevity \in Nat /\ MaxBlock \in Nat

VARIABLES
    block,      \* number of the best block
    pool,       \* unsigned calls waiting for a block, per kind
    Numbers,    \* the list
    submitted   \* history: every number a call submitted, in order

numbersVars == <<block, pool, Numbers, submitted>>

UnsignedKinds == {"unsigned", "unsigned_with_signed_payload"}
NoCall == [number |-> 0, until |-> -1]

\* Type invariant; a list that only its length bounds.
NumbersTypeOK ==
    /\ block \in Nat
    /\ pool \in [UnsignedKinds -> [number : Nat, until : Int]]
    /\ Numbers \in Seq(Nat)
    /\ submitted \in Seq(Nat)

NumbersInit ==
    /\ block = 0
    /\ pool = [k \in UnsignedKinds |-> NoCall]
    /\ Numbers = <<>>
    /\ submitted = <<>>

\* The list is compared with its bound for equality.
Reached(numbers) == Len(numbers) = NUM_VEC_LEN

append_or_replace_number(number) ==
    /\ Numbers' = Append(IF Reached(Numbers) THEN Tail(Numbers) ELSE Numbers, number)
    /\ submitted' = Append(submitted, number)

\* A signed call, by the worker's key (number of a block, 0 modulo 4) or by
\* any account (any number).
submit_number_signed(number) ==
    /\ append_or_replace_number(number)
    /\ UNCHANGED <<block, pool>>

\* validate_unsigned: calls of one kind provide the same tag, so the pool
\* takes one at a time.  A payload whose signature does not fit is refused.
validate_unsigned(kind, number) ==
    /\ pool[kind] = NoCall
    /\ pool' = [pool EXCEPT ![kind] = [number |-> number, until |-> block + Longevity]]
    /\ UNCHANGED <<block, Numbers, submitted>>

\* submit_number_unsigned and submit_number_unsigned_with_signed_payload.
submit_number_unsigned(kind) ==
    /\ pool[kind] # NoCall
    /\ append_or_replace_number(pool[kind].number)
    /\ pool' = [pool EXCEPT ![kind] = NoCall]
    /\ UNCHANGED block

\* The worker of a block submits the block's number, as the number says.
offchain_worker ==
    LET mux == block % 4 IN
    \/ mux = 0 /\ submit_number_signed(block)
    \/ mux = 1 /\ validate_unsigned("unsigned", block)
    \/ mux = 2 /\ validate_unsigned("unsigned_with_signed_payload", block)

\* The next block: what outlived its longevity leaves the pool.
NumbersNewBlock ==
    /\ block < MaxBlock
    /\ block' = block + 1
    /\ pool' = [k \in UnsignedKinds |->
          IF pool[k].until < block + 1 THEN NoCall ELSE pool[k]]
    /\ UNCHANGED <<Numbers, submitted>>

NumbersNext ==
    \/ /\ Len(submitted) < MaxSubmitted
       /\ \/ offchain_worker
          \/ \E n \in 0 .. MaxBlock : submit_number_signed(n)
          \/ \E k \in UnsignedKinds : submit_number_unsigned(k)
    \/ \E k \in UnsignedKinds, n \in 0 .. MaxBlock : validate_unsigned(k, n)
    \/ NumbersNewBlock

NumbersSpec == NumbersInit /\ [][NumbersNext]_numbersVars
-----------------------------------------------------------------------------
\* "Append a new number to the tail of the list, removing an element from
\* the head if reaching the bounded length": the list is exactly the last
\* NUM_VEC_LEN numbers submitted, so it never outgrows its bound although it
\* is compared with it for equality only, and loses nothing too early.
NumbersAreTheLatest ==
    LET first == Len(submitted) - Len(Numbers) IN
    /\ Len(Numbers) = IF Len(submitted) < NUM_VEC_LEN THEN Len(submitted) ELSE NUM_VEC_LEN
    /\ \A i \in 1 .. Len(Numbers) : Numbers[i] = submitted[first + i]
=============================================================================

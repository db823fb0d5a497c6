-------------------------- MODULE BenchmarkProofs --------------------------
(***************************************************************************)
(* The theorems of the benchmark (Benchmark), for any number of senders,   *)
(* transactions, limits and any kind of transactions.                      *)
(*                                                                         *)
(* The inductive invariant says of each sender where it is: its program    *)
(* counter and its two queues are in one of a few places, the counters of  *)
(* the main script are the numbers of senders past a place, and the work   *)
(* of a sender is split into batches that are counted, open and to come.   *)
(* A step moves one sender from one place to another, so that one lemma    *)
(* (SenderMove) serves all of them.                                        *)
(***************************************************************************)
EXTENDS Benchmark, Integers, TLAPS

\* The messages of a sender that carry no counts, each as the only one in its queue.

InitWorker == <<Msg("init_worker")>>
InitOk == <<Msg("init_ok")>>
PrepareOk == <<Msg("prepare_ok")>>
SendOk == <<Msg("send_ok")>>

\* The statistics and the send_ok of a sender, both still unread.
SendReport(w) == SendStats(w) \o SendOk

\* Where a sender is, from its record w and its two queues m and t.
Starting(w, m, t) ==
    \/ w.pc = "idle" /\ m = InitWorker /\ t = <<>>
    \/ w.pc = "idle" /\ m = <<>> /\ t = <<"init">>
    \/ w.pc = "init" /\ m = <<>> /\ t = <<>>
    \/ w.pc = "idle" /\ m = InitOk /\ t = <<>>
Waiting(w, m, t) == w.pc = "idle" /\ m = <<>> /\ t = <<>>
Preparing(w, m, t) ==
    \/ w.pc = "idle" /\ m = <<>> /\ t = <<"prepare">>
    \/ w.pc = "prepare" /\ m = <<>> /\ t = <<>>
    \/ w.pc = "idle" /\ m = PrepareReport /\ t = <<>>
    \/ w.pc = "idle" /\ m = PrepareOk /\ t = <<>>
Sending(w, m, t) ==
    \/ w.pc = "idle" /\ m = <<>> /\ t = <<"send">>
    \/ w.pc = "send" /\ m = <<>> /\ t = <<>>
    \/ w.pc = "sleep" /\ m = SendStats(w) /\ t = <<>>
    \/ w.pc = "sleep" /\ m = <<>> /\ t = <<>>
    \/ w.pc = "idle" /\ m = SendReport(w) /\ t = <<>>
    \/ w.pc = "idle" /\ m = SendOk /\ t = <<>>
    \/ w.pc = "idle" /\ m = <<>> /\ t = <<"exit">>
Dead(w) == w.pc = "exited" \/ w.pc = "reaped"
Left(w, m, t) ==
    /\ Dead(w) /\ t = <<>>
    /\ \/ m = <<>> \/ m = InitWorker \/ m = InitOk \/ m = PrepareReport
       \/ m = PrepareOk \/ m = SendStats(w) \/ m = SendReport(w) \/ m = SendOk

\* The barriers that are behind: every init_ok, every prepare_ok.
Initialised == main.init_ok = NbProcesses
AllPrepared == main.prepare_ok = NbProcesses

Stage(p) ==
    LET w == worker[p] m == toMain[p] t == toWorker[p] IN
    \/ Starting(w, m, t) \/ Waiting(w, m, t)
    \/ Preparing(w, m, t) /\ Initialised
    \/ Sending(w, m, t) /\ Initialised /\ AllPrepared
    \/ Left(w, m, t)

\* The statistics of a sender are under way.
Reporting(w, m) == m = SendReport(w) \/ m = SendStats(w)

\* What a sender has submitted and counted.
Work(w, m) ==
    /\ IsFiniteSet(w.open)
    /\ w.success + w.failed + BatchSize * Cardinality(w.open) <= w.next
    /\ w.next = 0 \/ w.next < WaitTotal + BatchSize
    /\ Reporting(w, m) => w.success + w.failed >= WaitTotal

\* The senders that have no init_ok, or no prepare_ok, to send any more; that
\* have reported their preparation but not said prepare_ok; that are reaped;
\* that have reported all they sent.
HasInit(w, m, t) == ~Starting(w, m, t) /\ m # InitOk
HasPrepared(w, m, t, i) ==
    /\ ~Starting(w, m, t) /\ ~Preparing(w, m, t) /\ (Waiting(w, m, t) => i)
    /\ m # PrepareReport /\ m # PrepareOk
HasReported(w, m, t) ==
    m = SendOk \/ t = <<"exit">> \/ Dead(w) \/ (w.pc = "sleep" /\ m = <<>>)

InitDone == {p \in Procs : HasInit(worker[p], toMain[p], toWorker[p])}
PrepareDone == {p \in Procs : HasPrepared(worker[p], toMain[p], toWorker[p], Initialised)}
Announced == {p \in Procs : toMain[p] = PrepareOk}
Reaped == {p \in Procs : worker[p].pc = "reaped"}
Reported == {p \in Procs : HasReported(worker[p], toMain[p], toWorker[p])}

Workers == [pc : {"idle", "init", "prepare", "send", "sleep", "exited", "reaped"},
            next : Nat, open : SUBSET Nat, success : Nat, failed : Nat]
Mains == [status : {"running", "crashed", "done"}, init_ok : Nat, prepare_ok : Nat,
          exited : Nat, prepared : Nat, success : Nat, failed : Nat, finished : Nat]

BenchmarkTypeOK ==
    /\ setup \in Setups
    /\ main \in Mains
    /\ worker \in [Procs -> Workers]
    /\ DOMAIN toMain = Procs /\ DOMAIN toWorker = Procs
    /\ failures \in Nat

Senders ==
    \A p \in Procs : /\ Stage(p) /\ Work(worker[p], toMain[p])
                     /\ worker[p].next > 0 => AllPrepared

InitsCounted == main.init_ok <= Cardinality(InitDone)
PreparesCounted == main.prepare_ok <= Cardinality(PrepareDone)
PreparedCounted ==
    main.prepared = Prepared * (main.prepare_ok + Cardinality(Announced))
ExitsCounted ==
    /\ main.exited = Cardinality(Reaped)
    /\ main.status = "done" => main.exited = NbProcesses

\* The statistics of the senders that have reported, when nobody died.
Reports(n, k) ==
    /\ n >= WaitTotal * k
    /\ BatchSize > 0 => n + k <= (WaitTotal + BatchSize) * k
Totals ==
    /\ main.finished = main.success + main.failed
    /\ failures = 0 => /\ \A p \in Procs : Dead(worker[p]) => toMain[p] = <<>>
                       /\ Reports(main.finished, Cardinality(Reported))

BenchmarkInv ==
    /\ BenchmarkTypeOK /\ Senders
    /\ InitsCounted /\ PreparesCounted /\ PreparedCounted /\ ExitsCounted /\ Totals

\* What the proofs need of finite sets; proved at the end, where the library of theorems
\* about them comes in.
SetFacts ==
    /\ \A S : IsFiniteSet(S) => Cardinality(S) \in Nat
    /\ \A S, T : IsFiniteSet(S) /\ T \in SUBSET S =>
          /\ IsFiniteSet(T) /\ Cardinality(T) <= Cardinality(S)
          /\ Cardinality(S) = Cardinality(T) => S = T
    /\ \A S, x : IsFiniteSet(S) =>
          /\ IsFiniteSet(S \cup {x}) /\ IsFiniteSet(S \ {x})
          /\ Cardinality(S \cup {x}) = IF x \in S THEN Cardinality(S) ELSE Cardinality(S) + 1
          /\ Cardinality(S \ {x}) = IF x \in S THEN Cardinality(S) - 1 ELSE Cardinality(S)
    /\ \A a, b \in Int :
          /\ IsFiniteSet(a .. b)
          /\ Cardinality(a .. b) = IF a > b THEN 0 ELSE b - a + 1
    /\ IsFiniteSet({}) /\ Cardinality({}) = 0

-----------------------------------------------------------------------------
(* Numbers of senders, and of batches under way.                           *)

\* The number of elements of a finite set is a natural.
LEMMA CardNat ==
    ASSUME SetFacts, NEW S, IsFiniteSet(S)
    PROVE  Cardinality(S) \in Nat
  BY Zenon DEF SetFacts

\* Some of the senders are finitely many, and fewer unless they are all.
LEMMA SubsetCard ==
    ASSUME SetFacts, NEW S, IsFiniteSet(S), NEW T \in SUBSET S
    PROVE  /\ IsFiniteSet(T) /\ Cardinality(T) <= Cardinality(S)
           /\ Cardinality(S) = Cardinality(T) => S = T
  BY Zenon DEF SetFacts

\* One element more, or one less.
LEMMA CardAdd ==
    ASSUME SetFacts, NEW S, NEW x, IsFiniteSet(S)
    PROVE  /\ IsFiniteSet(S \cup {x})
           /\ Cardinality(S \cup {x}) = IF x \in S THEN Cardinality(S) ELSE Cardinality(S) + 1
  BY Zenon DEF SetFacts

\* A batch that is settled is no longer under way.
LEMMA CardRemove ==
    ASSUME SetFacts, NEW S, NEW x, IsFiniteSet(S)
    PROVE  /\ IsFiniteSet(S \ {x})
           /\ Cardinality(S \ {x}) = IF x \in S THEN Cardinality(S) - 1 ELSE Cardinality(S)
  BY Zenon DEF SetFacts

\* The senders are numbered.
LEMMA IntervalCard ==
    ASSUME SetFacts, NEW a \in Int, NEW b \in Int
    PROVE  /\ IsFiniteSet(a .. b)
           /\ Cardinality(a .. b) = IF a > b THEN 0 ELSE b - a + 1
  BY Zenon DEF SetFacts

\* At first no batch is under way.
LEMMA CardEmpty == SetFacts => IsFiniteSet({}) /\ Cardinality({}) = 0
  BY Zenon DEF SetFacts

-----------------------------------------------------------------------------
(* The numbers of the setup, and the messages.                             *)

\* The shares of a sender are naturals (parseInt of a quotient).
LEMMA SetupNumbers ==
    ASSUME SetFacts, setup \in Setups
    PROVE  /\ NbProcesses \in Nat /\ NbProcesses > 0
           /\ Prepared \in Nat /\ WaitTotal \in Nat /\ BatchSize \in Nat
           /\ IsFiniteSet(Procs) /\ Cardinality(Procs) = NbProcesses
<1>1. /\ NbProcesses \in Nat /\ NbProcesses > 0
      /\ setup.limit \in Nat /\ setup.vehicles \in Nat /\ setup.factories \in Nat
  BY BenchmarkAssumption DEF NbProcesses
<1>2. \A n \in Nat : Share(n) \in Nat
  BY <1>1 DEF Share
<1>3. Prepared \in Nat /\ WaitTotal \in Nat /\ BatchSize \in Nat
  BY <1>1, <1>2 DEF Prepared, WaitTotal, BatchSize
<1>4. IsFiniteSet(Procs) /\ Cardinality(Procs) = NbProcesses
  <2>1. 0 \in Int /\ NbProcesses - 1 \in Int /\ ~(0 > NbProcesses - 1)
        /\ NbProcesses - 1 - 0 + 1 = NbProcesses
    BY <1>1
  <2>. QED  BY <2>1, IntervalCard DEF Procs
<1>. QED  BY <1>1, <1>3, <1>4

\* Two messages that are posted one after the other.
LEMMA TwoQueued ==
    ASSUME NEW x, NEW y
    PROVE  <<x>> \o <<y>> = <<x, y>>
<1>. DEFINE S == {x, y}
            s == <<x>>
            c == Append(s, y)
<1>1. s \in Seq(S) /\ Len(s) = 1 /\ s[1] = x /\ y \in S
  OBVIOUS
<1>. HIDE DEF s, S
<1>2. s \o <<y>> = c
  BY <1>1
<1>3. c \in Seq(S) /\ Len(c) = 2 /\ c[1] = x
  <2>1. c \in Seq(S)
    BY <1>1
  <2>2. Len(c) = 2
    <3>1. s \in Seq(S) /\ y \in S
      BY <1>1
    <3>2. Len(c) = Len(s) + 1
      BY <3>1
    <3>. HIDE DEF c
    <3>. QED  BY <1>1, <3>2
  <2>3. c[1] = x
    BY <1>1
  <2>. QED  BY Zenon, <2>1, <2>2, <2>3
<1>4. c[Len(s) + 1] = y
  <2>1. s \in Seq(S) /\ y \in S
    BY <1>1
  <2>. QED  BY <2>1
<1>. HIDE DEF c
<1>5. Len(s) + 1 = 2
  BY <1>1
<1>6. c = <<c[1], c[2]>>
  BY <1>3
<1>. QED  BY Zenon, <1>2, <1>3, <1>4, <1>5, <1>6 DEF s

\* The messages of the senders, told apart by their first command.
LEMMA Messages ==
    ASSUME NEW w
    PROVE  /\ InitWorker # <<>> /\ Head(InitWorker).cmd = "init_worker" /\ Tail(InitWorker) = <<>>
           /\ InitOk # <<>> /\ Head(InitOk).cmd = "init_ok" /\ Tail(InitOk) = <<>>
           /\ PrepareOk # <<>> /\ Head(PrepareOk).cmd = "prepare_ok" /\ Tail(PrepareOk) = <<>>
           /\ SendOk # <<>> /\ Head(SendOk).cmd = "send_ok" /\ Tail(SendOk) = <<>>
           /\ PrepareReport # <<>> /\ Head(PrepareReport).cmd = "prepare_stats"
           /\ Head(PrepareReport).finished = Prepared /\ Tail(PrepareReport) = PrepareOk
           /\ SendReport(w) # <<>> /\ Head(SendReport(w)).cmd = "send_stats"
           /\ Head(SendReport(w)).success = w.success /\ Head(SendReport(w)).failed = w.failed
           /\ Head(SendReport(w)).finished = w.success + w.failed
           /\ Tail(SendReport(w)) = SendOk
           /\ SendStats(w) # <<>> /\ Head(SendStats(w)) = Head(SendReport(w))
           /\ Tail(SendStats(w)) = <<>>
<1>1. \A x : <<x>> # <<>> /\ Head(<<x>>) = x /\ Tail(<<x>>) = <<>>
  OBVIOUS
<1>2. \A x, y : <<x, y>> # <<>> /\ Head(<<x, y>>) = x /\ Tail(<<x, y>>) = <<y>>
  OBVIOUS
<1>3. \A c : Msg(c).cmd = c /\ [Msg(c) EXCEPT !.finished = Prepared].cmd = c
             /\ [Msg(c) EXCEPT !.finished = Prepared].finished = Prepared
  BY DEF Msg
<1>4. /\ InitWorker # <<>> /\ Head(InitWorker).cmd = "init_worker" /\ Tail(InitWorker) = <<>>
      /\ InitOk # <<>> /\ Head(InitOk).cmd = "init_ok" /\ Tail(InitOk) = <<>>
      /\ PrepareOk # <<>> /\ Head(PrepareOk).cmd = "prepare_ok" /\ Tail(PrepareOk) = <<>>
      /\ SendOk # <<>> /\ Head(SendOk).cmd = "send_ok" /\ Tail(SendOk) = <<>>
  BY Zenon, <1>1, <1>3 DEF InitWorker, InitOk, PrepareOk, SendOk
<1>5. /\ PrepareReport # <<>> /\ Head(PrepareReport).cmd = "prepare_stats"
      /\ Head(PrepareReport).finished = Prepared /\ Tail(PrepareReport) = PrepareOk
  <2>. DEFINE x == [Msg("prepare_stats") EXCEPT !.finished = Prepared]
  <2>1. PrepareReport = <<x, Msg("prepare_ok")>>
    BY DEF PrepareReport
  <2>2. x.cmd = "prepare_stats" /\ x.finished = Prepared
    BY DEF Msg
  <2>. HIDE DEF x
  <2>. QED  BY Zenon, <1>2, <2>1, <2>2 DEF PrepareOk
<1>6. /\ SendReport(w) # <<>> /\ Head(SendReport(w)).cmd = "send_stats"
      /\ Head(SendReport(w)).success = w.success /\ Head(SendReport(w)).failed = w.failed
      /\ Head(SendReport(w)).finished = w.success + w.failed
      /\ Tail(SendReport(w)) = SendOk
      /\ SendStats(w) # <<>> /\ Head(SendStats(w)) = Head(SendReport(w))
      /\ Tail(SendStats(w)) = <<>>
  <2>. DEFINE x == [cmd |-> "send_stats", success |-> w.success, failed |-> w.failed,
                    finished |-> w.success + w.failed]
  <2>0. SendStats(w) = <<x>>
    BY Zenon DEF SendStats
  <2>1. SendReport(w) = <<x, Msg("send_ok")>>
    BY Zenon, <2>0, TwoQueued DEF SendReport, SendOk
  <2>2. /\ x.cmd = "send_stats" /\ x.success = w.success /\ x.failed = w.failed
        /\ x.finished = w.success + w.failed
    OBVIOUS
  <2>. HIDE DEF x
  <2>3. SendReport(w) # <<>> /\ Head(SendReport(w)) = x /\ Tail(SendReport(w)) = SendOk
    BY Zenon, <1>2, <2>1 DEF SendOk
  <2>4. SendStats(w) # <<>> /\ Head(SendStats(w)) = x /\ Tail(SendStats(w)) = <<>>
    BY Zenon, <1>1, <2>0
  <2>. QED  BY Zenon, <2>2, <2>3, <2>4
<1>. QED  BY Zenon, <1>4, <1>5, <1>6

\* No two of the queues a sender may have are the same.
Distinct(w) ==
    /\ \A c \in {"init", "prepare", "send", "exit"} : <<c>> # <<>>
    /\ <<"init">> # <<"prepare">> /\ <<"init">> # <<"send">> /\ <<"init">> # <<"exit">>
    /\ <<"prepare">> # <<"send">> /\ <<"prepare">> # <<"exit">> /\ <<"send">> # <<"exit">>
    /\ <<>> # InitWorker /\ <<>> # InitOk /\ <<>> # PrepareReport /\ <<>> # PrepareOk
    /\ <<>> # SendReport(w) /\ <<>> # SendOk
    /\ InitWorker # InitOk /\ InitWorker # PrepareReport /\ InitWorker # PrepareOk
    /\ InitWorker # SendReport(w) /\ InitWorker # SendOk
    /\ InitOk # PrepareReport /\ InitOk # PrepareOk /\ InitOk # SendReport(w) /\ InitOk # SendOk
    /\ PrepareReport # PrepareOk /\ PrepareReport # SendReport(w) /\ PrepareReport # SendOk
    /\ PrepareOk # SendReport(w) /\ PrepareOk # SendOk
    /\ SendReport(w) # SendOk
    /\ <<>> # SendStats(w) /\ InitWorker # SendStats(w) /\ InitOk # SendStats(w)
    /\ PrepareReport # SendStats(w) /\ PrepareOk # SendStats(w) /\ SendOk # SendStats(w)
    /\ SendReport(w) # SendStats(w)

\* The main script tells the messages of a sender apart by their type.
LEMMA AllDistinct == \A w : Distinct(w)
<1>. TAKE w
<1>1. /\ \A c \in {"init", "prepare", "send", "exit"} : <<c>> # <<>>
      /\ <<"init">> # <<"prepare">> /\ <<"init">> # <<"send">> /\ <<"init">> # <<"exit">>
      /\ <<"prepare">> # <<"send">> /\ <<"prepare">> # <<"exit">> /\ <<"send">> # <<"exit">>
  OBVIOUS
<1>. QED  BY Zenon, <1>1, Messages DEF Distinct

\* The setup is read once.
Kept ==
    /\ setup' = setup
    /\ NbProcesses' = NbProcesses /\ Procs' = Procs /\ Prepared' = Prepared
    /\ WaitTotal' = WaitTotal /\ BatchSize' = BatchSize /\ PrepareReport' = PrepareReport

\* So nothing that is derived from it changes during a run.
LEMMA SetupKept == setup' = setup => Kept
  BY Zenon DEF Kept, NbProcesses, Procs, Prepared, WaitTotal, BatchSize, PrepareReport, Share,
         TransactionType

\* Two sets of senders that differ at most in p.
LEMMA CardOne ==
    ASSUME SetFacts, NEW P, IsFiniteSet(P), NEW S \in SUBSET P, NEW T \in SUBSET P, NEW p \in P,
           \A q \in P : q # p => (q \in S <=> q \in T)
    PROVE  /\ Cardinality(S) \in Nat /\ Cardinality(T) \in Nat
           /\ Cardinality(S) <= Cardinality(P) /\ Cardinality(T) <= Cardinality(P)
           /\ (p \in S <=> p \in T) => Cardinality(T) = Cardinality(S)
           /\ p \notin S /\ p \in T => Cardinality(T) = Cardinality(S) + 1
           /\ p \in S /\ p \notin T => Cardinality(S) = Cardinality(T) + 1
           /\ p \notin S => Cardinality(S) < Cardinality(P)
<1>1. /\ IsFiniteSet(S) /\ Cardinality(S) <= Cardinality(P)
      /\ IsFiniteSet(T) /\ Cardinality(T) <= Cardinality(P)
  BY SubsetCard
<1>2. Cardinality(S) \in Nat /\ Cardinality(T) \in Nat /\ Cardinality(P) \in Nat
  BY <1>1, CardNat
<1>3. (p \in S <=> p \in T) => Cardinality(T) = Cardinality(S)
  <2>1. (p \in S <=> p \in T) => S = T
    OBVIOUS
  <2>. QED  BY <2>1
<1>4. p \notin S /\ p \in T => Cardinality(T) = Cardinality(S) + 1
  <2>1. p \notin S /\ p \in T => T = S \cup {p}
    OBVIOUS
  <2>. QED  BY <1>1, <2>1, CardAdd
<1>5. p \in S /\ p \notin T => Cardinality(S) = Cardinality(T) + 1
  <2>1. p \in S /\ p \notin T => S = T \cup {p}
    OBVIOUS
  <2>. QED  BY <1>1, <2>1, CardAdd
<1>6. p \notin S => Cardinality(S) < Cardinality(P)
  <2>. SUFFICES ASSUME p \notin S PROVE Cardinality(S) < Cardinality(P)
    OBVIOUS
  <2>1. IsFiniteSet(P \ {p}) /\ Cardinality(P \ {p}) = Cardinality(P) - 1
    BY CardRemove
  <2>2. S \subseteq P \ {p}
    OBVIOUS
  <2>3. Cardinality(S) <= Cardinality(P \ {p})
    BY <2>1, <2>2, SubsetCard
  <2>. QED  BY <1>2, <2>1, <2>3
<1>. QED  BY Zenon, <1>1, <1>2, <1>3, <1>4, <1>5, <1>6

\* A set of senders that is as large as all of them is all of them.
LEMMA CardAll ==
    ASSUME SetFacts, NEW P, IsFiniteSet(P), NEW S \in SUBSET P, Cardinality(P) <= Cardinality(S)
    PROVE  S = P
<1>1. IsFiniteSet(S) /\ Cardinality(S) <= Cardinality(P)
      /\ (Cardinality(S) = Cardinality(P) => S = P)
  BY SubsetCard
<1>2. Cardinality(S) \in Nat /\ Cardinality(P) \in Nat
  BY <1>1, CardNat
<1>. QED  BY <1>1, <1>2

-----------------------------------------------------------------------------
(* A step of one sender.                                                   *)

Same(q) == worker'[q] = worker[q] /\ toMain'[q] = toMain[q] /\ toWorker'[q] = toWorker[q]

\* Only p moves, and no barrier is passed.
Alone(p) ==
    /\ Kept
    /\ \A q \in Procs : q # p => Same(q)
    /\ Initialised' <=> Initialised
    /\ AllPrepared' <=> AllPrepared

\* Then the others are where they were, and all that counts is p.
LEMMA AloneSenders ==
    ASSUME Senders, NEW p \in Procs, Alone(p), Stage(p)', Work(worker[p], toMain[p])',
           worker'[p].next > 0 => AllPrepared'
    PROVE  Senders'
<1>. SUFFICES ASSUME NEW q \in Procs, q # p
     PROVE  /\ Stage(q)' /\ Work(worker[q], toMain[q])'
            /\ worker'[q].next > 0 => AllPrepared'
  BY Zenon DEF Senders, Alone, Kept
<1>1. Stage(q) /\ Work(worker[q], toMain[q]) /\ (worker[q].next > 0 => AllPrepared)
  BY Zenon DEF Senders
<1>2. Same(q) /\ Kept
  BY Zenon DEF Alone
<1>3. Stage(q)'
  BY Zenon, <1>1, <1>2 DEF Alone, Same, Kept, Stage, Starting, Waiting, Preparing, Sending, Left, Dead,
            InitWorker, InitOk, PrepareOk, SendOk
<1>4. Work(worker[q], toMain[q])'
  BY Zenon, <1>1, <1>2 DEF Same, Kept, Work
<1>5. worker'[q].next > 0 => AllPrepared'
  BY Zenon, <1>1, <1>2 DEF Same, Alone
<1>. QED  BY Zenon, <1>3, <1>4, <1>5

\* How the counted sets change when only p moves.
OneMoved(S, T, p) ==
    /\ Cardinality(S) \in Nat /\ Cardinality(T) \in Nat
    /\ Cardinality(S) <= NbProcesses /\ Cardinality(T) <= NbProcesses
    /\ (p \in S <=> p \in T) => Cardinality(T) = Cardinality(S)
    /\ p \notin S /\ p \in T => Cardinality(T) = Cardinality(S) + 1
    /\ p \in S /\ p \notin T => Cardinality(S) = Cardinality(T) + 1
    /\ p \notin S => Cardinality(S) < NbProcesses

\* A step of one sender moves it into or out of each counted set, and no other.
LEMMA AloneCounts ==
    ASSUME SetFacts, BenchmarkTypeOK, NEW p \in Procs, Alone(p)
    PROVE  /\ OneMoved(InitDone, InitDone', p)
           /\ OneMoved(PrepareDone, PrepareDone', p)
           /\ OneMoved(Announced, Announced', p)
           /\ OneMoved(Reaped, Reaped', p)
           /\ OneMoved(Reported, Reported', p)
<1>1. IsFiniteSet(Procs) /\ Cardinality(Procs) = NbProcesses
  BY Zenon, SetupNumbers DEF BenchmarkTypeOK
<1>2. ASSUME NEW S \in SUBSET Procs, NEW T \in SUBSET Procs,
             \A q \in Procs : q # p => (q \in S <=> q \in T)
      PROVE  OneMoved(S, T, p)
  BY <1>1, <1>2, CardOne DEF OneMoved
<1>3. Procs' = Procs
  BY Zenon DEF Alone, Kept
<1>4. ASSUME NEW q \in Procs, q # p
      PROVE  /\ q \in InitDone <=> q \in InitDone'
             /\ q \in PrepareDone <=> q \in PrepareDone'
             /\ q \in Announced <=> q \in Announced'
             /\ q \in Reaped <=> q \in Reaped'
             /\ q \in Reported <=> q \in Reported'
  <2>1. Same(q)
    BY Zenon, <1>4 DEF Alone
  <2>2. q \in InitDone <=> q \in InitDone'
    BY Zenon, <1>3, <2>1 DEF Same, InitDone, HasInit, Starting, InitWorker, InitOk
  <2>3. q \in PrepareDone <=> q \in PrepareDone'
    BY Zenon, <1>3, <2>1 DEF Alone, Kept, Same, PrepareDone, HasPrepared, Starting, Waiting, Preparing,
                    InitWorker, InitOk, PrepareOk
  <2>4. q \in Announced <=> q \in Announced'
    BY Zenon, <1>3, <2>1 DEF Same, Announced, PrepareOk
  <2>5. q \in Reaped <=> q \in Reaped'
    BY Zenon, <1>3, <2>1 DEF Same, Reaped
  <2>6. q \in Reported <=> q \in Reported'
    BY Zenon, <1>3, <2>1 DEF Same, Reported, HasReported, Dead, SendOk
  <2>. QED  BY Zenon, <2>2, <2>3, <2>4, <2>5, <2>6
<1>5. /\ InitDone \in SUBSET Procs /\ PrepareDone \in SUBSET Procs /\ Announced \in SUBSET Procs
      /\ Reaped \in SUBSET Procs /\ Reported \in SUBSET Procs
  BY DEF InitDone, PrepareDone, Announced, Reaped, Reported
<1>6. /\ InitDone' \in SUBSET Procs /\ PrepareDone' \in SUBSET Procs /\ Announced' \in SUBSET Procs
      /\ Reaped' \in SUBSET Procs /\ Reported' \in SUBSET Procs
  BY <1>3 DEF InitDone, PrepareDone, Announced, Reaped, Reported
<1>. QED  BY Zenon, <1>2, <1>4, <1>5, <1>6

\* What the step does to the counters of the main script.
InitMove(p) ==
    \/ main'.init_ok = main.init_ok /\ (p \in InitDone => p \in InitDone')
    \/ main'.init_ok = main.init_ok + 1 /\ p \notin InitDone /\ p \in InitDone'
PrepareMove(p) ==
    \/ main'.prepare_ok = main.prepare_ok /\ (p \in PrepareDone => p \in PrepareDone')
    \/ main'.prepare_ok = main.prepare_ok + 1 /\ p \notin PrepareDone /\ p \in PrepareDone'
PreparedMove(p) ==
    \/ /\ main'.prepared = main.prepared /\ main'.prepare_ok = main.prepare_ok
       /\ p \in Announced <=> p \in Announced'
    \/ /\ main'.prepared = main.prepared + Prepared /\ main'.prepare_ok = main.prepare_ok
       /\ p \notin Announced /\ p \in Announced'
    \/ /\ main'.prepared = main.prepared /\ main'.prepare_ok = main.prepare_ok + 1
       /\ p \in Announced /\ p \notin Announced'
ExitMove(p) ==
    \/ /\ main'.exited = main.exited /\ (main'.status = "done" => main.status = "done")
       /\ p \in Reaped <=> p \in Reaped'
    \/ /\ main'.exited = main.exited + 1
       /\ main'.status = "done" => main'.exited = NbProcesses
       /\ p \notin Reaped /\ p \in Reaped'
TotalsMove(p) ==
    /\ main'.finished = main'.success + main'.failed
    /\ failures' = 0 =>
          /\ failures = 0 /\ (Dead(worker'[p]) => toMain'[p] = <<>>)
          /\ \/ main'.finished = main.finished /\ (p \in Reported <=> p \in Reported')
             \/ /\ \E n \in Nat : /\ main'.finished = main.finished + n /\ n >= WaitTotal
                                  /\ BatchSize > 0 => n < WaitTotal + BatchSize
                /\ p \notin Reported /\ p \in Reported'

\* The product that a counter is multiplied with grows by one factor.
LEMMA OneMore == \A a, b \in Nat : a * (b + 1) = a * b + a /\ a * b \in Nat
  OBVIOUS

\* A step of one sender keeps the invariant if p itself is in order.
LEMMA AloneInv ==
    ASSUME SetFacts, BenchmarkInv, BenchmarkTypeOK', NEW p \in Procs, Alone(p),
           Stage(p)', Work(worker[p], toMain[p])', worker'[p].next > 0 => AllPrepared',
           InitMove(p), PrepareMove(p), PreparedMove(p), ExitMove(p), TotalsMove(p)
    PROVE  BenchmarkInv'
<1>1. Senders'
  BY Zenon, AloneSenders DEF BenchmarkInv
<1>2. /\ OneMoved(InitDone, InitDone', p) /\ OneMoved(PrepareDone, PrepareDone', p)
      /\ OneMoved(Announced, Announced', p) /\ OneMoved(Reaped, Reaped', p)
      /\ OneMoved(Reported, Reported', p)
  BY Zenon, AloneCounts DEF BenchmarkInv
<1>3. /\ NbProcesses' = NbProcesses /\ Prepared' = Prepared /\ Procs' = Procs
      /\ WaitTotal' = WaitTotal /\ BatchSize' = BatchSize
      /\ NbProcesses \in Nat /\ Prepared \in Nat /\ WaitTotal \in Nat /\ BatchSize \in Nat
  BY Zenon, SetupNumbers DEF Alone, Kept, BenchmarkInv, BenchmarkTypeOK
<1>4. /\ main.init_ok \in Nat /\ main.prepare_ok \in Nat /\ main.prepared \in Nat
      /\ main.exited \in Nat /\ main.finished \in Nat
  BY DEF BenchmarkInv, BenchmarkTypeOK, Mains
<1>5. InitsCounted'
  BY <1>2, <1>4 DEF BenchmarkInv, InitsCounted, InitMove, OneMoved
<1>6. PreparesCounted'
  BY <1>2, <1>4 DEF BenchmarkInv, PreparesCounted, PrepareMove, OneMoved
<1>7. PreparedCounted'
  <2>. DEFINE k == main.prepare_ok
              a == Cardinality(Announced)
              b == Cardinality(Announced')
              h == Prepared
  <2>1. main.prepared = h * (k + a) /\ a \in Nat /\ b \in Nat /\ k \in Nat /\ h \in Nat
    BY Zenon, <1>2, <1>3, <1>4 DEF BenchmarkInv, PreparedCounted, OneMoved
  <2>2. \/ main'.prepared = main.prepared /\ main'.prepare_ok = k /\ b = a
        \/ main'.prepared = main.prepared + h /\ main'.prepare_ok = k /\ b = a + 1
        \/ main'.prepared = main.prepared /\ main'.prepare_ok = k + 1 /\ a = b + 1
    BY Zenon, <1>2 DEF PreparedMove, OneMoved
  <2>. HIDE DEF k, a, b, h
  <2>3. h * ((k + a) + 1) = h * (k + a) + h
    BY <2>1, OneMore
  <2>4. main'.prepared = h * (main'.prepare_ok + b)
    <3>1. CASE main'.prepared = main.prepared /\ main'.prepare_ok = k /\ b = a
      BY Zenon, <2>1, <3>1
    <3>2. CASE main'.prepared = main.prepared + h /\ main'.prepare_ok = k /\ b = a + 1
      <4>1. k + (a + 1) = (k + a) + 1
        BY <2>1
      <4>. QED  BY Zenon, <2>1, <2>3, <3>2, <4>1
    <3>3. CASE main'.prepared = main.prepared /\ main'.prepare_ok = k + 1 /\ a = b + 1
      <4>1. k + (b + 1) = (k + 1) + b
        BY <2>1
      <4>. QED  BY Zenon, <2>1, <3>3, <4>1
    <3>. QED  BY Zenon, <2>2, <3>1, <3>2, <3>3
  <2>. QED  BY Zenon, <1>3, <2>4 DEF PreparedCounted, h, b
<1>8. ExitsCounted'
  BY <1>2, <1>3, <1>4 DEF BenchmarkInv, ExitsCounted, ExitMove, OneMoved
<1>9. Totals'
  <2>1. main'.finished = main'.success + main'.failed
    BY Zenon DEF TotalsMove
  <2>. SUFFICES ASSUME failures' = 0
       PROVE  /\ \A q \in Procs : Dead(worker'[q]) => toMain'[q] = <<>>
              /\ Reports(main.finished, Cardinality(Reported))'
    BY Zenon, <1>3, <2>1 DEF Totals
  <2>2. /\ failures = 0 /\ (Dead(worker'[p]) => toMain'[p] = <<>>)
        /\ \/ main'.finished = main.finished /\ (p \in Reported <=> p \in Reported')
           \/ /\ \E n \in Nat : /\ main'.finished = main.finished + n /\ n >= WaitTotal
                                /\ BatchSize > 0 => n < WaitTotal + BatchSize
              /\ p \notin Reported /\ p \in Reported'
    BY Zenon DEF TotalsMove
  <2>3. \A q \in Procs : Dead(worker'[q]) => toMain'[q] = <<>>
    BY Zenon, <2>2 DEF BenchmarkInv, Totals, Alone, Same
  <2>. DEFINE k == Cardinality(Reported)
              l == Cardinality(Reported')
              W == WaitTotal
              B == BatchSize
              m == main.finished
              n == main'.finished
  <2>4. /\ k \in Nat /\ W \in Nat /\ B \in Nat /\ m \in Nat
        /\ m >= W * k /\ (B > 0 => m + k <= (W + B) * k)
    BY Zenon, <1>2, <1>3, <1>4, <2>2 DEF BenchmarkInv, Totals, Reports, OneMoved
  <2>5. \/ n = m /\ l = k
        \/ l = k + 1 /\ \E d \in Nat : n = m + d /\ d >= W /\ (B > 0 => d < W + B)
    BY Zenon, <1>2, <2>2 DEF OneMoved
  <2>. HIDE DEF k, l, W, B, m, n
  <2>6. n >= W * l /\ (B > 0 => n + l <= (W + B) * l)
    <3>1. CASE n = m /\ l = k
      BY Zenon, <2>4, <3>1
    <3>2. CASE l = k + 1 /\ \E d \in Nat : n = m + d /\ d >= W /\ (B > 0 => d < W + B)
      <4>1. PICK d \in Nat : n = m + d /\ d >= W /\ (B > 0 => d < W + B)
        BY <3>2
      <4>2. W * l = W * k + W /\ W * k \in Nat
        BY Zenon, <2>4, <3>2, OneMore
      <4>3. W + B \in Nat
        BY <2>4
      <4>4. (W + B) * l = (W + B) * k + (W + B) /\ (W + B) * k \in Nat
        BY Zenon, <2>4, <3>2, <4>3, OneMore
      <4>. DEFINE x == W * k
                  y == (W + B) * k
                  X == W * l
                  Y == (W + B) * l
      <4>5. /\ X = x + W /\ x \in Nat /\ Y = y + (W + B) /\ y \in Nat
            /\ m >= x /\ (B > 0 => m + k <= y) /\ l = k + 1
        BY Zenon, <2>4, <3>2, <4>2, <4>4
      <4>. HIDE DEF x, y, X, Y
      <4>6. n >= X /\ (B > 0 => n + l <= Y)
        BY <2>4, <4>1, <4>5
      <4>. QED  BY Zenon, <4>6 DEF X, Y
    <3>. QED  BY Zenon, <2>5, <3>1, <3>2
  <2>7. Reports(main.finished, Cardinality(Reported))'
    BY Zenon, <1>3, <2>6 DEF Reports, n, l, W, B
  <2>. QED  BY Zenon, <2>3, <2>7
<1>. QED  BY Zenon, <1>1, <1>5, <1>6, <1>7, <1>8, <1>9 DEF BenchmarkInv

-----------------------------------------------------------------------------
(* Where the senders are, and what counts of it.                           *)

\* Stage, of a sender's record and queues.
At(w, m, t) ==
    \/ Starting(w, m, t) \/ Waiting(w, m, t)
    \/ Preparing(w, m, t) /\ Initialised
    \/ Sending(w, m, t) /\ Initialised /\ AllPrepared
    \/ Left(w, m, t)

\* Which of the counted sets a sender is in, at each place.
LEMMA Places ==
    ASSUME NEW w, NEW m, NEW t, NEW i
    PROVE  /\ Starting(w, m, t) =>
                  /\ ~HasInit(w, m, t) /\ ~HasPrepared(w, m, t, i)
                  /\ m # PrepareOk /\ ~HasReported(w, m, t)
           /\ Waiting(w, m, t) =>
                  /\ HasInit(w, m, t) /\ (HasPrepared(w, m, t, i) <=> i)
                  /\ m # PrepareOk /\ ~HasReported(w, m, t)
           /\ Preparing(w, m, t) =>
                  /\ HasInit(w, m, t) /\ ~HasPrepared(w, m, t, i) /\ ~HasReported(w, m, t)
           /\ Sending(w, m, t) =>
                  /\ HasInit(w, m, t) /\ HasPrepared(w, m, t, i) /\ m # PrepareOk
                  /\ HasReported(w, m, t) <=>
                        (m = SendOk \/ t = <<"exit">> \/ (w.pc = "sleep" /\ m = <<>>))
           /\ Left(w, m, t) =>
                  /\ HasInit(w, m, t) <=> m # InitOk
                  /\ HasPrepared(w, m, t, i) <=> m # PrepareReport /\ m # PrepareOk
                  /\ HasReported(w, m, t)
<1>. /\ "idle" # "init" /\ "idle" # "prepare" /\ "idle" # "send" /\ "idle" # "exited"
     /\ "idle" # "reaped" /\ "init" # "prepare" /\ "init" # "send" /\ "init" # "exited"
     /\ "init" # "reaped" /\ "prepare" # "send" /\ "prepare" # "exited" /\ "prepare" # "reaped"
     /\ "send" # "exited" /\ "send" # "reaped" /\ "sleep" # "idle" /\ "sleep" # "init"
     /\ "sleep" # "prepare" /\ "sleep" # "send" /\ "sleep" # "exited" /\ "sleep" # "reaped"
  OBVIOUS
<1>0. Distinct(w)
  BY Zenon, AllDistinct
<1>. USE DEF HasInit, HasPrepared, HasReported, Dead
<1>1. Starting(w, m, t) =>
         /\ ~HasInit(w, m, t) /\ ~HasPrepared(w, m, t, i)
         /\ m # PrepareOk /\ ~HasReported(w, m, t)
  BY Zenon, <1>0 DEF Starting, Distinct
<1>2. Waiting(w, m, t) =>
         /\ HasInit(w, m, t) /\ (HasPrepared(w, m, t, i) <=> i)
         /\ m # PrepareOk /\ ~HasReported(w, m, t)
  BY Zenon, <1>0 DEF Starting, Waiting, Preparing, Distinct
<1>3. Preparing(w, m, t) =>
         /\ HasInit(w, m, t) /\ ~HasPrepared(w, m, t, i) /\ ~HasReported(w, m, t)
  BY Zenon, <1>0 DEF Starting, Preparing, Distinct
<1>4. Sending(w, m, t) =>
         /\ HasInit(w, m, t) /\ HasPrepared(w, m, t, i) /\ m # PrepareOk
         /\ HasReported(w, m, t) <=>
               (m = SendOk \/ t = <<"exit">> \/ (w.pc = "sleep" /\ m = <<>>))
  BY Zenon, <1>0 DEF Starting, Waiting, Preparing, Sending, Distinct
<1>5. Left(w, m, t) =>
         /\ HasInit(w, m, t) <=> m # InitOk
         /\ HasPrepared(w, m, t, i) <=> m # PrepareReport /\ m # PrepareOk
         /\ HasReported(w, m, t)
  BY Zenon, <1>0 DEF Starting, Waiting, Preparing, Left, Distinct
<1>. QED  BY Zenon, <1>1, <1>2, <1>3, <1>4, <1>5

\* Sender p becomes w, with m and t in its queues.
Moves(p, w, m, t) ==
    /\ worker' = [worker EXCEPT ![p] = w]
    /\ DOMAIN toMain' = Procs /\ toMain'[p] = m
    /\ DOMAIN toWorker' = Procs /\ toWorker'[p] = t
    /\ \A q \in Procs : q # p => toMain'[q] = toMain[q] /\ toWorker'[q] = toWorker[q]

\* Whether p is counted, before and after the step.
Counted(p, w, m, t) ==
    /\ p \in InitDone <=> HasInit(worker[p], toMain[p], toWorker[p])
    /\ p \in InitDone' <=> HasInit(w, m, t)
    /\ p \in PrepareDone <=> HasPrepared(worker[p], toMain[p], toWorker[p], Initialised)
    /\ p \in PrepareDone' <=> HasPrepared(w, m, t, Initialised)
    /\ p \in Announced <=> toMain[p] = PrepareOk
    /\ p \in Announced' <=> m = PrepareOk
    /\ p \in Reaped <=> worker[p].pc = "reaped"
    /\ p \in Reaped' <=> w.pc = "reaped"
    /\ p \in Reported <=> HasReported(worker[p], toMain[p], toWorker[p])
    /\ p \in Reported' <=> HasReported(w, m, t)

\* The step of one sender in terms of where it is.
LEMMA OneMoves ==
    ASSUME BenchmarkTypeOK, NEW p \in Procs, NEW w \in Workers, NEW m, NEW t,
           Moves(p, w, m, t), setup' = setup, failures' \in Nat, main' \in Mains,
           Initialised' <=> Initialised, AllPrepared' <=> AllPrepared,
           At(w, m, t), Work(w, m), w.next > 0 => AllPrepared
    PROVE  /\ BenchmarkTypeOK' /\ Alone(p) /\ Counted(p, w, m, t)
           /\ worker'[p] = w /\ toMain'[p] = m
           /\ Stage(p)' /\ Work(worker[p], toMain[p])'
           /\ worker'[p].next > 0 => AllPrepared'
<1>1. Kept
  BY Zenon, SetupKept
<1>2. /\ worker' \in [Procs -> Workers] /\ worker'[p] = w
      /\ \A q \in Procs : q # p => worker'[q] = worker[q]
  BY Zenon DEF BenchmarkTypeOK, Moves
<1>3. BenchmarkTypeOK'
  BY Zenon, <1>1, <1>2 DEF BenchmarkTypeOK, Moves, Kept, Mains, Workers
<1>4. Alone(p)
  BY Zenon, <1>1, <1>2 DEF Alone, Same, Moves
<1>5. toMain'[p] = m /\ toWorker'[p] = t
  BY Zenon DEF Moves
<1>6. Stage(p)'
  BY Zenon, <1>1, <1>2, <1>5 DEF At, Kept, Stage, Starting, Waiting, Preparing, Sending, Left, Dead,
            InitWorker, InitOk, PrepareOk, SendOk
<1>7. Work(worker[p], toMain[p])'
  BY Zenon, <1>1, <1>2, <1>5 DEF Kept, Work
<1>8. Counted(p, w, m, t)
  <2>1. /\ p \in InitDone <=> HasInit(worker[p], toMain[p], toWorker[p])
        /\ p \in InitDone' <=> HasInit(w, m, t)
    BY Zenon, <1>1, <1>2, <1>5 DEF Kept, InitDone, HasInit, Starting, InitWorker, InitOk
  <2>2. /\ p \in PrepareDone <=> HasPrepared(worker[p], toMain[p], toWorker[p], Initialised)
        /\ p \in PrepareDone' <=> HasPrepared(w, m, t, Initialised)
    BY Zenon, <1>1, <1>2, <1>5 DEF Kept, PrepareDone, HasPrepared, Starting, Waiting, Preparing,
              InitWorker, InitOk, PrepareOk
  <2>3. /\ p \in Announced <=> toMain[p] = PrepareOk
        /\ p \in Announced' <=> m = PrepareOk
    BY Zenon, <1>1, <1>5 DEF Kept, Announced, PrepareOk
  <2>4. /\ p \in Reaped <=> worker[p].pc = "reaped"
        /\ p \in Reaped' <=> w.pc = "reaped"
    BY Zenon, <1>1, <1>2 DEF Kept, Reaped
  <2>5. /\ p \in Reported <=> HasReported(worker[p], toMain[p], toWorker[p])
        /\ p \in Reported' <=> HasReported(w, m, t)
    BY Zenon, <1>1, <1>2, <1>5 DEF Kept, Reported, HasReported, Dead, SendOk
  <2>. QED  BY Zenon, <2>1, <2>2, <2>3, <2>4, <2>5 DEF Counted
<1>. QED  BY Zenon, <1>2, <1>3, <1>4, <1>5, <1>6, <1>7, <1>8

\* A step that leaves the main script alone.
LEMMA SenderMove ==
    ASSUME SetFacts, BenchmarkInv, NEW p \in Procs, NEW w \in Workers, NEW m, NEW t,
           Moves(p, w, m, t), setup' = setup, failures' \in Nat, main' = main,
           At(w, m, t), Work(w, m), w.next > 0 => AllPrepared,
           HasInit(worker[p], toMain[p], toWorker[p]) => HasInit(w, m, t),
           HasPrepared(worker[p], toMain[p], toWorker[p], Initialised)
              => HasPrepared(w, m, t, Initialised),
           toMain[p] = PrepareOk <=> m = PrepareOk,
           worker[p].pc = "reaped" <=> w.pc = "reaped",
           failures' = 0 =>
              /\ failures = 0 /\ (Dead(w) => m = <<>>)
              /\ HasReported(worker[p], toMain[p], toWorker[p]) <=> HasReported(w, m, t)
    PROVE  BenchmarkInv'
<1>1. BenchmarkTypeOK /\ main \in Mains
  BY Zenon DEF BenchmarkInv, BenchmarkTypeOK
<1>2. NbProcesses' = NbProcesses
  BY Zenon, SetupKept DEF Kept
<1>3. (Initialised' <=> Initialised) /\ (AllPrepared' <=> AllPrepared)
  BY Zenon, <1>2 DEF Initialised, AllPrepared
<1>4. /\ BenchmarkTypeOK' /\ Alone(p) /\ Counted(p, w, m, t)
      /\ worker'[p] = w /\ toMain'[p] = m
      /\ Stage(p)' /\ Work(worker[p], toMain[p])'
      /\ worker'[p].next > 0 => AllPrepared'
  BY Zenon, <1>1, <1>3, OneMoves
<1>5. InitMove(p) /\ PrepareMove(p) /\ PreparedMove(p) /\ ExitMove(p)
  BY Zenon, <1>4 DEF Counted, InitMove, PrepareMove, PreparedMove, ExitMove
<1>6. TotalsMove(p)
  BY Zenon, <1>4 DEF Counted, TotalsMove, BenchmarkInv, Totals
<1>. QED  BY Zenon, <1>4, <1>5, <1>6, AloneInv

-----------------------------------------------------------------------------
(* The steps of a sender.                                                  *)

\* A sender that is only at another point of its program.
To(v, c) == [v EXCEPT !.pc = c]

\* Such a sender has the same work behind it and before it.
LEMMA Repointed ==
    ASSUME NEW v \in Workers,
           NEW c \in {"idle", "init", "prepare", "send", "sleep", "exited", "reaped"}
    PROVE  /\ To(v, c) \in Workers /\ To(v, c).pc = c /\ To(v, c).next = v.next
           /\ SendReport(To(v, c)) = SendReport(v) /\ SendStats(To(v, c)) = SendStats(v)
           /\ \A m, k : Work(v, k) /\ (Reporting(v, m) => Reporting(v, k)) => Work(To(v, c), m)
<1>1. /\ To(v, c) \in Workers /\ To(v, c).pc = c /\ To(v, c).next = v.next
      /\ To(v, c).open = v.open /\ To(v, c).success = v.success /\ To(v, c).failed = v.failed
  BY DEF To, Workers
<1>2. SendReport(To(v, c)) = SendReport(v) /\ SendStats(To(v, c)) = SendStats(v)
  BY Zenon, <1>1 DEF SendReport, SendStats
<1>3. ASSUME NEW m, NEW k, Work(v, k), Reporting(v, m) => Reporting(v, k)
      PROVE  Work(To(v, c), m)
  BY Zenon, <1>1, <1>2, <1>3 DEF Work, Reporting
<1>. QED  BY Zenon, <1>1, <1>2, <1>3

\* What the invariant says of one sender.
LEMMA SenderFacts ==
    ASSUME BenchmarkInv, NEW p \in Procs
    PROVE  /\ worker[p] \in Workers /\ At(worker[p], toMain[p], toWorker[p])
           /\ Work(worker[p], toMain[p]) /\ (worker[p].next > 0 => AllPrepared)
           /\ failures \in Nat /\ main \in Mains
           /\ DOMAIN toMain = Procs /\ DOMAIN toWorker = Procs
           /\ failures = 0 => (Dead(worker[p]) => toMain[p] = <<>>)
           /\ Distinct(worker[p])
<1>1. worker[p] \in Workers
  BY DEF BenchmarkInv, BenchmarkTypeOK
<1>2. At(worker[p], toMain[p], toWorker[p])
  BY Zenon DEF BenchmarkInv, Senders, Stage, At
<1>. QED  BY Zenon, <1>1, <1>2, AllDistinct DEF BenchmarkInv, BenchmarkTypeOK, Senders, Totals

\* Only p's record, and maybe p's queues, change.
LEMMA MovesIntro ==
    ASSUME DOMAIN toMain = Procs, DOMAIN toWorker = Procs, NEW p \in Procs, NEW w,
           worker' = [worker EXCEPT ![p] = w]
    PROVE  /\ UNCHANGED <<toMain, toWorker>> => Moves(p, w, toMain[p], toWorker[p])
           /\ \A m : toMain' = [toMain EXCEPT ![p] = m] /\ UNCHANGED toWorker
                        => Moves(p, w, m, toWorker[p])
           /\ \A t : toWorker' = [toWorker EXCEPT ![p] = t] /\ UNCHANGED toMain
                        => Moves(p, w, toMain[p], t)
  BY Zenon DEF Moves

\* The names of the program points and of the commands are different.
LEMMA Names ==
    /\ "idle" # "init" /\ "idle" # "prepare" /\ "idle" # "send" /\ "idle" # "exited"
    /\ "idle" # "reaped" /\ "init" # "prepare" /\ "init" # "send" /\ "init" # "exited"
    /\ "init" # "reaped" /\ "prepare" # "send" /\ "prepare" # "exited" /\ "prepare" # "reaped"
    /\ "send" # "exited" /\ "send" # "reaped" /\ "exited" # "reaped"
    /\ "exit" # "init" /\ "exit" # "prepare" /\ "exit" # "send"
    /\ "sleep" # "idle" /\ "sleep" # "init" /\ "sleep" # "prepare" /\ "sleep" # "send"
    /\ "sleep" # "exited" /\ "sleep" # "reaped"
  OBVIOUS

\* Where a sender is, by its program point.
LEMMA Points ==
    ASSUME NEW v, NEW m, NEW t, At(v, m, t)
    PROVE  /\ v.pc = "idle" /\ t # <<>> =>
                  m = <<>> /\ \/ t = <<"init">>
                              \/ t = <<"prepare">> /\ Initialised
                              \/ t = <<"send">> /\ Initialised /\ AllPrepared
                              \/ t = <<"exit">> /\ Initialised /\ AllPrepared
           /\ v.pc = "init" => m = <<>> /\ t = <<>>
           /\ v.pc = "prepare" => m = <<>> /\ t = <<>> /\ Initialised
           /\ v.pc = "send" => m = <<>> /\ t = <<>> /\ Initialised /\ AllPrepared
           /\ v.pc = "sleep" => /\ m = <<>> \/ m = SendStats(v)
                                /\ t = <<>> /\ Initialised /\ AllPrepared
           /\ Dead(v) => Left(v, m, t)
<1>1. v.pc = "idle" /\ t # <<>> =>
          m = <<>> /\ \/ t = <<"init">>
                      \/ t = <<"prepare">> /\ Initialised
                      \/ t = <<"send">> /\ Initialised /\ AllPrepared
                      \/ t = <<"exit">> /\ Initialised /\ AllPrepared
  <2>. SUFFICES ASSUME v.pc = "idle", t # <<>>
       PROVE  m = <<>> /\ \/ t = <<"init">>
                          \/ t = <<"prepare">> /\ Initialised
                          \/ t = <<"send">> /\ Initialised /\ AllPrepared
                          \/ t = <<"exit">> /\ Initialised /\ AllPrepared
    BY Zenon
  <2>1. ~Left(v, m, t) /\ ~Waiting(v, m, t)
    BY Zenon, Names DEF Left, Dead, Waiting
  <2>2. Starting(v, m, t) => m = <<>> /\ t = <<"init">>
    BY Zenon, Names DEF Starting
  <2>3. Preparing(v, m, t) => m = <<>> /\ t = <<"prepare">>
    BY Zenon, Names DEF Preparing
  <2>4. Sending(v, m, t) => m = <<>> /\ (t = <<"send">> \/ t = <<"exit">>)
    BY Zenon, Names DEF Sending
  <2>. QED  BY Zenon, <2>1, <2>2, <2>3, <2>4 DEF At
<1>2. v.pc = "init" => m = <<>> /\ t = <<>>
  BY Zenon, Names DEF At, Starting, Waiting, Preparing, Sending, Left, Dead
<1>3. v.pc = "prepare" => m = <<>> /\ t = <<>> /\ Initialised
  BY Zenon, Names DEF At, Starting, Waiting, Preparing, Sending, Left, Dead
<1>4. v.pc = "send" => m = <<>> /\ t = <<>> /\ Initialised /\ AllPrepared
  BY Zenon, Names DEF At, Starting, Waiting, Preparing, Sending, Left, Dead
<1>5. Dead(v) => Left(v, m, t)
  BY Zenon, Names DEF At, Starting, Waiting, Preparing, Sending, Dead
<1>6. v.pc = "sleep" => /\ m = <<>> \/ m = SendStats(v)
                        /\ t = <<>> /\ Initialised /\ AllPrepared
  BY Zenon, Names DEF At, Starting, Waiting, Preparing, Sending, Left, Dead
<1>. QED  BY Zenon, <1>1, <1>2, <1>3, <1>4, <1>5, <1>6

\* A message starts the handler it names: the sender was idle, its queue held
\* nothing else, and the barrier of the handler is behind.
LEMMA ReceiveInv ==
    ASSUME SetFacts, BenchmarkInv, NEW p \in Procs, receive(p), setup' = setup
    PROVE  BenchmarkInv'
<1>. DEFINE v == worker[p]
            m == toMain[p]
            t == toWorker[p]
            c == IF Head(t) = "exit" THEN "exited" ELSE Head(t)
            w == To(v, c)
<1>1. /\ v \in Workers /\ At(v, m, t) /\ Work(v, m) /\ (v.next > 0 => AllPrepared)
      /\ failures \in Nat /\ DOMAIN toMain = Procs /\ DOMAIN toWorker = Procs
      /\ failures = 0 => (Dead(v) => m = <<>>)
  BY Zenon, SenderFacts
<1>2. /\ v.pc = "idle" /\ t # <<>> /\ main' = main /\ failures' = failures
      /\ worker' = [worker EXCEPT ![p] = w]
      /\ toWorker' = [toWorker EXCEPT ![p] = Tail(t)] /\ toMain' = toMain
  BY Zenon DEF receive, To
<1>3. Distinct(v)
  BY Zenon, AllDistinct
<1>4. \A x : Head(<<x>>) = x /\ Tail(<<x>>) = <<>>
  OBVIOUS
<1>5. m = <<>> /\ \/ t = <<"init">>
                  \/ t = <<"prepare">> /\ Initialised
                  \/ t = <<"send">> /\ Initialised /\ AllPrepared
                  \/ t = <<"exit">> /\ Initialised /\ AllPrepared
  BY Zenon, <1>1, <1>2, Points
<1>6. Moves(p, w, m, Tail(t))
  <2>. HIDE DEF w
  <2>. QED  BY Zenon, <1>1, <1>2, MovesIntro
<1>7. /\ Tail(t) = <<>>
      /\ \/ t = <<"init">> /\ c = "init"
         \/ t = <<"prepare">> /\ c = "prepare" /\ Initialised
         \/ t = <<"send">> /\ c = "send" /\ Initialised /\ AllPrepared
         \/ t = <<"exit">> /\ c = "exited" /\ Initialised /\ AllPrepared
  <2>1. Head(t) # "exit" => c = Head(t)
    BY Zenon
  <2>2. Head(t) = "exit" => c = "exited"
    BY Zenon
  <2>. HIDE DEF c, t
  <2>3. /\ t = <<"init">> => Head(t) = "init" /\ Tail(t) = <<>>
        /\ t = <<"prepare">> => Head(t) = "prepare" /\ Tail(t) = <<>>
        /\ t = <<"send">> => Head(t) = "send" /\ Tail(t) = <<>>
        /\ t = <<"exit">> => Head(t) = "exit" /\ Tail(t) = <<>>
    BY Zenon, <1>4
  <2>. QED  BY Zenon, <1>5, <2>1, <2>2, <2>3, Names
<1>. HIDE DEF c
<1>8. c \in {"idle", "init", "prepare", "send", "sleep", "exited", "reaped"}
  BY Zenon, <1>7
<1>9. /\ w \in Workers /\ w.pc = c /\ w.next = v.next /\ Work(w, <<>>)
  <2>1. Reporting(v, <<>>) => Reporting(v, m)
    BY Zenon, <1>5
  <2>2. \A n, k : Work(v, k) /\ (Reporting(v, n) => Reporting(v, k)) => Work(w, n)
    BY Zenon, <1>1, <1>8, Repointed
  <2>3. w \in Workers /\ w.pc = c /\ w.next = v.next
    <3>. HIDE DEF v
    <3>. QED  BY <1>1, <1>8, Repointed
  <2>. HIDE DEF w, v, m
  <2>. QED  BY Zenon, <1>1, <2>1, <2>2, <2>3
<1>. HIDE DEF w, v, m, t
<1>10. CASE t = <<"init">> /\ c = "init"
  <2>1. Starting(v, m, t) /\ Starting(w, <<>>, <<>>)
    BY Zenon, <1>2, <1>5, <1>9, <1>10 DEF Starting
  <2>2. ~Dead(w)
    BY Zenon, <1>9, <1>10, Names DEF Dead
  <2>. QED  BY Zenon, <1>1, <1>2, <1>5, <1>6, <1>7, <1>9, <1>10, <2>1, <2>2, Places, Names, SenderMove
            DEF At, v, m, t
<1>11. CASE t = <<"prepare">> /\ c = "prepare" /\ Initialised
  <2>1. Preparing(v, m, t) /\ Preparing(w, <<>>, <<>>)
    BY Zenon, <1>2, <1>5, <1>9, <1>11 DEF Preparing
  <2>2. ~Dead(w)
    BY Zenon, <1>9, <1>11, Names DEF Dead
  <2>. QED  BY Zenon, <1>1, <1>2, <1>5, <1>6, <1>7, <1>9, <1>11, <2>1, <2>2, Places, Names, SenderMove
            DEF At, v, m, t
<1>12. CASE t = <<"send">> /\ c = "send" /\ Initialised /\ AllPrepared
  <2>1. Sending(v, m, t) /\ Sending(w, <<>>, <<>>)
    BY Zenon, <1>2, <1>5, <1>9, <1>12 DEF Sending
  <2>2. ~Dead(w)
    BY Zenon, <1>9, <1>12, Names DEF Dead
  <2>3. <<>> # SendOk /\ <<>> # <<"exit">> /\ <<"send">> # <<"exit">>
    BY Zenon, <1>3 DEF Distinct
  <2>. QED  BY Zenon, <1>1, <1>2, <1>5, <1>6, <1>7, <1>9, <1>12, <2>1, <2>2, <2>3, Places, Names, SenderMove
            DEF At, v, m, t
<1>13. CASE t = <<"exit">> /\ c = "exited" /\ Initialised /\ AllPrepared
  <2>1. Sending(v, m, t) /\ Left(w, <<>>, <<>>)
    BY Zenon, <1>2, <1>5, <1>9, <1>13 DEF Sending, Left, Dead
  <2>2. <<>> # SendOk /\ <<>> # InitOk /\ <<>> # PrepareReport /\ <<>> # PrepareOk
    BY Zenon, <1>3 DEF Distinct
  <2>. QED  BY Zenon, <1>1, <1>2, <1>5, <1>6, <1>7, <1>9, <1>13, <2>1, <2>2, Places, Names, SenderMove
            DEF At, v, m, t
<1>. QED  BY Zenon, <1>7, <1>10, <1>11, <1>12, <1>13

\* What a sender that posts messages then has under way.
LEMMA Told ==
    ASSUME NEW w
    PROVE  /\ <<>> \o InitOk = InitOk /\ <<>> \o PrepareReport = PrepareReport
           /\ <<>> \o SendStats(w) = SendStats(w) /\ <<>> \o SendOk = SendOk
           /\ SendStats(w) \o SendOk = SendReport(w)
<1>1. (\A x : <<>> \o <<x>> = <<x>>) /\ (\A x, y : <<>> \o <<x, y>> = <<x, y>>)
  OBVIOUS
<1>. QED  BY Zenon, <1>1 DEF InitOk, PrepareReport, SendStats, SendOk, SendReport

\* A handler that goes on to d, with m as the messages then under way.
Returns(p, d, m) ==
    /\ worker' = [worker EXCEPT ![p].pc = d]
    /\ toMain' = [toMain EXCEPT ![p] = m]
    /\ UNCHANGED <<main, toWorker, failures>>
    /\ toWorker[p] = <<>>

\* Such a handler leaves its sender at d, its work as it was.
LEMMA ReturnMove ==
    ASSUME BenchmarkInv, NEW p \in Procs, NEW d \in {"idle", "sleep"}, NEW m,
           Returns(p, d, m), setup' = setup,
           Reporting(worker[p], m) => worker[p].success + worker[p].failed >= WaitTotal
    PROVE  /\ To(worker[p], d) \in Workers /\ To(worker[p], d).pc = d
           /\ To(worker[p], d).next = worker[p].next
           /\ Work(To(worker[p], d), m) /\ Moves(p, To(worker[p], d), m, <<>>)
           /\ SendReport(To(worker[p], d)) = SendReport(worker[p])
           /\ SendStats(To(worker[p], d)) = SendStats(worker[p])
<1>1. /\ worker[p] \in Workers /\ Work(worker[p], toMain[p])
      /\ DOMAIN toMain = Procs /\ DOMAIN toWorker = Procs
  BY Zenon, SenderFacts
<1>2. Moves(p, To(worker[p], d), m, <<>>)
  <2>1. worker' = [worker EXCEPT ![p] = To(worker[p], d)]
    BY Zenon DEF Returns, To
  <2>2. toMain' = [toMain EXCEPT ![p] = m] /\ UNCHANGED toWorker /\ toWorker[p] = <<>>
    BY Zenon DEF Returns
  <2>3. Moves(p, To(worker[p], d), m, toWorker[p])
    BY Zenon, <1>1, <2>1, <2>2, MovesIntro
  <2>. QED  BY Zenon, <2>2, <2>3
<1>3. /\ To(worker[p], d) \in Workers /\ To(worker[p], d).pc = d
      /\ To(worker[p], d).next = worker[p].next
      /\ To(worker[p], d).open = worker[p].open
      /\ To(worker[p], d).success = worker[p].success
      /\ To(worker[p], d).failed = worker[p].failed
  BY <1>1 DEF To, Workers
<1>4. /\ SendReport(To(worker[p], d)) = SendReport(worker[p])
      /\ SendStats(To(worker[p], d)) = SendStats(worker[p])
  BY Zenon, <1>3 DEF SendReport, SendStats
<1>5. Work(To(worker[p], d), m)
  BY Zenon, <1>1, <1>3, <1>4 DEF Work, Reporting
<1>. QED  BY Zenon, <1>2, <1>3, <1>4, <1>5

\* init ends with init_ok.
LEMMA InitStepInv ==
    ASSUME SetFacts, BenchmarkInv, NEW p \in Procs, init(p), setup' = setup
    PROVE  BenchmarkInv'
<1>. DEFINE v == worker[p]
            w == To(v, "idle")
<1>1. /\ v \in Workers /\ At(v, toMain[p], toWorker[p]) /\ (v.next > 0 => AllPrepared)
      /\ failures \in Nat /\ Distinct(v)
  BY Zenon, SenderFacts
<1>2. v.pc = "init" /\ toMain[p] = <<>> /\ toWorker[p] = <<>> /\ main' = main /\ failures' = failures
  BY Zenon, <1>1, Points DEF init
<1>3. Returns(p, "idle", InitOk) /\ ~Reporting(v, InitOk)
  <2>1. toMain' = [toMain EXCEPT ![p] = toMain[p] \o InitOk]
    BY Zenon DEF init, Tell, InitOk
  <2>2. toMain' = [toMain EXCEPT ![p] = InitOk]
    BY Zenon, <1>2, <2>1, Told
  <2>3. ~Reporting(v, InitOk)
    BY Zenon, <1>1 DEF Reporting, Distinct
  <2>. QED  BY Zenon, <1>2, <2>2, <2>3 DEF init, Returns
<1>4. /\ w \in Workers /\ w.pc = "idle" /\ w.next = v.next /\ Work(w, InitOk)
      /\ Moves(p, w, InitOk, <<>>)
  BY Zenon, <1>3, ReturnMove
<1>. HIDE DEF w
<1>5. Starting(v, <<>>, <<>>) /\ Starting(w, InitOk, <<>>)
  BY Zenon, <1>2, <1>4 DEF Starting
<1>6. ~Dead(w)
  BY Zenon, <1>4, Names DEF Dead
<1>7. At(w, InitOk, <<>>)
  BY Zenon, <1>5 DEF At
<1>. QED  BY Zenon, <1>1, <1>2, <1>4, <1>5, <1>6, <1>7, Places, Names, SenderMove

\* finish reports what was sent: at least all of it.
LEMMA FinishInv ==
    ASSUME SetFacts, BenchmarkInv, NEW p \in Procs, finish(p), setup' = setup
    PROVE  BenchmarkInv'
<1>. DEFINE v == worker[p]
            w == To(v, "sleep")
            m == SendStats(v)
<1>1. /\ v \in Workers /\ At(v, toMain[p], toWorker[p]) /\ (v.next > 0 => AllPrepared)
      /\ failures \in Nat /\ Distinct(v)
  BY Zenon, SenderFacts
<1>2. /\ v.pc = "send" /\ toMain[p] = <<>> /\ toWorker[p] = <<>> /\ main' = main
      /\ failures' = failures /\ Initialised /\ AllPrepared
      /\ v.success + v.failed >= WaitTotal
  BY Zenon, <1>1, Points DEF finish, AllFinished
<1>3. Returns(p, "sleep", m)
  <2>1. toMain' = [toMain EXCEPT ![p] = toMain[p] \o m]
    BY Zenon DEF finish, Tell
  <2>2. toMain' = [toMain EXCEPT ![p] = m]
    BY Zenon, <1>2, <2>1, Told
  <2>. QED  BY Zenon, <1>2, <2>2 DEF finish, Returns
<1>4. /\ w \in Workers /\ w.pc = "sleep" /\ w.next = v.next /\ Work(w, m)
      /\ Moves(p, w, m, <<>>) /\ SendStats(w) = m
  BY Zenon, <1>2, <1>3, ReturnMove
<1>. HIDE DEF w
<1>5. Sending(v, <<>>, <<>>) /\ Sending(w, m, <<>>)
  BY Zenon, <1>2, <1>4 DEF Sending
<1>6. ~Dead(w)
  BY Zenon, <1>4, Names DEF Dead
<1>7. At(w, m, <<>>)
  BY Zenon, <1>2, <1>5 DEF At
<1>8. m # SendOk /\ m # <<>> /\ <<>> # SendOk /\ <<>> # <<"exit">>
  BY Zenon, <1>1 DEF Distinct
<1>. HIDE DEF m
<1>. QED  BY Zenon, <1>1, <1>2, <1>4, <1>5, <1>6, <1>7, <1>8, Places, Names, SenderMove

\* After its pause the sender says send_ok; its statistics may still be under way.
LEMMA SendOkInv ==
    ASSUME SetFacts, BenchmarkInv, NEW p \in Procs, send_ok(p), setup' = setup
    PROVE  BenchmarkInv'
<1>. DEFINE v == worker[p]
            w == To(v, "idle")
            k == toMain[p]
<1>1. /\ v \in Workers /\ At(v, k, toWorker[p]) /\ (v.next > 0 => AllPrepared)
      /\ failures \in Nat /\ Distinct(v) /\ Work(v, k)
  BY Zenon, SenderFacts
<1>2. /\ v.pc = "sleep" /\ toWorker[p] = <<>> /\ main' = main
      /\ failures' = failures /\ Initialised /\ AllPrepared
      /\ k = <<>> \/ k = SendStats(v)
  BY Zenon, <1>1, Points DEF send_ok
<1>3. toMain' = [toMain EXCEPT ![p] = k \o SendOk]
  BY Zenon DEF send_ok, Tell, SendOk
<1>4. PICK m : \/ k = <<>> /\ m = SendOk
               \/ k = SendStats(v) /\ m = SendReport(v)
  BY Zenon, <1>2
<1>5. Returns(p, "idle", m)
  <2>1. k \o SendOk = m
    BY Zenon, <1>4, Told
  <2>2. toMain' = [toMain EXCEPT ![p] = m]
    BY Zenon, <1>3, <2>1
  <2>. QED  BY Zenon, <1>2, <2>2 DEF send_ok, Returns
<1>6. Reporting(v, m) => v.success + v.failed >= WaitTotal
  BY Zenon, <1>1, <1>4 DEF Work, Reporting, Distinct
<1>7. /\ w \in Workers /\ w.pc = "idle" /\ w.next = v.next /\ Work(w, m)
      /\ Moves(p, w, m, <<>>) /\ SendReport(w) = SendReport(v)
  BY Zenon, <1>5, <1>6, ReturnMove
<1>. HIDE DEF w
<1>8. Sending(v, k, <<>>) /\ Sending(w, m, <<>>)
  BY Zenon, <1>2, <1>4, <1>7 DEF Sending
<1>9. ~Dead(w) /\ At(w, m, <<>>)
  BY Zenon, <1>2, <1>7, <1>8, Names DEF Dead, At
<1>10. HasReported(v, k, <<>>) <=> HasReported(w, m, <<>>)
  <2>1. HasReported(v, k, <<>>) <=> k = <<>>
    BY Zenon, <1>1, <1>2, <1>8, Places DEF Distinct
  <2>2. HasReported(w, m, <<>>) <=> m = SendOk
    BY Zenon, <1>1, <1>7, <1>8, Places, Names DEF Distinct
  <2>. QED  BY Zenon, <1>1, <1>4, <2>1, <2>2 DEF Distinct
<1>. HIDE DEF v, k
<1>. QED  BY Zenon, <1>1, <1>2, <1>7, <1>8, <1>9, <1>10, Places, Names, SenderMove DEF v, k

\* prepare ends with its report, or with the sender's death.
LEMMA PrepareInv ==
    ASSUME SetFacts, BenchmarkInv, NEW p \in Procs, prepare(p), setup' = setup
    PROVE  BenchmarkInv'
<1>. DEFINE v == worker[p]
<1>1. /\ v \in Workers /\ At(v, toMain[p], toWorker[p]) /\ (v.next > 0 => AllPrepared)
      /\ failures \in Nat /\ Distinct(v) /\ Work(v, toMain[p])
      /\ DOMAIN toMain = Procs /\ DOMAIN toWorker = Procs
  BY Zenon, SenderFacts
<1>2. /\ v.pc = "prepare" /\ toMain[p] = <<>> /\ toWorker[p] = <<>> /\ main' = main
      /\ Initialised /\ UNCHANGED toWorker
  BY Zenon, <1>1, Points DEF prepare
<1>3. CASE Returns(p, "idle", PrepareReport)
  <2>. DEFINE w == To(v, "idle")
  <2>1. /\ w \in Workers /\ w.pc = "idle" /\ w.next = v.next /\ Work(w, PrepareReport)
        /\ Moves(p, w, PrepareReport, <<>>)
    <3>1. ~Reporting(v, PrepareReport)
      BY Zenon, <1>1 DEF Reporting, Distinct
    <3>. QED  BY Zenon, <1>3, <3>1, ReturnMove
  <2>. HIDE DEF w
  <2>2. Preparing(v, <<>>, <<>>) /\ Preparing(w, PrepareReport, <<>>)
    BY Zenon, <1>2, <2>1 DEF Preparing
  <2>3. ~Dead(w) /\ failures' = failures
    BY Zenon, <1>3, <2>1, Names DEF Dead, Returns
  <2>4. At(w, PrepareReport, <<>>)
    BY Zenon, <1>2, <2>2 DEF At
  <2>5. PrepareReport # PrepareOk /\ <<>> # PrepareOk
    BY Zenon, <1>1 DEF Distinct
  <2>. QED  BY Zenon, <1>1, <1>2, <2>1, <2>2, <2>3, <2>4, <2>5, Places, Names, SenderMove
<1>4. CASE /\ worker' = [worker EXCEPT ![p].pc = "exited"]
           /\ failures' = failures + 1 /\ UNCHANGED toMain
  <2>. DEFINE w == To(v, "exited")
  <2>1. worker' = [worker EXCEPT ![p] = w]
    BY Zenon, <1>4 DEF To
  <2>2. /\ w \in Workers /\ w.pc = "exited" /\ w.next = v.next
        /\ Work(w, <<>>)
    <3>1. Work(v, <<>>)
      BY Zenon, <1>1, <1>2
    <3>. HIDE DEF v
    <3>2. /\ w \in Workers /\ w.pc = "exited" /\ w.next = v.next
          /\ \A m, k : Work(v, k) /\ (Reporting(v, m) => Reporting(v, k)) => Work(w, m)
      BY <1>1, Repointed
    <3>. HIDE DEF w
    <3>. QED  BY Zenon, <3>1, <3>2
  <2>. HIDE DEF w
  <2>3. Moves(p, w, <<>>, <<>>)
    <3>1. UNCHANGED <<toMain, toWorker>> /\ toMain[p] = <<>> /\ toWorker[p] = <<>>
      BY Zenon, <1>2, <1>4
    <3>2. DOMAIN toMain = Procs /\ DOMAIN toWorker = Procs
      BY Zenon, <1>1
    <3>3. Moves(p, w, toMain[p], toWorker[p])
      BY Zenon, <2>1, <3>1, <3>2, MovesIntro
    <3>. QED  BY Zenon, <3>1, <3>3
  <2>4. failures' \in Nat /\ failures' # 0
    BY <1>1, <1>4
  <2>5. Preparing(v, <<>>, <<>>) /\ Left(w, <<>>, <<>>)
    BY Zenon, <1>2, <2>2 DEF Preparing, Left, Dead
  <2>6. At(w, <<>>, <<>>)
    BY Zenon, <2>5 DEF At
  <2>7. <<>> # InitOk /\ <<>> # PrepareReport /\ <<>> # PrepareOk
    BY Zenon, <1>1 DEF Distinct
  <2>. QED  BY Zenon, <1>1, <1>2, <2>2, <2>3, <2>4, <2>5, <2>6, <2>7, Places, Names, SenderMove
<1>5. toMain' = [toMain EXCEPT ![p] = toMain[p] \o PrepareReport]
         => toMain' = [toMain EXCEPT ![p] = PrepareReport]
  BY Zenon, <1>2, Told
<1>. QED  BY Zenon, <1>2, <1>3, <1>4, <1>5 DEF prepare, Returns, Tell

\* A dead sender leaves its messages behind, and counts as all done.
LEMMA FailInv ==
    ASSUME SetFacts, BenchmarkInv, NEW p \in Procs, fail(p), setup' = setup
    PROVE  BenchmarkInv'
<1>. DEFINE v == worker[p]
            m == toMain[p]
            t == toWorker[p]
            w == To(v, "exited")
<1>1. /\ v \in Workers /\ At(v, m, t) /\ (v.next > 0 => AllPrepared)
      /\ failures \in Nat /\ Distinct(v) /\ Work(v, m)
      /\ DOMAIN toMain = Procs /\ DOMAIN toWorker = Procs
  BY Zenon, SenderFacts
<1>2. /\ ~Dead(v) /\ main' = main /\ failures' = failures + 1 /\ UNCHANGED toMain
      /\ worker' = [worker EXCEPT ![p] = w] /\ toWorker' = [toWorker EXCEPT ![p] = <<>>]
  <2>1. ~Dead(v)
    BY DEF fail, Gone, Dead
  <2>. QED  BY Zenon, <2>1 DEF fail, To
<1>3. failures' \in Nat /\ failures' # 0
  BY <1>1, <1>2
<1>4. Moves(p, w, m, <<>>)
  <2>. HIDE DEF w
  <2>. QED  BY Zenon, <1>1, <1>2, MovesIntro
<1>. HIDE DEF v, m, t
<1>5. /\ w \in Workers /\ w.pc = "exited" /\ w.next = v.next
      /\ SendReport(w) = SendReport(v) /\ SendStats(w) = SendStats(v)
      /\ \A n, k : Work(v, k) /\ (Reporting(v, n) => Reporting(v, k)) => Work(w, n)
  BY <1>1, Repointed
<1>. HIDE DEF w
<1>6. Work(w, m)
  BY Zenon, <1>1, <1>5
<1>7. m \in {<<>>, InitWorker, InitOk, PrepareReport, PrepareOk, SendStats(v), SendReport(v), SendOk}
  <2>1. Starting(v, m, t) => m \in {<<>>, InitWorker, InitOk}
    BY Zenon DEF Starting
  <2>2. Preparing(v, m, t) => m \in {<<>>, PrepareReport, PrepareOk}
    BY Zenon DEF Preparing
  <2>3. Sending(v, m, t) => m \in {<<>>, SendStats(v), SendReport(v), SendOk}
    BY Zenon DEF Sending
  <2>. QED  BY Zenon, <1>1, <1>2, <2>1, <2>2, <2>3 DEF At, Waiting, Left
<1>8. Left(w, m, <<>>)
  BY Zenon, <1>5, <1>7 DEF Left, Dead
<1>9. HasInit(v, m, t) => HasInit(w, m, <<>>)
  BY Zenon, <1>8, Places DEF HasInit
<1>10. HasPrepared(v, m, t, Initialised) => HasPrepared(w, m, <<>>, Initialised)
  BY Zenon, <1>8, Places DEF HasPrepared
<1>11. v.pc # "reaped" /\ w.pc # "reaped"
  BY Zenon, <1>2, <1>5, Names DEF Dead
<1>12. At(w, m, <<>>)
  BY Zenon, <1>8 DEF At
<1>. QED  BY Zenon, <1>1, <1>2, <1>3, <1>4, <1>5, <1>6, <1>9, <1>10, <1>11, <1>12, SenderMove
          DEF v, m, t

\* A sender in its send loop, whose indices and counters change.
LEMMA LoopMove ==
    ASSUME SetFacts, BenchmarkInv, NEW p \in Procs, NEW w \in Workers, setup' = setup,
           worker[p].pc = "send", w.pc = "send", Work(w, <<>>),
           worker' = [worker EXCEPT ![p] = w],
           UNCHANGED <<main, toMain, toWorker, failures>>
    PROVE  BenchmarkInv'
<1>. DEFINE v == worker[p]
<1>1. /\ v \in Workers /\ At(v, toMain[p], toWorker[p])
      /\ failures \in Nat /\ Distinct(v)
      /\ DOMAIN toMain = Procs /\ DOMAIN toWorker = Procs
  BY Zenon, SenderFacts
<1>2. toMain[p] = <<>> /\ toWorker[p] = <<>> /\ Initialised /\ AllPrepared
  BY Zenon, <1>1, Points
<1>3. Moves(p, w, <<>>, <<>>)
  BY Zenon, <1>1, <1>2, MovesIntro
<1>4. Sending(v, <<>>, <<>>) /\ Sending(w, <<>>, <<>>)
  BY Zenon, <1>2 DEF Sending
<1>5. ~Dead(w) /\ At(w, <<>>, <<>>)
  BY Zenon, <1>2, <1>4, Names DEF Dead, At
<1>6. <<>> # SendOk /\ <<>> # <<"exit">>
  BY Zenon, <1>1 DEF Distinct
<1>. QED  BY Zenon, <1>1, <1>2, <1>3, <1>4, <1>5, <1>6, Places, Names, SenderMove

\* The record of a sender in its loop, its fields replaced.
Submitted(v, o, n) == [v EXCEPT !.open = o, !.next = n]
Settled(v, k, l, o) == [v EXCEPT !.success = k, !.failed = l, !.open = o]

\* A batch that is submitted changes the open batches and the next one only.
LEMMA SubmittedFields ==
    ASSUME NEW v \in Workers, NEW o \in SUBSET Nat, NEW n \in Nat
    PROVE  /\ Submitted(v, o, n) \in Workers /\ Submitted(v, o, n).pc = v.pc
           /\ Submitted(v, o, n).open = o /\ Submitted(v, o, n).next = n
           /\ Submitted(v, o, n).success = v.success /\ Submitted(v, o, n).failed = v.failed
  BY Zenon DEF Workers, Submitted

\* The same for the record of a settled batch.
LEMMA SettledFields ==
    ASSUME NEW v \in Workers, NEW o \in SUBSET Nat, NEW k \in Nat, NEW l \in Nat
    PROVE  /\ Settled(v, k, l, o) \in Workers /\ Settled(v, k, l, o).pc = v.pc
           /\ Settled(v, k, l, o).open = o /\ Settled(v, k, l, o).next = v.next
           /\ Settled(v, k, l, o).success = k /\ Settled(v, k, l, o).failed = l
  BY Zenon DEF Workers, Settled

\* submit: the new batch is one more open, at next, below the end.
LEMMA SubmitInv ==
    ASSUME SetFacts, BenchmarkInv, NEW p \in Procs, submit(p), setup' = setup
    PROVE  BenchmarkInv'
<1>. DEFINE v == worker[p]
            B == BatchSize
            W == WaitTotal
            w == Submitted(v, v.open \cup {v.next}, v.next + B)
<1>1. /\ v \in Workers /\ Work(v, toMain[p]) /\ At(v, toMain[p], toWorker[p])
  BY Zenon, SenderFacts
<1>2. /\ v.pc = "send" /\ v.next < W /\ worker' = [worker EXCEPT ![p] = w]
      /\ UNCHANGED <<main, toMain, toWorker, failures>>
  BY Zenon DEF submit, Submitted
<1>3. W \in Nat /\ B \in Nat
  BY Zenon, SetupNumbers DEF BenchmarkInv, BenchmarkTypeOK
<1>4. ~Reporting(w, <<>>)
  BY Zenon, AllDistinct DEF Distinct, Reporting
<1>. HIDE DEF v, B, W
<1>5. /\ w \in Workers /\ w.pc = "send" /\ w.open = v.open \cup {v.next} /\ w.next = v.next + B
      /\ w.success = v.success /\ w.failed = v.failed
      /\ v.next \in Nat /\ v.success \in Nat /\ v.failed \in Nat
  <2>1. /\ v.next \in Nat /\ v.success \in Nat /\ v.failed \in Nat /\ v.open \in SUBSET Nat
    BY <1>1 DEF Workers
  <2>2. v.open \cup {v.next} \in SUBSET Nat /\ v.next + B \in Nat
    BY <1>3, <2>1
  <2>3. /\ w \in Workers /\ w.pc = v.pc /\ w.open = v.open \cup {v.next} /\ w.next = v.next + B
        /\ w.success = v.success /\ w.failed = v.failed
    <3>. DEFINE o == v.open \cup {v.next}
                n == v.next + B
    <3>1. w = Submitted(v, o, n)
      OBVIOUS
    <3>. HIDE DEF w, o, n
    <3>2. o \in SUBSET Nat /\ n \in Nat
      BY <2>2 DEF o, n
    <3>3. /\ w \in Workers /\ w.pc = v.pc /\ w.open = o /\ w.next = n
          /\ w.success = v.success /\ w.failed = v.failed
      BY <1>1, <3>1, <3>2, SubmittedFields
    <3>. QED  BY Zenon, <3>3 DEF o, n
  <2>. HIDE DEF w
  <2>. QED  BY Zenon, <1>2, <2>1, <2>3
<1>. HIDE DEF w
<1>6. IsFiniteSet(v.open) /\ v.success + v.failed + B * Cardinality(v.open) <= v.next
  BY Zenon, <1>1 DEF Work, B
<1>7. /\ IsFiniteSet(w.open) /\ Cardinality(v.open) \in Nat
      /\ Cardinality(w.open) = Cardinality(v.open) \/ Cardinality(w.open) = Cardinality(v.open) + 1
  BY <1>5, <1>6, CardAdd, CardNat
<1>8. w.success + w.failed + B * Cardinality(w.open) <= w.next
  <2>. DEFINE k == Cardinality(v.open)
              l == Cardinality(w.open)
              x == B * k
              y == B * l
  <2>1. k \in Nat /\ (l = k \/ l = k + 1) /\ x \in Nat
    BY Zenon, <1>3, <1>7, OneMore
  <2>2. y = x \/ y = x + B
    <3>. HIDE DEF k, l
    <3>. QED  BY Zenon, <1>3, <2>1, OneMore
  <2>3. v.success + v.failed + x <= v.next
    BY Zenon, <1>6
  <2>. HIDE DEF k, l, x, y
  <2>4. v.success + v.failed + y <= v.next + B
    BY <1>3, <1>5, <2>1, <2>2, <2>3
  <2>. QED  BY Zenon, <1>5, <2>4 DEF y, l
<1>9. w.next < W + B
  BY <1>2, <1>3, <1>5
<1>10. Work(w, <<>>)
  BY Zenon, <1>4, <1>7, <1>8, <1>9 DEF Work, B, W
<1>. QED  BY Zenon, <1>2, <1>5, <1>10, LoopMove DEF v

\* settle: the transactions of an open batch become counted ones.
LEMMA SettleInv ==
    ASSUME SetFacts, BenchmarkInv, NEW p \in Procs, settle(p), setup' = setup
    PROVE  BenchmarkInv'
<1>. DEFINE v == worker[p]
            B == BatchSize
            W == WaitTotal
<1>1. /\ v \in Workers /\ Work(v, toMain[p]) /\ At(v, toMain[p], toWorker[p])
  BY Zenon, SenderFacts
<1>2. /\ v.pc = "send" /\ UNCHANGED <<main, toMain, toWorker, failures>>
  BY Zenon DEF settle
<1>3. PICK i \in v.open, ok \in BOOLEAN :
         worker' = [worker EXCEPT ![p] = [Count(v, ok, B) EXCEPT !.open = v.open \ {i}]]
  BY Zenon DEF settle
<1>4. W \in Nat /\ B \in Nat
  BY Zenon, SetupNumbers DEF BenchmarkInv, BenchmarkTypeOK
<1>. DEFINE w == [Count(v, ok, B) EXCEPT !.open = v.open \ {i}]
<1>5. ~Reporting(w, <<>>)
  BY Zenon, AllDistinct DEF Distinct, Reporting
<1>. HIDE DEF v, B, W
<1>6. /\ w \in Workers /\ w.pc = "send" /\ w.open = v.open \ {i} /\ w.next = v.next
      /\ w.success + w.failed = v.success + v.failed + B
      /\ v.next \in Nat /\ v.success \in Nat /\ v.failed \in Nat
      /\ w.success \in Nat /\ w.failed \in Nat
  <2>1. v.next \in Nat /\ v.success \in Nat /\ v.failed \in Nat /\ v.open \in SUBSET Nat
    BY <1>1 DEF Workers
  <2>2. CASE ok
    <3>1. w = Settled(v, v.success + B, v.failed, v.open \ {i})
      BY <1>1, <2>2 DEF Count, Workers, Settled
    <3>2. v.success + B \in Nat /\ v.open \ {i} \in SUBSET Nat
      BY <1>4, <2>1
    <3>. HIDE DEF w
    <3>3. /\ w \in Workers /\ w.pc = "send" /\ w.open = v.open \ {i} /\ w.next = v.next
          /\ w.success = v.success + B /\ w.failed = v.failed
      <4>. DEFINE o == v.open \ {i}
                  k == v.success + B
                  l == v.failed
      <4>1. w = Settled(v, k, l, o) /\ k \in Nat /\ l \in Nat
        BY Zenon, <2>1, <3>1, <3>2
      <4>2. o \in SUBSET Nat
        BY <3>2
      <4>. HIDE DEF o, k, l
      <4>3. v \in Workers /\ k \in Nat /\ l \in Nat
        BY Zenon, <1>1, <4>1
      <4>4. /\ Settled(v, k, l, o) \in Workers /\ Settled(v, k, l, o).pc = v.pc
            /\ Settled(v, k, l, o).open = o /\ Settled(v, k, l, o).next = v.next
            /\ Settled(v, k, l, o).success = k /\ Settled(v, k, l, o).failed = l
        BY <4>2, <4>3, SettledFields
      <4>5. /\ w \in Workers /\ w.pc = v.pc /\ w.open = o /\ w.next = v.next
            /\ w.success = k /\ w.failed = l
        BY Zenon, <4>1, <4>4
      <4>. QED  BY Zenon, <1>2, <4>5 DEF o, k, l
    <3>. QED  BY <1>4, <2>1, <3>3
  <2>3. CASE ~ok
    <3>1. w = Settled(v, v.success, v.failed + B, v.open \ {i})
      BY <1>1, <2>3 DEF Count, Workers, Settled
    <3>2. v.failed + B \in Nat /\ v.open \ {i} \in SUBSET Nat
      BY <1>4, <2>1
    <3>. HIDE DEF w
    <3>3. /\ w \in Workers /\ w.pc = "send" /\ w.open = v.open \ {i} /\ w.next = v.next
          /\ w.success = v.success /\ w.failed = v.failed + B
      <4>. DEFINE o == v.open \ {i}
                  k == v.success
                  l == v.failed + B
      <4>1. w = Settled(v, k, l, o) /\ k \in Nat /\ l \in Nat
        BY Zenon, <2>1, <3>1, <3>2
      <4>2. o \in SUBSET Nat
        BY <3>2
      <4>. HIDE DEF o, k, l
      <4>3. v \in Workers /\ k \in Nat /\ l \in Nat
        BY Zenon, <1>1, <4>1
      <4>4. /\ Settled(v, k, l, o) \in Workers /\ Settled(v, k, l, o).pc = v.pc
            /\ Settled(v, k, l, o).open = o /\ Settled(v, k, l, o).next = v.next
            /\ Settled(v, k, l, o).success = k /\ Settled(v, k, l, o).failed = l
        BY <4>2, <4>3, SettledFields
      <4>5. /\ w \in Workers /\ w.pc = v.pc /\ w.open = o /\ w.next = v.next
            /\ w.success = k /\ w.failed = l
        BY Zenon, <4>1, <4>4
      <4>. QED  BY Zenon, <1>2, <4>5 DEF o, k, l
    <3>. QED  BY <1>4, <2>1, <3>3
  <2>. QED  BY Zenon, <2>2, <2>3
<1>7. /\ IsFiniteSet(v.open) /\ v.success + v.failed + B * Cardinality(v.open) <= v.next
      /\ v.next = 0 \/ v.next < W + B
  BY Zenon, <1>1 DEF Work, B, W
<1>8. worker' = [worker EXCEPT ![p] = w]
  BY Zenon, <1>3
<1>. HIDE DEF w
<1>9. /\ IsFiniteSet(w.open) /\ Cardinality(w.open) \in Nat
      /\ Cardinality(v.open) = Cardinality(w.open) + 1
  <2>1. IsFiniteSet(w.open) /\ Cardinality(w.open) \in Nat
    BY <1>6, <1>7, CardRemove, CardNat
  <2>2. v.open = w.open \cup {i} /\ i \notin w.open
    <3>1. w.open = v.open \ {i} /\ i \in v.open
      BY Zenon, <1>3, <1>6
    <3>. QED  BY <3>1
  <2>. QED  BY Zenon, <2>1, <2>2, CardAdd
<1>10. w.success + w.failed + B * Cardinality(w.open) <= w.next
  <2>. DEFINE l == Cardinality(w.open)
              x == B * Cardinality(v.open)
              y == B * l
  <2>1. x = y + B /\ y \in Nat
    <3>. HIDE DEF l
    <3>1. l \in Nat /\ Cardinality(v.open) = l + 1
      BY Zenon, <1>9 DEF l
    <3>. QED  BY Zenon, <1>4, <3>1, OneMore
  <2>2. v.success + v.failed + x <= v.next
    BY Zenon, <1>7
  <2>. HIDE DEF l, x, y
  <2>3. w.success + w.failed + y <= w.next
    BY <1>4, <1>6, <2>1, <2>2
  <2>. QED  BY Zenon, <2>3 DEF y, l
<1>11. Work(w, <<>>)
  BY Zenon, <1>5, <1>6, <1>7, <1>9, <1>10 DEF Work, B, W
<1>. QED  BY Zenon, <1>2, <1>6, <1>8, <1>11, LoopMove DEF v

-----------------------------------------------------------------------------
(* The steps of the main script.                                           *)

\* The main script becomes a, or ends as a would.
Becomes(a) ==
    /\ main' \in Mains
    /\ main'.init_ok = a.init_ok /\ main'.prepare_ok = a.prepare_ok
    /\ main'.exited = a.exited /\ main'.prepared = a.prepared
    /\ main'.success = a.success /\ main'.failed = a.failed /\ main'.finished = a.finished
    /\ main'.status = "done" => a.status = "done"

\* Posting to a sender that is gone may end the main script, and does no more.
LEMMA PostMain ==
    ASSUME NEW ps, NEW c, NEW a \in Mains, Post(ps, c, a)
    PROVE  Becomes(a)
<1>1. CASE main' = a
  BY Zenon, <1>1 DEF Becomes
<1>2. CASE main' = [a EXCEPT !.status = "crashed"]
  <2>1. main' \in Mains /\ main'.status = "crashed"
    BY Zenon, <1>2 DEF Mains
  <2>2. /\ main'.init_ok = a.init_ok /\ main'.prepare_ok = a.prepare_ok
        /\ main'.exited = a.exited /\ main'.prepared = a.prepared
        /\ main'.success = a.success /\ main'.failed = a.failed /\ main'.finished = a.finished
    BY Zenon, <1>2 DEF Mains
  <2>3. "crashed" # "done"
    OBVIOUS
  <2>. QED  BY Zenon, <2>1, <2>2, <2>3 DEF Becomes
<1>. QED  BY Zenon, <1>1, <1>2 DEF Post

\* What a sender has left in its channel, and where that sender then is.
LEMMA Heads ==
    ASSUME NEW v, NEW m, NEW t, At(v, m, t), m # <<>>
    PROVE  /\ t = <<>> /\ (v.pc = "idle" \/ Dead(v) \/ (v.pc = "sleep" /\ m = SendStats(v)))
           /\ \/ m = InitWorker \/ m = InitOk \/ m = PrepareReport
              \/ m = PrepareOk \/ m = SendOk \/ Reporting(v, m)
           /\ v.pc = "idle" /\ (m = PrepareReport \/ m = PrepareOk) => Initialised
           /\ v.pc = "idle" /\ (m = SendReport(v) \/ m = SendOk) => Initialised /\ AllPrepared
           /\ v.pc = "idle" => m # SendStats(v)
           /\ v.pc = "sleep" => Initialised /\ AllPrepared
<1>1. Starting(v, m, t) => t = <<>> /\ v.pc = "idle" /\ (m = InitWorker \/ m = InitOk)
  BY Zenon DEF Starting
<1>2. Preparing(v, m, t) => t = <<>> /\ v.pc = "idle" /\ (m = PrepareReport \/ m = PrepareOk)
  BY Zenon DEF Preparing
<1>3. Sending(v, m, t) => /\ t = <<>>
                          /\ \/ v.pc = "idle" /\ (m = SendReport(v) \/ m = SendOk)
                             \/ v.pc = "sleep" /\ m = SendStats(v)
  BY Zenon DEF Sending
<1>4. Left(v, m, t) => /\ t = <<>> /\ Dead(v) /\ v.pc # "idle" /\ v.pc # "sleep"
                       /\ \/ m = InitWorker \/ m = InitOk \/ m = PrepareReport
                          \/ m = PrepareOk \/ m = SendOk \/ Reporting(v, m)
  BY Zenon, Names DEF Left, Dead, Reporting
<1>5. ~Waiting(v, m, t)
  BY Zenon DEF Waiting
<1>6. Distinct(v)
  BY Zenon, AllDistinct
<1>7. At(v, m, t)
  OBVIOUS
<1>8. /\ t = <<>> /\ (v.pc = "idle" \/ Dead(v) \/ (v.pc = "sleep" /\ m = SendStats(v)))
      /\ \/ m = InitWorker \/ m = InitOk \/ m = PrepareReport
         \/ m = PrepareOk \/ m = SendOk \/ Reporting(v, m)
  BY Zenon, <1>1, <1>2, <1>3, <1>4, <1>5, <1>7 DEF At, Reporting
<1>9. v.pc = "idle" /\ (m = PrepareReport \/ m = PrepareOk) => Initialised
  BY Zenon, <1>1, <1>4, <1>5, <1>6, <1>7 DEF At, Distinct
<1>10. v.pc = "idle" /\ (m = SendReport(v) \/ m = SendOk) => Initialised /\ AllPrepared
  BY Zenon, <1>1, <1>2, <1>4, <1>5, <1>6, <1>7 DEF At, Distinct
<1>11. v.pc = "idle" => m # SendStats(v)
  BY Zenon, <1>1, <1>2, <1>3, <1>4, <1>5, <1>6, <1>7, Names DEF At, Distinct
<1>12. v.pc = "sleep" => Initialised /\ AllPrepared
  BY Zenon, <1>1, <1>2, <1>4, <1>5, <1>7, Names DEF At
<1>. QED  BY Zenon, <1>8, <1>9, <1>10, <1>11, <1>12

\* The counters after a message.
Readied == [main EXCEPT !.init_ok = @ + 1]
PreparedOne == [main EXCEPT !.prepare_ok = @ + 1]
AddPrepared == [main EXCEPT !.prepared = @ + Prepared]
AddSent(v) == [main EXCEPT !.success = @ + v.success, !.failed = @ + v.failed,
                           !.finished = @ + (v.success + v.failed)]

\* What on_message does, by what is in the channel.
LEMMA MessageCases ==
    ASSUME BenchmarkInv, NEW p \in Procs, on_message(p)
    PROVE  /\ worker' = worker /\ failures' = failures
           /\ toMain' = [toMain EXCEPT ![p] = Tail(toMain[p])]
           /\ toMain[p] # <<>> /\ toWorker[p] = <<>>
           /\ \/ toMain[p] = InitWorker /\ Post({p}, "init", main)
              \/ /\ toMain[p] = InitOk
                 /\ \/ InitBarrier(Readied.init_ok) /\ Post(Procs, "prepare", Readied)
                    \/ ~InitBarrier(Readied.init_ok) /\ Keep(Readied)
              \/ toMain[p] = PrepareReport /\ Keep(AddPrepared)
              \/ /\ toMain[p] = PrepareOk
                 /\ \/ PrepareBarrier(PreparedOne.prepare_ok) /\ Post(Procs, "send", PreparedOne)
                    \/ ~PrepareBarrier(PreparedOne.prepare_ok) /\ Keep(PreparedOne)
              \/ Reporting(worker[p], toMain[p]) /\ Keep(AddSent(worker[p]))
              \/ toMain[p] = SendOk /\ Post({p}, "exit", main)
<1>. DEFINE v == worker[p]
            m == toMain[p]
            msg == Head(m)
<1>1. /\ worker' = worker /\ failures' = failures
      /\ toMain' = [toMain EXCEPT ![p] = Tail(toMain[p])] /\ m # <<>>
  BY Zenon DEF on_message
<1>2. \/ msg.cmd = "init_worker" /\ Post({p}, "init", main)
      \/ /\ msg.cmd = "init_ok"
         /\ IF InitBarrier(Readied.init_ok)
            THEN Post(Procs, "prepare", Readied) ELSE Keep(Readied)
      \/ /\ msg.cmd = "prepare_ok"
         /\ IF PrepareBarrier(PreparedOne.prepare_ok)
            THEN Post(Procs, "send", PreparedOne) ELSE Keep(PreparedOne)
      \/ /\ msg.cmd = "prepare_stats"
         /\ Keep([main EXCEPT !.prepared = @ + msg.finished])
      \/ /\ msg.cmd = "send_stats"
         /\ Keep([main EXCEPT !.success = @ + msg.success,
                              !.failed = @ + msg.failed,
                              !.finished = @ + msg.finished])
      \/ msg.cmd = "send_ok" /\ Post({p}, "exit", main)
  BY Zenon DEF on_message, Readied, PreparedOne
<1>3. /\ toWorker[p] = <<>>
      /\ \/ m = InitWorker \/ m = InitOk \/ m = PrepareReport
         \/ m = PrepareOk \/ m = SendOk \/ Reporting(v, m)
  <2>1. At(v, m, toWorker[p])
    BY Zenon, SenderFacts
  <2>. HIDE DEF v, m
  <2>. QED  BY <1>1, <2>1, Heads
<1>4. /\ "init_worker" # "init_ok" /\ "init_worker" # "prepare_ok" /\ "init_worker" # "prepare_stats"
      /\ "init_worker" # "send_stats" /\ "init_worker" # "send_ok" /\ "init_ok" # "prepare_ok"
      /\ "init_ok" # "prepare_stats" /\ "init_ok" # "send_stats" /\ "init_ok" # "send_ok"
      /\ "prepare_ok" # "prepare_stats" /\ "prepare_ok" # "send_stats" /\ "prepare_ok" # "send_ok"
      /\ "prepare_stats" # "send_stats" /\ "prepare_stats" # "send_ok" /\ "send_stats" # "send_ok"
  OBVIOUS
<1>5. /\ m = InitWorker => msg.cmd = "init_worker"
      /\ m = InitOk => msg.cmd = "init_ok"
      /\ m = PrepareOk => msg.cmd = "prepare_ok"
      /\ m = SendOk => msg.cmd = "send_ok"
      /\ m = PrepareReport => msg.cmd = "prepare_stats" /\ msg.finished = Prepared
      /\ Reporting(v, m) =>
            /\ msg.cmd = "send_stats" /\ msg.success = v.success /\ msg.failed = v.failed
            /\ msg.finished = v.success + v.failed
  <2>1. m = SendReport(v) \/ m = SendStats(v) => msg = Head(SendReport(v))
    BY Zenon, Messages
  <2>2. Reporting(v, m) => msg = Head(SendReport(v))
    BY Zenon, <2>1 DEF Reporting
  <2>3. LET x == Head(SendReport(v)) IN
           /\ x.cmd = "send_stats" /\ x.success = v.success /\ x.failed = v.failed
           /\ x.finished = v.success + v.failed
    BY Zenon, Messages
  <2>4. /\ m = InitWorker => msg.cmd = "init_worker"
        /\ m = InitOk => msg.cmd = "init_ok"
        /\ m = PrepareOk => msg.cmd = "prepare_ok"
        /\ m = SendOk => msg.cmd = "send_ok"
        /\ m = PrepareReport => msg.cmd = "prepare_stats" /\ msg.finished = Prepared
    BY Zenon, Messages
  <2>. HIDE DEF msg, m, v
  <2>. QED  BY Zenon, <2>2, <2>3, <2>4
<1>. HIDE DEF msg, m, v
<1>6. m = PrepareReport => [main EXCEPT !.prepared = @ + msg.finished] = AddPrepared
  BY Zenon, <1>5 DEF AddPrepared
<1>7. Reporting(v, m) =>
         [main EXCEPT !.success = @ + msg.success, !.failed = @ + msg.failed,
                      !.finished = @ + msg.finished] = AddSent(v)
  BY Zenon, <1>5 DEF AddSent
<1>8. \/ m = InitWorker /\ Post({p}, "init", main)
      \/ /\ m = InitOk
         /\ \/ InitBarrier(Readied.init_ok) /\ Post(Procs, "prepare", Readied)
            \/ ~InitBarrier(Readied.init_ok) /\ Keep(Readied)
      \/ m = PrepareReport /\ Keep(AddPrepared)
      \/ /\ m = PrepareOk
         /\ \/ PrepareBarrier(PreparedOne.prepare_ok) /\ Post(Procs, "send", PreparedOne)
            \/ ~PrepareBarrier(PreparedOne.prepare_ok) /\ Keep(PreparedOne)
      \/ Reporting(v, m) /\ Keep(AddSent(v))
      \/ m = SendOk /\ Post({p}, "exit", main)
  BY Zenon, <1>2, <1>3, <1>4, <1>5, <1>6, <1>7
<1>. QED  BY Zenon, <1>1, <1>3, <1>8 DEF m, v

\* The first message of p is taken, and p gets the queue t.
Takes(p, t) ==
    /\ worker' = worker /\ failures' = failures
    /\ toMain' = [toMain EXCEPT ![p] = Tail(toMain[p])]
    /\ DOMAIN toWorker' = Procs /\ toWorker'[p] = t
    /\ \A q \in Procs : q # p => toWorker'[q] = toWorker[q]

\* A message that is taken moves p alone, to where its new queues say, as long as the
\* step passes no barrier.
LEMMA TakesMove ==
    ASSUME BenchmarkInv, NEW p \in Procs, NEW m, NEW t, Takes(p, t), Tail(toMain[p]) = m,
           setup' = setup, main' \in Mains,
           Initialised' <=> Initialised, AllPrepared' <=> AllPrepared,
           At(worker[p], m, t), ~Reporting(worker[p], m)
    PROVE  /\ BenchmarkTypeOK' /\ Alone(p) /\ Counted(p, worker[p], m, t)
           /\ Stage(p)' /\ Work(worker[p], toMain[p])'
           /\ worker'[p].next > 0 => AllPrepared'
           /\ worker'[p] = worker[p] /\ toMain'[p] = m
<1>1. /\ worker[p] \in Workers /\ Work(worker[p], toMain[p]) /\ (worker[p].next > 0 => AllPrepared)
      /\ failures \in Nat /\ DOMAIN toMain = Procs /\ DOMAIN toWorker = Procs
  BY Zenon, SenderFacts
<1>2. BenchmarkTypeOK
  BY Zenon DEF BenchmarkInv
<1>3. worker' = [worker EXCEPT ![p] = worker[p]]
  BY <1>2 DEF Takes, BenchmarkTypeOK
<1>4. Moves(p, worker[p], m, t)
  BY Zenon, <1>1, <1>3 DEF Moves, Takes
<1>5. Work(worker[p], m)
  BY Zenon, <1>1 DEF Work
<1>6. failures' \in Nat
  BY Zenon, <1>1 DEF Takes
<1>. QED  BY Zenon, <1>1, <1>2, <1>4, <1>5, <1>6, OneMoves

\* A message posted to one sender: lost if it is gone.
LEMMA PostOne ==
    ASSUME NEW p \in Procs, NEW c, NEW a, Post({p}, c, a), toWorker[p] = <<>>,
           DOMAIN toWorker = Procs
    PROVE  /\ DOMAIN toWorker' = Procs
           /\ toWorker'[p] = IF Dead(worker[p]) THEN <<>> ELSE <<c>>
           /\ \A q \in Procs : q # p => toWorker'[q] = toWorker[q]
<1>1. toWorker' = [q \in Procs |->
          IF q \in {p} /\ ~Gone(q) THEN Append(toWorker[q], c) ELSE toWorker[q]]
  BY Zenon DEF Post
<1>2. Gone(p) <=> Dead(worker[p])
  BY Zenon DEF Gone, Dead
<1>3. Append(<<>>, c) = <<c>>
  OBVIOUS
<1>. QED  BY Zenon, <1>1, <1>2, <1>3

\* Only the counters a barrier needs matter to the barriers.
LEMMA BarriersKept ==
    ASSUME setup' = setup, main'.init_ok = main.init_ok
    PROVE  Initialised' <=> Initialised
  BY Zenon, SetupKept DEF Kept, Initialised

\* The same for the prepare barrier.
LEMMA PrepareBarrierKept ==
    ASSUME setup' = setup, main'.prepare_ok = main.prepare_ok
    PROVE  AllPrepared' <=> AllPrepared
  BY Zenon, SetupKept DEF Kept, AllPrepared

\* Totals when nothing is reported.
LEMMA TotalsKept ==
    ASSUME BenchmarkInv, NEW p \in Procs, NEW w, NEW m, NEW t, Counted(p, w, m, t),
           main'.finished = main.finished, main'.success = main.success,
           main'.failed = main.failed, failures' = failures,
           worker'[p] = w, toMain'[p] = m,
           failures = 0 =>
              /\ Dead(w) => m = <<>>
              /\ HasReported(worker[p], toMain[p], toWorker[p]) <=> HasReported(w, m, t)
    PROVE  TotalsMove(p)
  BY Zenon DEF Counted, TotalsMove, BenchmarkInv, Totals

\* init_worker is answered with init, send_ok with exit.
LEMMA AnswerInv ==
    ASSUME SetFacts, BenchmarkInv, NEW p \in Procs, setup' = setup, NEW c, Post({p}, c, main),
           worker' = worker, failures' = failures,
           toMain' = [toMain EXCEPT ![p] = Tail(toMain[p])],
           \/ toMain[p] = InitWorker /\ c = "init"
           \/ toMain[p] = SendOk /\ c = "exit"
    PROVE  BenchmarkInv'
<1>. DEFINE v == worker[p]
            m == toMain[p]
            t == IF Dead(v) THEN <<>> ELSE <<c>>
<1>1. /\ v \in Workers /\ At(v, m, toWorker[p]) /\ Distinct(v) /\ main \in Mains
      /\ DOMAIN toWorker = Procs /\ (failures = 0 => (Dead(v) => m = <<>>))
  BY Zenon, SenderFacts
<1>2. m # <<>> /\ Tail(m) = <<>>
  BY Zenon, Messages
<1>3. Becomes(main)
  BY Zenon, <1>1, PostMain
<1>4. (Initialised' <=> Initialised) /\ (AllPrepared' <=> AllPrepared)
  BY Zenon, <1>3, BarriersKept, PrepareBarrierKept DEF Becomes
<1>5. toWorker[p] = <<>> /\ (v.pc = "idle" \/ Dead(v))
      /\ (v.pc = "idle" /\ m = SendOk => Initialised /\ AllPrepared)
  <2>1. m # SendStats(v)
    BY Zenon, <1>1 DEF Distinct
  <2>. HIDE DEF v, m
  <2>. QED  BY <1>1, <1>2, <2>1, Heads
<1>6. Takes(p, t)
  BY Zenon, <1>1, <1>5, PostOne DEF Takes
<1>7. ASSUME At(v, <<>>, t),
             HasInit(v, m, <<>>) => HasInit(v, <<>>, t),
             HasPrepared(v, m, <<>>, Initialised) => HasPrepared(v, <<>>, t, Initialised),
             m # PrepareOk,
             failures = 0 => (HasReported(v, m, <<>>) <=> HasReported(v, <<>>, t))
      PROVE  BenchmarkInv'
  <2>1. ~Reporting(v, <<>>) /\ main' \in Mains /\ <<>> # PrepareOk
    BY Zenon, <1>1, <1>3 DEF Distinct, Becomes, Reporting
  <2>. HIDE DEF t
  <2>2. /\ BenchmarkTypeOK' /\ Alone(p) /\ Counted(p, v, <<>>, t)
        /\ Stage(p)' /\ Work(worker[p], toMain[p])'
        /\ worker'[p].next > 0 => AllPrepared'
        /\ worker'[p] = v /\ toMain'[p] = <<>>
    BY Zenon, <1>2, <1>4, <1>6, <1>7, <2>1, TakesMove
  <2>3. InitMove(p) /\ PrepareMove(p) /\ PreparedMove(p) /\ ExitMove(p)
    BY Zenon, <1>3, <1>5, <1>7, <2>1, <2>2
       DEF Counted, InitMove, PrepareMove, PreparedMove, ExitMove, Becomes
  <2>4. TotalsMove(p)
    BY Zenon, <1>3, <1>5, <1>7, <2>2, TotalsKept DEF Becomes
  <2>. QED  BY Zenon, <2>2, <2>3, <2>4, AloneInv
<1>8. CASE Dead(v)
  <2>1. t = <<>> /\ failures # 0
    BY Zenon, <1>1, <1>2, <1>8
  <2>. HIDE DEF v, m, t
  <2>2. Left(v, <<>>, <<>>) /\ Left(v, m, <<>>) /\ m # PrepareOk
    BY Zenon, <1>1, <1>8 DEF Left, Distinct, m
  <2>3. At(v, <<>>, <<>>) /\ <<>> # InitOk /\ <<>> # PrepareReport /\ <<>> # PrepareOk
    BY Zenon, <1>1, <2>2 DEF At, Distinct
  <2>4. HasInit(v, <<>>, <<>>) /\ HasPrepared(v, <<>>, <<>>, Initialised)
    BY Zenon, <2>2, <2>3, Places
  <2>. QED  BY Zenon, <1>7, <2>1, <2>2, <2>3, <2>4
<1>9. CASE v.pc = "idle" /\ m = InitWorker /\ c = "init"
  <2>1. t = <<"init">> /\ ~Dead(v)
    BY Zenon, <1>9, Names DEF Dead
  <2>. HIDE DEF v, m, t
  <2>2. Starting(v, m, <<>>) /\ Starting(v, <<>>, t)
    BY Zenon, <1>9, <2>1 DEF Starting
  <2>3. At(v, <<>>, t)
    BY Zenon, <2>2 DEF At
  <2>. QED  BY Zenon, <1>7, <2>2, <2>3, Places
<1>10. CASE v.pc = "idle" /\ m = SendOk /\ c = "exit"
  <2>1. t = <<"exit">> /\ ~Dead(v)
    BY Zenon, <1>10, Names DEF Dead
  <2>. HIDE DEF v, m, t
  <2>2. Sending(v, m, <<>>) /\ Sending(v, <<>>, t)
    BY Zenon, <1>10, <2>1 DEF Sending
  <2>3. At(v, <<>>, t)
    BY Zenon, <1>5, <1>10, <2>2 DEF At
  <2>. QED  BY Zenon, <1>7, <1>10, <2>1, <2>2, <2>3, Places
<1>. QED  BY Zenon, <1>5, <1>8, <1>9, <1>10

\* The records of the main script after a message.
LEMMA Counters ==
    ASSUME main \in Mains, Prepared \in Nat, NEW v \in Workers
    PROVE  /\ Readied \in Mains /\ Readied.init_ok = main.init_ok + 1
           /\ PreparedOne \in Mains /\ PreparedOne.prepare_ok = main.prepare_ok + 1
           /\ AddPrepared \in Mains /\ AddPrepared.prepared = main.prepared + Prepared
           /\ AddSent(v) \in Mains /\ AddSent(v).success = main.success + v.success
           /\ AddSent(v).failed = main.failed + v.failed
           /\ AddSent(v).finished = main.finished + (v.success + v.failed)
           /\ \A f \in {"status", "prepare_ok", "exited", "prepared", "success", "failed", "finished"} :
                 Readied[f] = main[f]
           /\ \A f \in {"status", "init_ok", "exited", "prepared", "success", "failed", "finished"} :
                 PreparedOne[f] = main[f]
           /\ \A f \in {"status", "init_ok", "prepare_ok", "exited", "success", "failed", "finished"} :
                 AddPrepared[f] = main[f]
           /\ \A f \in {"status", "init_ok", "prepare_ok", "exited", "prepared"} :
                 AddSent(v)[f] = main[f]
<1>1. /\ main.init_ok + 1 \in Nat /\ main.prepare_ok + 1 \in Nat /\ main.prepared + Prepared \in Nat
      /\ main.success + v.success \in Nat /\ main.failed + v.failed \in Nat
      /\ main.finished + (v.success + v.failed) \in Nat
  BY DEF Mains, Workers
<1>2. /\ Readied \in Mains /\ Readied.init_ok = main.init_ok + 1
      /\ \A f \in {"status", "prepare_ok", "exited", "prepared", "success", "failed", "finished"} :
            Readied[f] = main[f]
  BY Zenon, <1>1 DEF Mains, Readied
<1>3. /\ PreparedOne \in Mains /\ PreparedOne.prepare_ok = main.prepare_ok + 1
      /\ \A f \in {"status", "init_ok", "exited", "prepared", "success", "failed", "finished"} :
            PreparedOne[f] = main[f]
  BY Zenon, <1>1 DEF Mains, PreparedOne
<1>4. /\ AddPrepared \in Mains /\ AddPrepared.prepared = main.prepared + Prepared
      /\ \A f \in {"status", "init_ok", "prepare_ok", "exited", "success", "failed", "finished"} :
            AddPrepared[f] = main[f]
  BY Zenon, <1>1 DEF Mains, AddPrepared
<1>5. /\ AddSent(v) \in Mains /\ AddSent(v).success = main.success + v.success
      /\ AddSent(v).failed = main.failed + v.failed
      /\ AddSent(v).finished = main.finished + (v.success + v.failed)
      /\ \A f \in {"status", "init_ok", "prepare_ok", "exited", "prepared"} : AddSent(v)[f] = main[f]
  BY Zenon, <1>1 DEF Mains, AddSent
<1>. QED  BY Zenon, <1>2, <1>3, <1>4, <1>5

\* A message that is only counted.
LEMMA KeepTakes ==
    ASSUME NEW p \in Procs, NEW a, Keep(a), worker' = worker, failures' = failures,
           toMain' = [toMain EXCEPT ![p] = Tail(toMain[p])], DOMAIN toWorker = Procs,
           toWorker[p] = <<>>
    PROVE  main' = a /\ Takes(p, <<>>)
  BY Zenon DEF Keep, Takes

\* init_ok before the last one: p is among the initialised ones for the first
\* time, so the barrier was not and is not reached.
LEMMA ReadyInv ==
    ASSUME SetFacts, BenchmarkInv, NEW p \in Procs, setup' = setup, Keep(Readied),
           ~InitBarrier(Readied.init_ok), toMain[p] = InitOk,
           worker' = worker, failures' = failures,
           toMain' = [toMain EXCEPT ![p] = Tail(toMain[p])]
    PROVE  BenchmarkInv'
<1>. DEFINE v == worker[p]
            m == InitOk
<1>1. /\ v \in Workers /\ At(v, m, toWorker[p]) /\ Distinct(v) /\ main \in Mains
      /\ DOMAIN toWorker = Procs /\ (failures = 0 => (Dead(v) => m = <<>>))
  BY Zenon, SenderFacts
<1>2. m # <<>> /\ Tail(m) = <<>>
  BY Zenon, Messages
<1>3. toWorker[p] = <<>> /\ (v.pc = "idle" \/ Dead(v))
  <2>1. m # SendStats(v)
    BY Zenon, <1>1 DEF Distinct
  <2>. HIDE DEF v, m
  <2>. QED  BY <1>1, <1>2, <2>1, Heads
<1>4. main' = Readied /\ Takes(p, <<>>)
  BY Zenon, <1>1, <1>3, KeepTakes
<1>5. /\ main' \in Mains /\ main'.init_ok = main.init_ok + 1
      /\ main'.status = main.status /\ main'.prepare_ok = main.prepare_ok
      /\ main'.exited = main.exited /\ main'.prepared = main.prepared
      /\ main'.success = main.success /\ main'.failed = main.failed
      /\ main'.finished = main.finished
  <2>1. Prepared \in Nat
    BY Zenon, SetupNumbers DEF BenchmarkInv, BenchmarkTypeOK
  <2>. QED  BY Zenon, <1>1, <1>4, <2>1, Counters
<1>6. ~HasInit(v, m, <<>>)
  BY Zenon DEF HasInit
<1>7. p \notin InitDone
  BY Zenon, <1>3, <1>6 DEF InitDone
<1>8. NbProcesses \in Nat /\ main.init_ok \in Nat /\ main.init_ok < NbProcesses
  <2>1. NbProcesses \in Nat /\ IsFiniteSet(Procs) /\ Cardinality(Procs) = NbProcesses
    BY Zenon, SetupNumbers DEF BenchmarkInv, BenchmarkTypeOK
  <2>2. InitDone \in SUBSET Procs
    BY DEF InitDone
  <2>3. Cardinality(InitDone) \in Nat /\ Cardinality(InitDone) < NbProcesses
    BY <1>7, <2>1, <2>2, CardOne
  <2>4. main.init_ok \in Nat /\ main.init_ok <= Cardinality(InitDone)
    BY <1>1 DEF BenchmarkInv, InitsCounted, Mains
  <2>. QED  BY <2>1, <2>3, <2>4
<1>9. ~Initialised /\ ~Initialised'
  <2>1. main.init_ok # NbProcesses
    BY <1>8
  <2>2. main'.init_ok # NbProcesses /\ NbProcesses' = NbProcesses
    BY Zenon, <1>4, SetupKept DEF InitBarrier, Kept
  <2>. QED  BY Zenon, <2>1, <2>2 DEF Initialised
<1>10. AllPrepared' <=> AllPrepared
  BY Zenon, <1>5, PrepareBarrierKept
<1>11. ASSUME At(v, <<>>, <<>>), HasInit(v, <<>>, <<>>),
             HasPrepared(v, m, <<>>, Initialised) => HasPrepared(v, <<>>, <<>>, Initialised),
             failures = 0 => (HasReported(v, m, <<>>) <=> HasReported(v, <<>>, <<>>))
      PROVE  BenchmarkInv'
  <2>1. ~Reporting(v, <<>>) /\ <<>> # PrepareOk /\ m # PrepareOk
    BY Zenon, <1>1 DEF Distinct, Reporting
  <2>2. /\ BenchmarkTypeOK' /\ Alone(p) /\ Counted(p, v, <<>>, <<>>)
        /\ Stage(p)' /\ Work(worker[p], toMain[p])'
        /\ worker'[p].next > 0 => AllPrepared'
        /\ worker'[p] = v /\ toMain'[p] = <<>>
    BY Zenon, <1>2, <1>4, <1>5, <1>9, <1>10, <1>11, <2>1, TakesMove
  <2>3. InitMove(p) /\ PrepareMove(p) /\ PreparedMove(p) /\ ExitMove(p)
    BY Zenon, <1>3, <1>5, <1>6, <1>11, <2>1, <2>2
       DEF Counted, InitMove, PrepareMove, PreparedMove, ExitMove
  <2>4. TotalsMove(p)
    BY Zenon, <1>3, <1>5, <1>11, <2>2, TotalsKept
  <2>. QED  BY Zenon, <2>2, <2>3, <2>4, AloneInv
<1>12. CASE Dead(v)
  <2>1. failures # 0
    BY Zenon, <1>1, <1>2, <1>12
  <2>. HIDE DEF v
  <2>2. Left(v, <<>>, <<>>)
    BY Zenon, <1>12 DEF Left
  <2>3. At(v, <<>>, <<>>) /\ <<>> # InitOk /\ <<>> # PrepareReport /\ <<>> # PrepareOk
    BY Zenon, <1>1, <2>2 DEF At, Distinct
  <2>4. HasInit(v, <<>>, <<>>) /\ HasPrepared(v, <<>>, <<>>, Initialised)
    BY Zenon, <2>2, <2>3, Places
  <2>. QED  BY Zenon, <1>11, <2>1, <2>3, <2>4
<1>13. CASE v.pc = "idle"
  <2>. HIDE DEF v
  <2>1. Starting(v, m, <<>>) /\ Waiting(v, <<>>, <<>>)
    BY Zenon, <1>13 DEF Starting, Waiting
  <2>2. At(v, <<>>, <<>>)
    BY Zenon, <2>1 DEF At
  <2>. QED  BY Zenon, <1>11, <2>1, <2>2, Places
<1>. QED  BY Zenon, <1>3, <1>12, <1>13

\* The report of a preparation is added up; its sender is now announced.
LEMMA ReportInv ==
    ASSUME SetFacts, BenchmarkInv, NEW p \in Procs, setup' = setup, Keep(AddPrepared),
           toMain[p] = PrepareReport, worker' = worker, failures' = failures,
           toMain' = [toMain EXCEPT ![p] = Tail(toMain[p])]
    PROVE  BenchmarkInv'
<1>. DEFINE v == worker[p]
            m == PrepareReport
<1>1. /\ v \in Workers /\ At(v, m, toWorker[p]) /\ Distinct(v) /\ main \in Mains
      /\ DOMAIN toWorker = Procs /\ (failures = 0 => (Dead(v) => m = <<>>))
  BY Zenon, SenderFacts
<1>2. m # <<>> /\ Tail(m) = PrepareOk
  BY Zenon, Messages
<1>3. toWorker[p] = <<>> /\ (v.pc = "idle" \/ Dead(v)) /\ (v.pc = "idle" => Initialised)
  <2>1. m # SendStats(v)
    BY Zenon, <1>1 DEF Distinct
  <2>. HIDE DEF v
  <2>. QED  BY <1>1, <1>2, <2>1, Heads
<1>4. main' = AddPrepared /\ Takes(p, <<>>)
  BY Zenon, <1>1, <1>3, KeepTakes
<1>5. /\ main' \in Mains /\ main'.prepared = main.prepared + Prepared
      /\ main'.status = main.status /\ main'.init_ok = main.init_ok
      /\ main'.prepare_ok = main.prepare_ok /\ main'.exited = main.exited
      /\ main'.success = main.success /\ main'.failed = main.failed
      /\ main'.finished = main.finished
  <2>1. Prepared \in Nat
    BY Zenon, SetupNumbers DEF BenchmarkInv, BenchmarkTypeOK
  <2>. QED  BY Zenon, <1>1, <1>4, <2>1, Counters
<1>6. (Initialised' <=> Initialised) /\ (AllPrepared' <=> AllPrepared)
  BY Zenon, <1>5, BarriersKept, PrepareBarrierKept
<1>7. ~HasPrepared(v, m, <<>>, Initialised)
  BY Zenon DEF HasPrepared
<1>8. ASSUME At(v, PrepareOk, <<>>), HasInit(v, PrepareOk, <<>>),
             failures = 0 => /\ HasReported(v, m, <<>>) <=> HasReported(v, PrepareOk, <<>>)
                             /\ ~Dead(v)
      PROVE  BenchmarkInv'
  <2>1. ~Reporting(v, PrepareOk) /\ m # PrepareOk
    BY Zenon, <1>1 DEF Distinct, Reporting
  <2>2. /\ BenchmarkTypeOK' /\ Alone(p) /\ Counted(p, v, PrepareOk, <<>>)
        /\ Stage(p)' /\ Work(worker[p], toMain[p])'
        /\ worker'[p].next > 0 => AllPrepared'
        /\ worker'[p] = v /\ toMain'[p] = PrepareOk
    BY Zenon, <1>2, <1>4, <1>5, <1>6, <1>8, <2>1, TakesMove
  <2>3. InitMove(p) /\ PrepareMove(p) /\ PreparedMove(p) /\ ExitMove(p)
    BY Zenon, <1>3, <1>5, <1>7, <1>8, <2>1, <2>2
       DEF Counted, InitMove, PrepareMove, PreparedMove, ExitMove
  <2>4. TotalsMove(p)
    BY Zenon, <1>3, <1>5, <1>8, <2>2, TotalsKept
  <2>. QED  BY Zenon, <2>2, <2>3, <2>4, AloneInv
<1>9. CASE Dead(v)
  <2>1. failures # 0
    BY Zenon, <1>1, <1>2, <1>9
  <2>. HIDE DEF v
  <2>2. Left(v, PrepareOk, <<>>)
    BY Zenon, <1>9 DEF Left
  <2>3. At(v, PrepareOk, <<>>) /\ PrepareOk # InitOk
    BY Zenon, <1>1, <2>2 DEF At, Distinct
  <2>. QED  BY Zenon, <1>8, <2>1, <2>2, <2>3, Places
<1>10. CASE v.pc = "idle"
  <2>. HIDE DEF v
  <2>1. Preparing(v, m, <<>>) /\ Preparing(v, PrepareOk, <<>>) /\ ~Dead(v)
    BY Zenon, <1>10, Names DEF Preparing, Dead
  <2>2. At(v, PrepareOk, <<>>)
    BY Zenon, <1>3, <1>10, <2>1 DEF At
  <2>. QED  BY Zenon, <1>8, <2>1, <2>2, Places
<1>. QED  BY Zenon, <1>3, <1>9, <1>10

\* A sender that has still to be counted keeps the prepare barrier ahead.
LEMMA NotAllPrepared ==
    ASSUME SetFacts, BenchmarkInv, NEW p \in Procs, p \notin PrepareDone
    PROVE  ~AllPrepared /\ main.prepare_ok < NbProcesses
<1>1. NbProcesses \in Nat /\ IsFiniteSet(Procs) /\ Cardinality(Procs) = NbProcesses
  BY Zenon, SetupNumbers DEF BenchmarkInv, BenchmarkTypeOK
<1>2. PrepareDone \in SUBSET Procs
  BY DEF PrepareDone
<1>3. Cardinality(PrepareDone) \in Nat /\ Cardinality(PrepareDone) < NbProcesses
  BY <1>1, <1>2, CardOne
<1>4. main.prepare_ok \in Nat /\ main.prepare_ok <= Cardinality(PrepareDone)
  BY DEF BenchmarkInv, BenchmarkTypeOK, PreparesCounted, Mains
<1>. QED  BY <1>1, <1>3, <1>4 DEF AllPrepared

\* prepare_ok before the last one.
LEMMA PreparedInv ==
    ASSUME SetFacts, BenchmarkInv, NEW p \in Procs, setup' = setup, Keep(PreparedOne),
           ~PrepareBarrier(PreparedOne.prepare_ok), toMain[p] = PrepareOk,
           worker' = worker, failures' = failures,
           toMain' = [toMain EXCEPT ![p] = Tail(toMain[p])]
    PROVE  BenchmarkInv'
<1>. DEFINE v == worker[p]
            m == PrepareOk
<1>1. /\ v \in Workers /\ At(v, m, toWorker[p]) /\ Distinct(v) /\ main \in Mains
      /\ DOMAIN toWorker = Procs /\ (failures = 0 => (Dead(v) => m = <<>>))
  BY Zenon, SenderFacts
<1>2. m # <<>> /\ Tail(m) = <<>>
  BY Zenon, Messages
<1>3. toWorker[p] = <<>> /\ (v.pc = "idle" \/ Dead(v)) /\ (v.pc = "idle" => Initialised)
  <2>1. m # SendStats(v)
    BY Zenon, <1>1 DEF Distinct
  <2>. HIDE DEF v
  <2>. QED  BY <1>1, <1>2, <2>1, Heads
<1>4. main' = PreparedOne /\ Takes(p, <<>>)
  BY Zenon, <1>1, <1>3, KeepTakes
<1>5. /\ main' \in Mains /\ main'.prepare_ok = main.prepare_ok + 1
      /\ main'.status = main.status /\ main'.init_ok = main.init_ok
      /\ main'.exited = main.exited /\ main'.prepared = main.prepared
      /\ main'.success = main.success /\ main'.failed = main.failed
      /\ main'.finished = main.finished
  <2>1. Prepared \in Nat
    BY Zenon, SetupNumbers DEF BenchmarkInv, BenchmarkTypeOK
  <2>. QED  BY Zenon, <1>1, <1>4, <2>1, Counters
<1>6. ~HasPrepared(v, m, <<>>, Initialised)
  BY Zenon DEF HasPrepared
<1>7. p \notin PrepareDone
  BY Zenon, <1>3, <1>6 DEF PrepareDone
<1>8. ~AllPrepared /\ ~AllPrepared'
  <2>1. main'.prepare_ok # NbProcesses /\ NbProcesses' = NbProcesses
    BY Zenon, <1>4, SetupKept DEF PrepareBarrier, Kept
  <2>. QED  BY Zenon, <1>7, <2>1, NotAllPrepared DEF AllPrepared
<1>9. Initialised' <=> Initialised
  BY Zenon, <1>5, BarriersKept
<1>10. ASSUME At(v, <<>>, <<>>), HasInit(v, <<>>, <<>>),
              HasPrepared(v, <<>>, <<>>, Initialised),
              failures = 0 => (HasReported(v, m, <<>>) <=> HasReported(v, <<>>, <<>>))
      PROVE  BenchmarkInv'
  <2>1. ~Reporting(v, <<>>) /\ <<>> # PrepareOk
    BY Zenon, <1>1 DEF Distinct, Reporting
  <2>2. /\ BenchmarkTypeOK' /\ Alone(p) /\ Counted(p, v, <<>>, <<>>)
        /\ Stage(p)' /\ Work(worker[p], toMain[p])'
        /\ worker'[p].next > 0 => AllPrepared'
        /\ worker'[p] = v /\ toMain'[p] = <<>>
    BY Zenon, <1>2, <1>4, <1>5, <1>8, <1>9, <1>10, <2>1, TakesMove
  <2>3. InitMove(p) /\ PrepareMove(p) /\ PreparedMove(p) /\ ExitMove(p)
    BY Zenon, <1>3, <1>5, <1>6, <1>10, <2>1, <2>2
       DEF Counted, InitMove, PrepareMove, PreparedMove, ExitMove
  <2>4. TotalsMove(p)
    BY Zenon, <1>3, <1>5, <1>10, <2>2, TotalsKept
  <2>. QED  BY Zenon, <2>2, <2>3, <2>4, AloneInv
<1>11. CASE Dead(v)
  <2>1. failures # 0
    BY Zenon, <1>1, <1>2, <1>11
  <2>. HIDE DEF v
  <2>2. Left(v, <<>>, <<>>)
    BY Zenon, <1>11 DEF Left
  <2>3. At(v, <<>>, <<>>) /\ <<>> # InitOk /\ <<>> # PrepareReport /\ <<>> # PrepareOk
    BY Zenon, <1>1, <2>2 DEF At, Distinct
  <2>4. HasInit(v, <<>>, <<>>) /\ HasPrepared(v, <<>>, <<>>, Initialised)
    BY Zenon, <2>2, <2>3, Places
  <2>. QED  BY Zenon, <1>10, <2>1, <2>3, <2>4
<1>12. CASE v.pc = "idle"
  <2>. HIDE DEF v
  <2>1. Preparing(v, m, <<>>) /\ Waiting(v, <<>>, <<>>) /\ Initialised
    BY Zenon, <1>3, <1>12 DEF Preparing, Waiting
  <2>2. At(v, <<>>, <<>>)
    BY Zenon, <2>1 DEF At
  <2>. QED  BY Zenon, <1>10, <2>1, <2>2, Places
<1>. QED  BY Zenon, <1>3, <1>11, <1>12

\* The statistics of a sender are added up, once.
LEMMA SentInv ==
    ASSUME SetFacts, BenchmarkInv, NEW p \in Procs, setup' = setup, Keep(AddSent(worker[p])),
           Reporting(worker[p], toMain[p]), worker' = worker, failures' = failures,
           toMain' = [toMain EXCEPT ![p] = Tail(toMain[p])]
    PROVE  BenchmarkInv'
<1>. DEFINE v == worker[p]
            m == toMain[p]
            n == Tail(m)
            d == v.success + v.failed
<1>1. /\ v \in Workers /\ At(v, m, toWorker[p]) /\ Distinct(v) /\ main \in Mains
      /\ DOMAIN toWorker = Procs /\ (failures = 0 => (Dead(v) => m = <<>>)) /\ Work(v, m)
  BY Zenon, SenderFacts
<1>2. /\ m # <<>>
      /\ \/ m = SendReport(v) /\ n = SendOk
         \/ m = SendStats(v) /\ n = <<>>
  <2>1. m = SendReport(v) => m # <<>> /\ n = SendOk
    BY Zenon, Messages
  <2>2. m = SendStats(v) => m # <<>> /\ n = <<>>
    BY Zenon, Messages
  <2>. QED  BY Zenon, <2>1, <2>2 DEF Reporting
<1>3. /\ toWorker[p] = <<>>
      /\ \/ Dead(v)
         \/ v.pc = "idle" /\ m = SendReport(v) /\ Initialised /\ AllPrepared
         \/ v.pc = "sleep" /\ m = SendStats(v) /\ Initialised /\ AllPrepared
  <2>. HIDE DEF v, m, n
  <2>. QED  BY <1>1, <1>2, Heads
<1>4. main' = AddSent(v) /\ Takes(p, <<>>)
  BY Zenon, <1>1, <1>3, KeepTakes
<1>5. /\ main' \in Mains /\ main'.success = main.success + v.success
      /\ main'.failed = main.failed + v.failed /\ main'.finished = main.finished + d
      /\ main'.status = main.status /\ main'.init_ok = main.init_ok
      /\ main'.prepare_ok = main.prepare_ok /\ main'.exited = main.exited
      /\ main'.prepared = main.prepared
  <2>1. Prepared \in Nat
    BY Zenon, SetupNumbers DEF BenchmarkInv, BenchmarkTypeOK
  <2>. QED  BY Zenon, <1>1, <1>4, <2>1, Counters
<1>6. (Initialised' <=> Initialised) /\ (AllPrepared' <=> AllPrepared)
  BY Zenon, <1>5, BarriersKept, PrepareBarrierKept
<1>7. /\ d \in Nat /\ d >= WaitTotal /\ (BatchSize > 0 => d < WaitTotal + BatchSize)
      /\ main'.finished = main'.success + main'.failed
  <2>1. WaitTotal \in Nat /\ BatchSize \in Nat
    BY Zenon, SetupNumbers DEF BenchmarkInv, BenchmarkTypeOK
  <2>2. main.finished = main.success + main.failed
    BY Zenon DEF BenchmarkInv, Totals
  <2>3. /\ v.success \in Nat /\ v.failed \in Nat /\ v.next \in Nat
        /\ main.success \in Nat /\ main.failed \in Nat
    BY <1>1 DEF Workers, Mains
  <2>4. /\ IsFiniteSet(v.open) /\ v.success + v.failed + BatchSize * Cardinality(v.open) <= v.next
        /\ v.next = 0 \/ v.next < WaitTotal + BatchSize
        /\ v.success + v.failed >= WaitTotal
    BY Zenon, <1>1, <1>2 DEF Work, Reporting
  <2>. DEFINE x == BatchSize * Cardinality(v.open)
  <2>5. x \in Nat
    BY Zenon, <2>1, <2>4, CardNat, OneMore
  <2>6. v.success + v.failed + x <= v.next
    BY Zenon, <2>4
  <2>. HIDE DEF x, v, m, n
  <2>7. main'.finished = main'.success + main'.failed
    BY <1>5, <2>2, <2>3
  <2>8. d \in Nat /\ d >= WaitTotal /\ d <= v.next
    BY <2>3, <2>4, <2>5, <2>6
  <2>9. BatchSize > 0 => d < WaitTotal + BatchSize
    BY <2>1, <2>3, <2>4, <2>8
  <2>. QED  BY Zenon, <2>7, <2>8, <2>9
<1>8. ASSUME At(v, n, <<>>), HasInit(v, n, <<>>), HasPrepared(v, n, <<>>, Initialised),
             failures = 0 => /\ ~HasReported(v, m, <<>>) /\ HasReported(v, n, <<>>)
                             /\ ~Dead(v)
      PROVE  BenchmarkInv'
  <2>1. ~Reporting(v, n) /\ m # PrepareOk /\ n # PrepareOk
    BY Zenon, <1>1, <1>2 DEF Distinct, Reporting
  <2>2. /\ BenchmarkTypeOK' /\ Alone(p) /\ Counted(p, v, n, <<>>)
        /\ Stage(p)' /\ Work(worker[p], toMain[p])'
        /\ worker'[p].next > 0 => AllPrepared'
        /\ worker'[p] = v /\ toMain'[p] = n
    BY Zenon, <1>2, <1>4, <1>5, <1>6, <1>8, <2>1, TakesMove
  <2>3. InitMove(p) /\ PrepareMove(p) /\ PreparedMove(p) /\ ExitMove(p)
    BY Zenon, <1>3, <1>5, <1>8, <2>1, <2>2
       DEF Counted, InitMove, PrepareMove, PreparedMove, ExitMove
  <2>. HIDE DEF d
  <2>4. TotalsMove(p)
    BY Zenon, <1>3, <1>5, <1>7, <1>8, <2>2 DEF Counted, TotalsMove
  <2>. QED  BY Zenon, <2>2, <2>3, <2>4, AloneInv
<1>. HIDE DEF n
<1>9. CASE Dead(v)
  <2>1. failures # 0
    BY Zenon, <1>1, <1>2, <1>9
  <2>. HIDE DEF v, m
  <2>2. Left(v, n, <<>>)
    BY Zenon, <1>2, <1>9 DEF Left
  <2>3. At(v, n, <<>>) /\ n # InitOk /\ n # PrepareReport /\ n # PrepareOk
    BY Zenon, <1>1, <1>2, <2>2 DEF At, Distinct
  <2>. QED  BY Zenon, <1>8, <2>1, <2>2, <2>3, Places
<1>10. CASE v.pc = "idle" /\ m = SendReport(v) /\ Initialised /\ AllPrepared
  <2>. HIDE DEF v, m
  <2>1. n = SendOk
    BY Zenon, <1>1, <1>2, <1>10 DEF Distinct
  <2>2. Sending(v, m, <<>>) /\ Sending(v, n, <<>>) /\ ~Dead(v)
    BY Zenon, <1>10, <2>1, Names DEF Sending, Dead
  <2>3. At(v, n, <<>>) /\ m # SendOk /\ <<>> # <<"exit">> /\ v.pc # "sleep"
    BY Zenon, <1>1, <1>10, <2>2, Names DEF At, Distinct
  <2>. QED  BY Zenon, <1>8, <2>1, <2>2, <2>3, Places
<1>11. CASE v.pc = "sleep" /\ m = SendStats(v) /\ Initialised /\ AllPrepared
  <2>. HIDE DEF v, m
  <2>1. n = <<>>
    BY Zenon, <1>1, <1>2, <1>11 DEF Distinct
  <2>2. Sending(v, m, <<>>) /\ Sending(v, n, <<>>) /\ ~Dead(v)
    BY Zenon, <1>11, <2>1, Names DEF Sending, Dead
  <2>3. At(v, n, <<>>) /\ m # SendOk /\ <<>> # <<"exit">> /\ m # <<>>
    BY Zenon, <1>1, <1>2, <1>11, <2>2 DEF At, Distinct
  <2>. QED  BY Zenon, <1>8, <1>11, <2>1, <2>2, <2>3, Places
<1>. QED  BY Zenon, <1>3, <1>9, <1>10, <1>11

\* The exit event of p counts it, once.
LEMMA ExitInv ==
    ASSUME SetFacts, BenchmarkInv, NEW p \in Procs, on_exit(p), setup' = setup
    PROVE  BenchmarkInv'
<1>. DEFINE v == worker[p]
            m == toMain[p]
            w == To(v, "reaped")
<1>1. /\ v \in Workers /\ At(v, m, toWorker[p]) /\ Distinct(v) /\ main \in Mains
      /\ DOMAIN toMain = Procs /\ DOMAIN toWorker = Procs
      /\ (failures = 0 => (Dead(v) => m = <<>>)) /\ Work(v, m) /\ (v.next > 0 => AllPrepared)
      /\ failures \in Nat
  BY Zenon, SenderFacts
<1>2. /\ v.pc = "exited" /\ worker' = [worker EXCEPT ![p] = w] /\ UNCHANGED <<toMain, toWorker, failures>>
      /\ main.status = "running"
      /\ main' = [main EXCEPT !.exited = @ + 1,
                              !.status = IF LastExit(main.exited + 1) THEN "done" ELSE @]
  BY Zenon DEF on_exit, To
<1>3. Dead(v) /\ Left(v, m, toWorker[p])
  <2>1. Dead(v)
    BY Zenon, <1>2 DEF Dead
  <2>. QED  BY Zenon, <1>1, <2>1, Points
<1>4. toWorker[p] = <<>>
  BY Zenon, <1>3 DEF Left
<1>5. Moves(p, w, m, <<>>)
  <2>. HIDE DEF w
  <2>. QED  BY Zenon, <1>1, <1>2, <1>4, MovesIntro
<1>6. /\ main' \in Mains /\ main'.exited = main.exited + 1
      /\ main'.status = "done" => main'.exited = NbProcesses
      /\ main'.init_ok = main.init_ok /\ main'.prepare_ok = main.prepare_ok
      /\ main'.prepared = main.prepared /\ main'.success = main.success
      /\ main'.failed = main.failed /\ main'.finished = main.finished
  <2>. DEFINE z == IF LastExit(main.exited + 1) THEN "done" ELSE main.status
  <2>1. main' = [main EXCEPT !.exited = main.exited + 1, !.status = z]
    BY Zenon, <1>2
  <2>2. z \in {"running", "crashed", "done"} /\ (z = "done" => main.exited + 1 = NbProcesses)
    BY <1>2 DEF LastExit
  <2>3. main.exited + 1 \in Nat
    BY <1>1 DEF Mains
  <2>. HIDE DEF z
  <2>4. main' \in Mains
    BY Zenon, <1>1, <2>1, <2>2, <2>3 DEF Mains
  <2>5. main'.exited = main.exited + 1 /\ main'.status = z
    BY Zenon, <1>1, <2>1 DEF Mains
  <2>6.
        /\ main'.init_ok = main.init_ok /\ main'.prepare_ok = main.prepare_ok
        /\ main'.prepared = main.prepared /\ main'.success = main.success
        /\ main'.failed = main.failed /\ main'.finished = main.finished
    BY Zenon, <1>1, <2>1 DEF Mains
  <2>. QED  BY Zenon, <2>2, <2>4, <2>5, <2>6
<1>7. (Initialised' <=> Initialised) /\ (AllPrepared' <=> AllPrepared)
  BY Zenon, <1>6, BarriersKept, PrepareBarrierKept
<1>. HIDE DEF v, m
<1>8. /\ w \in Workers /\ w.pc = "reaped" /\ w.next = v.next
      /\ SendReport(w) = SendReport(v) /\ SendStats(w) = SendStats(v)
      /\ \A n, k : Work(v, k) /\ (Reporting(v, n) => Reporting(v, k)) => Work(w, n)
  BY <1>1, Repointed
<1>. HIDE DEF w
<1>9. Work(w, m) /\ Left(w, m, <<>>) /\ Dead(w)
  BY Zenon, <1>1, <1>3, <1>8 DEF Left, Dead
<1>10. At(w, m, <<>>)
  BY Zenon, <1>9 DEF At
<1>11. /\ HasInit(v, m, <<>>) => HasInit(w, m, <<>>)
       /\ HasPrepared(v, m, <<>>, Initialised) => HasPrepared(w, m, <<>>, Initialised)
       /\ HasReported(v, m, <<>>) /\ HasReported(w, m, <<>>)
  BY Zenon, <1>3, <1>4, <1>9, Places
<1>12. BenchmarkTypeOK /\ failures' \in Nat
  BY Zenon, <1>1, <1>2 DEF BenchmarkInv
<1>13. /\ BenchmarkTypeOK' /\ Alone(p) /\ Counted(p, w, m, <<>>)
       /\ worker'[p] = w /\ toMain'[p] = m
       /\ Stage(p)' /\ Work(worker[p], toMain[p])'
       /\ worker'[p].next > 0 => AllPrepared'
  BY Zenon, <1>1, <1>5, <1>6, <1>7, <1>8, <1>9, <1>10, <1>12, OneMoves
<1>14. InitMove(p) /\ PrepareMove(p) /\ PreparedMove(p)
  BY Zenon, <1>4, <1>6, <1>11, <1>13 DEF Counted, InitMove, PrepareMove, PreparedMove, v, m
<1>15. ExitMove(p)
  BY Zenon, <1>2, <1>6, <1>8, <1>13, Names DEF Counted, ExitMove, v
<1>16. TotalsMove(p)
  BY Zenon, <1>1, <1>2, <1>3, <1>4, <1>6, <1>11, <1>13, TotalsKept DEF v, m
<1>. QED  BY Zenon, <1>13, <1>14, <1>15, <1>16, AloneInv

-----------------------------------------------------------------------------
(* The barriers.                                                           *)

\* A barrier moves every sender that is alive; the counted sets do not shrink.
LEMMA BarrierInv ==
    ASSUME SetFacts, BenchmarkInv, NEW p \in Procs, setup' = setup, worker' = worker,
           failures' = failures, main' \in Mains, DOMAIN toMain' = Procs, DOMAIN toWorker' = Procs,
           \A q \in Procs : /\ Stage(q)'
                            /\ toMain'[q] = toMain[q] \/ toMain'[q] = <<>>,
           AllPrepared => AllPrepared',
           main'.exited = main.exited, main'.status = "done" => main.status = "done",
           main'.finished = main.finished, main'.success = main.success,
           main'.failed = main.failed, main'.prepared = main.prepared,
           InitDone \subseteq InitDone',
           main'.init_ok = main.init_ok \/ (main'.init_ok = NbProcesses /\ InitDone' = Procs),
           PrepareDone \subseteq PrepareDone',
           main'.prepare_ok = main.prepare_ok
              \/ (main'.prepare_ok = NbProcesses /\ PrepareDone' = Procs),
           \/ main'.prepare_ok = main.prepare_ok /\ Announced' = Announced
           \/ /\ main'.prepare_ok = main.prepare_ok + 1 /\ p \in Announced
              /\ Announced' = Announced \ {p},
           failures = 0 => Reported' = Reported
    PROVE  BenchmarkInv'
<1>1. Kept
  BY Zenon, SetupKept
<1>2. /\ NbProcesses \in Nat /\ Prepared \in Nat
      /\ IsFiniteSet(Procs) /\ Cardinality(Procs) = NbProcesses
  BY Zenon, SetupNumbers DEF BenchmarkInv, BenchmarkTypeOK
<1>3. BenchmarkTypeOK'
  BY Zenon, <1>1 DEF BenchmarkInv, BenchmarkTypeOK, Kept, Mains, Workers
<1>4. Senders'
  <2>. SUFFICES ASSUME NEW q \in Procs
       PROVE  Work(worker[q], toMain[q])' /\ (worker'[q].next > 0 => AllPrepared')
    BY Zenon, <1>1 DEF Senders, Kept
  <2>1. /\ Work(worker[q], toMain[q]) /\ (worker[q].next > 0 => AllPrepared)
        /\ ~Reporting(worker[q], <<>>)
    BY Zenon, SenderFacts DEF Distinct, Reporting
  <2>2. Work(worker[q], toMain[q])'
    BY Zenon, <1>1, <2>1 DEF Kept, Work
  <2>. QED  BY Zenon, <2>1, <2>2
<1>5. ASSUME NEW S \in SUBSET Procs
      PROVE  IsFiniteSet(S) /\ Cardinality(S) \in Nat
  BY Zenon, <1>2, SubsetCard, CardNat
<1>6. /\ InitDone \in SUBSET Procs /\ InitDone' \in SUBSET Procs /\ PrepareDone \in SUBSET Procs
      /\ PrepareDone' \in SUBSET Procs /\ Announced \in SUBSET Procs
  <2>1. /\ InitDone \in SUBSET Procs /\ PrepareDone \in SUBSET Procs /\ Announced \in SUBSET Procs
    BY DEF InitDone, PrepareDone, Announced
  <2>2. /\ InitDone' \in SUBSET Procs /\ PrepareDone' \in SUBSET Procs
    BY <1>1 DEF InitDone, PrepareDone, Kept
  <2>. QED  BY Zenon, <2>1, <2>2
<1>7. main.init_ok \in Nat /\ main.prepare_ok \in Nat /\ main.prepared \in Nat
  BY DEF BenchmarkInv, BenchmarkTypeOK, Mains
<1>8. InitsCounted'
  <2>1. Cardinality(InitDone) <= Cardinality(InitDone')
    BY <1>5, <1>6, SubsetCard
  <2>2. main.init_ok <= Cardinality(InitDone)
    BY Zenon DEF BenchmarkInv, InitsCounted
  <2>3. Cardinality(InitDone) \in Nat /\ Cardinality(InitDone') \in Nat
    BY Zenon, <1>5, <1>6
  <2>4. InitDone' = Procs => Cardinality(InitDone') = NbProcesses
    BY Zenon, <1>2
  <2>5. main'.init_ok <= Cardinality(InitDone')
    BY <1>2, <1>7, <2>1, <2>2, <2>3, <2>4
  <2>. QED  BY Zenon, <2>5 DEF InitsCounted
<1>9. PreparesCounted'
  <2>1. Cardinality(PrepareDone) <= Cardinality(PrepareDone')
    BY <1>5, <1>6, SubsetCard
  <2>2. main.prepare_ok <= Cardinality(PrepareDone)
    BY Zenon DEF BenchmarkInv, PreparesCounted
  <2>3. Cardinality(PrepareDone) \in Nat /\ Cardinality(PrepareDone') \in Nat
    BY Zenon, <1>5, <1>6
  <2>4. PrepareDone' = Procs => Cardinality(PrepareDone') = NbProcesses
    BY Zenon, <1>2
  <2>5. main'.prepare_ok <= Cardinality(PrepareDone')
    BY <1>2, <1>7, <2>1, <2>2, <2>3, <2>4
  <2>. QED  BY Zenon, <2>5 DEF PreparesCounted
<1>10. PreparedCounted'
  <2>1. main.prepared = Prepared * (main.prepare_ok + Cardinality(Announced))
    BY Zenon DEF BenchmarkInv, PreparedCounted
  <2>2. IsFiniteSet(Announced) /\ Cardinality(Announced) \in Nat
    BY Zenon, <1>5, <1>6
  <2>3. main'.prepare_ok + Cardinality(Announced') = main.prepare_ok + Cardinality(Announced)
    <3>1. CASE main'.prepare_ok = main.prepare_ok /\ Announced' = Announced
      BY Zenon, <3>1
    <3>2. CASE /\ main'.prepare_ok = main.prepare_ok + 1 /\ p \in Announced
               /\ Announced' = Announced \ {p}
      <4>1. Cardinality(Announced') = Cardinality(Announced) - 1
        BY Zenon, <2>2, <3>2, CardRemove
      <4>. QED  BY <1>7, <2>2, <3>2, <4>1
    <3>. QED  BY Zenon, <3>1, <3>2
  <2>. QED  BY Zenon, <1>1, <2>1, <2>3 DEF PreparedCounted, Kept
<1>11. ExitsCounted'
  BY Zenon, <1>1 DEF BenchmarkInv, ExitsCounted, Reaped, Kept
<1>12. Totals'
  BY Zenon, <1>1 DEF BenchmarkInv, Totals, Reports, Kept, Dead
<1>. QED  BY Zenon, <1>3, <1>4, <1>8, <1>9, <1>10, <1>11, <1>12 DEF BenchmarkInv

\* If the last one but p is counted, all but p are.
LEMMA AllButOne ==
    ASSUME SetFacts, setup \in Setups, NEW S \in SUBSET Procs, NEW p \in Procs, p \notin S, NEW n \in Nat,
           n <= Cardinality(S), n + 1 = NbProcesses
    PROVE  \A q \in Procs : q # p => q \in S
<1>1. NbProcesses \in Nat /\ IsFiniteSet(Procs) /\ Cardinality(Procs) = NbProcesses
  BY Zenon, SetupNumbers
<1>2. IsFiniteSet(S) /\ Cardinality(S) \in Nat
  BY Zenon, <1>1, SubsetCard, CardNat
<1>. DEFINE T == S \cup {p}
<1>3. Cardinality(T) = Cardinality(S) + 1
  BY Zenon, <1>2, CardAdd
<1>4. T \in SUBSET Procs
  OBVIOUS
<1>. HIDE DEF T
<1>5. Cardinality(Procs) <= Cardinality(T)
  BY <1>1, <1>2, <1>3
<1>6. T = Procs
  BY <1>1, <1>4, <1>5, CardAll
<1>. QED  BY <1>6 DEF T

\* Where a command posted to everyone arrives.
LEMMA PostAll ==
    ASSUME NEW c, NEW a, Post(Procs, c, a), NEW q \in Procs
    PROVE  /\ DOMAIN toWorker' = Procs
           /\ Dead(worker[q]) => toWorker'[q] = toWorker[q]
           /\ ~Dead(worker[q]) /\ toWorker[q] = <<>> => toWorker'[q] = <<c>>
<1>1. toWorker' = [r \in Procs |->
          IF r \in Procs /\ ~Gone(r) THEN Append(toWorker[r], c) ELSE toWorker[r]]
  BY Zenon DEF Post
<1>2. Gone(q) <=> Dead(worker[q])
  BY Zenon DEF Gone, Dead
<1>3. Append(<<>>, c) = <<c>>
  OBVIOUS
<1>. QED  BY Zenon, <1>1, <1>2, <1>3

\* The last init_ok: every sender that is alive waits, and is told to prepare.
LEMMA InitBarrierInv ==
    ASSUME SetFacts, BenchmarkInv, NEW p \in Procs, setup' = setup, Post(Procs, "prepare", Readied),
           InitBarrier(Readied.init_ok), toMain[p] = InitOk,
           worker' = worker, failures' = failures,
           toMain' = [toMain EXCEPT ![p] = Tail(toMain[p])]
    PROVE  BenchmarkInv'
<1>1. main \in Mains /\ DOMAIN toMain = Procs /\ worker[p] \in Workers
  BY Zenon, SenderFacts
<1>2. /\ Prepared \in Nat /\ NbProcesses \in Nat /\ setup \in Setups
  BY Zenon, SetupNumbers DEF BenchmarkInv, BenchmarkTypeOK
<1>3. /\ Readied \in Mains /\ Readied.init_ok = main.init_ok + 1
      /\ Readied.status = main.status /\ Readied.prepare_ok = main.prepare_ok
      /\ Readied.exited = main.exited /\ Readied.prepared = main.prepared
      /\ Readied.success = main.success /\ Readied.failed = main.failed
      /\ Readied.finished = main.finished
  BY Zenon, <1>1, <1>2, Counters
<1>4. Becomes(Readied)
  BY Zenon, <1>3, PostMain
<1>5. Kept
  BY Zenon, SetupKept
<1>6. main.init_ok + 1 = NbProcesses /\ main'.init_ok = NbProcesses
  BY Zenon, <1>3, <1>4 DEF InitBarrier, Becomes
<1>7. Initialised' /\ ~Initialised /\ (AllPrepared' <=> AllPrepared)
  <2>1. main.init_ok # NbProcesses
    BY <1>1, <1>6 DEF Mains
  <2>. QED  BY Zenon, <1>3, <1>4, <1>5, <1>6, <2>1 DEF Initialised, AllPrepared, Kept, Becomes
<1>8. \A q \in Procs : q # p => q \in InitDone
  <2>1. p \notin InitDone
    BY Zenon DEF InitDone, HasInit
  <2>2. InitDone \in SUBSET Procs /\ main.init_ok \in Nat
    BY <1>1 DEF InitDone, Mains
  <2>3. main.init_ok <= Cardinality(InitDone)
    BY Zenon DEF BenchmarkInv, InitsCounted
  <2>. QED  BY Zenon, <1>2, <1>6, <2>1, <2>2, <2>3, AllButOne
<1>9. /\ toMain'[p] = <<>> /\ DOMAIN toMain' = Procs
      /\ \A q \in Procs : q # p => toMain'[q] = toMain[q]
  BY Zenon, <1>1, Messages
<1>10. ASSUME NEW q \in Procs
       PROVE  /\ Stage(q)' /\ (toMain'[q] = toMain[q] \/ toMain'[q] = <<>>)
              /\ q \in InitDone' /\ (q \in PrepareDone => q \in PrepareDone')
              /\ q \in Announced <=> q \in Announced'
              /\ failures = 0 => (q \in Reported <=> q \in Reported')
  <2>. DEFINE v == worker[q]
              m == toMain[q]
              n == toMain'[q]
              t == toWorker'[q]
  <2>1. At(v, m, toWorker[q]) /\ Distinct(v) /\ (failures = 0 => (Dead(v) => m = <<>>))
    BY Zenon, SenderFacts
  <2>2. /\ q = p => n = <<>> /\ m = InitOk
        /\ q # p => n = m /\ HasInit(v, m, toWorker[q])
    BY Zenon, <1>8, <1>9 DEF InitDone
  <2>3. /\ Dead(v) => t = toWorker[q]
        /\ ~Dead(v) /\ toWorker[q] = <<>> => t = <<"prepare">>
    BY Zenon, PostAll
  <2>4. /\ q \in InitDone <=> HasInit(v, m, toWorker[q])
        /\ q \in PrepareDone <=> HasPrepared(v, m, toWorker[q], FALSE)
        /\ q \in Announced <=> m = PrepareOk
        /\ q \in Reported <=> HasReported(v, m, toWorker[q])
    BY Zenon, <1>7 DEF InitDone, PrepareDone, Announced, Reported, HasPrepared
  <2>5. q \in InitDone' <=> HasInit(v, n, t)
    BY Zenon, <1>5 DEF Kept, InitDone, HasInit, Starting, InitWorker, InitOk
  <2>6. q \in PrepareDone' <=> HasPrepared(v, n, t, TRUE)
    BY Zenon, <1>5, <1>7 DEF Kept, PrepareDone, HasPrepared, Starting, Waiting, Preparing,
              InitWorker, InitOk, PrepareOk
  <2>7. q \in Announced' <=> n = PrepareOk
    BY Zenon, <1>5 DEF Kept, Announced, PrepareOk
  <2>8. q \in Reported' <=> HasReported(v, n, t)
    BY Zenon, <1>5 DEF Kept, Reported, HasReported, Dead, SendOk
  <2>9. ASSUME Preparing(v, n, t) \/ Left(v, n, t)
        PROVE  Stage(q)'
    BY Zenon, <1>5, <1>7, <2>9 DEF Kept, Stage, Preparing, Left, Dead, InitWorker, InitOk, PrepareOk,
              SendOk
  <2>. HIDE DEF v, m, n, t
  <2>10. CASE Dead(v)
    <3>1. Left(v, m, toWorker[q]) /\ toWorker[q] = <<>>
      BY Zenon, <2>1, <2>10, Points DEF Left
    <3>2. t = <<>>
      BY Zenon, <2>3, <2>10, <3>1
    <3>3. Left(v, m, <<>>) /\ Left(v, n, <<>>)
      BY Zenon, <2>2, <3>1 DEF Left
    <3>4. HasReported(v, m, <<>>) /\ HasReported(v, n, <<>>) /\ HasInit(v, n, <<>>)
      <4>1. n # InitOk
        <5>1. <<>> # InitOk
          BY Zenon, <2>1 DEF Distinct
        <5>2. q # p => m # InitOk
          BY Zenon, <2>2, <3>1, Places
        <5>. QED  BY Zenon, <2>2, <5>1, <5>2
      <4>. QED  BY Zenon, <3>3, <4>1, Places
    <3>5. HasPrepared(v, m, <<>>, FALSE) => HasPrepared(v, n, <<>>, TRUE)
      <4>1. HasPrepared(v, m, <<>>, FALSE) <=> m # PrepareReport /\ m # PrepareOk
        BY Zenon, <3>3, Places
      <4>2. HasPrepared(v, n, <<>>, TRUE) <=> n # PrepareReport /\ n # PrepareOk
        BY Zenon, <3>3, Places
      <4>. QED  BY Zenon, <2>1, <2>2, <4>1, <4>2 DEF Distinct
    <3>6. m = PrepareOk <=> n = PrepareOk
      BY Zenon, <2>1, <2>2 DEF Distinct
    <3>7. n = m \/ n = <<>>
      BY Zenon, <2>2
    <3>. QED  BY Zenon, <2>4, <2>5, <2>6, <2>7, <2>8, <2>9, <3>1, <3>2, <3>3, <3>4, <3>5, <3>6, <3>7
              DEF m, n
  <2>11. CASE ~Dead(v)
    <3>1. \/ q = p /\ v.pc = "idle" /\ toWorker[q] = <<>> /\ Starting(v, m, <<>>)
          \/ q # p /\ Waiting(v, m, toWorker[q])
      <4>1. CASE q = p
        <5>1. m = InitOk /\ m # <<>> /\ m # SendStats(v)
          BY Zenon, <2>1, <2>2, <4>1 DEF Distinct
        <5>2. toWorker[q] = <<>> /\ v.pc = "idle"
          BY <2>1, <2>11, <5>1, Heads
        <5>. QED  BY Zenon, <4>1, <5>1, <5>2 DEF Starting
      <4>2. CASE q # p
        <5>1. ~Starting(v, m, toWorker[q])
          BY Zenon, <2>2, <4>2, Places
        <5>2. ~Left(v, m, toWorker[q])
          BY Zenon, <2>11 DEF Left
        <5>. QED  BY Zenon, <1>7, <2>1, <4>2, <5>1, <5>2 DEF At
      <4>. QED  BY Zenon, <4>1, <4>2
    <3>2. toWorker[q] = <<>> /\ v.pc = "idle" /\ n = <<>> /\ t = <<"prepare">>
      BY Zenon, <2>2, <2>3, <2>11, <3>1 DEF Waiting
    <3>3. Preparing(v, n, t)
      BY Zenon, <3>2 DEF Preparing
    <3>4. /\ ~HasPrepared(v, m, toWorker[q], FALSE) /\ ~HasReported(v, m, toWorker[q])
          /\ m # PrepareOk
      BY Zenon, <3>1, <3>2, Places
    <3>5. HasInit(v, n, t) /\ ~HasReported(v, n, t) /\ n # PrepareOk
      BY Zenon, <2>1, <3>2, <3>3, Places DEF Distinct
    <3>. QED  BY Zenon, <2>4, <2>5, <2>6, <2>7, <2>8, <2>9, <3>2, <3>3, <3>4, <3>5 DEF n
  <2>. QED  BY Zenon, <2>10, <2>11
<1>11. /\ InitDone \subseteq InitDone' /\ InitDone' = Procs /\ PrepareDone \subseteq PrepareDone'
       /\ Announced' = Announced /\ (failures = 0 => Reported' = Reported)
  <2>1. /\ InitDone \subseteq Procs /\ InitDone' \subseteq Procs /\ PrepareDone \subseteq Procs
        /\ Announced \subseteq Procs /\ Announced' \subseteq Procs
        /\ Reported \subseteq Procs /\ Reported' \subseteq Procs
    BY Zenon, <1>5 DEF InitDone, PrepareDone, Announced, Reported, Kept
  <2>. QED  BY Zenon, <1>10, <2>1
<1>12. DOMAIN toWorker' = Procs
  BY Zenon, PostAll
<1>. QED  BY Zenon, <1>3, <1>4, <1>6, <1>7, <1>9, <1>10, <1>11, <1>12, BarrierInv DEF Becomes

\* The last prepare_ok: every sender that is alive waits, and is told to send.
LEMMA PrepareBarrierInv ==
    ASSUME SetFacts, BenchmarkInv, NEW p \in Procs, setup' = setup, Post(Procs, "send", PreparedOne),
           PrepareBarrier(PreparedOne.prepare_ok), toMain[p] = PrepareOk,
           worker' = worker, failures' = failures,
           toMain' = [toMain EXCEPT ![p] = Tail(toMain[p])]
    PROVE  BenchmarkInv'
<1>1. main \in Mains /\ DOMAIN toMain = Procs /\ worker[p] \in Workers
  BY Zenon, SenderFacts
<1>2. /\ Prepared \in Nat /\ NbProcesses \in Nat /\ setup \in Setups
  BY Zenon, SetupNumbers DEF BenchmarkInv, BenchmarkTypeOK
<1>3. /\ PreparedOne \in Mains /\ PreparedOne.prepare_ok = main.prepare_ok + 1
      /\ PreparedOne.status = main.status /\ PreparedOne.init_ok = main.init_ok
      /\ PreparedOne.exited = main.exited /\ PreparedOne.prepared = main.prepared
      /\ PreparedOne.success = main.success /\ PreparedOne.failed = main.failed
      /\ PreparedOne.finished = main.finished
  BY Zenon, <1>1, <1>2, Counters
<1>4. Becomes(PreparedOne)
  BY Zenon, <1>3, PostMain
<1>5. Kept
  BY Zenon, SetupKept
<1>6. main.prepare_ok + 1 = NbProcesses /\ main'.prepare_ok = NbProcesses
  BY Zenon, <1>3, <1>4 DEF PrepareBarrier, Becomes
<1>7. AllPrepared' /\ ~AllPrepared /\ (Initialised' <=> Initialised)
  <2>1. main.prepare_ok # NbProcesses
    BY <1>1, <1>6 DEF Mains
  <2>. QED  BY Zenon, <1>3, <1>4, <1>5, <1>6, <2>1 DEF Initialised, AllPrepared, Kept, Becomes
<1>8. \A q \in Procs : q # p => q \in PrepareDone
  <2>1. p \notin PrepareDone
    BY Zenon DEF PrepareDone, HasPrepared
  <2>2. PrepareDone \in SUBSET Procs /\ main.prepare_ok \in Nat
    BY <1>1 DEF PrepareDone, Mains
  <2>3. main.prepare_ok <= Cardinality(PrepareDone)
    BY Zenon DEF BenchmarkInv, PreparesCounted
  <2>. QED  BY Zenon, <1>2, <1>6, <2>1, <2>2, <2>3, AllButOne
<1>9. /\ toMain'[p] = <<>> /\ DOMAIN toMain' = Procs
      /\ \A q \in Procs : q # p => toMain'[q] = toMain[q]
  BY Zenon, <1>1, Messages
<1>10. ASSUME NEW q \in Procs
       PROVE  /\ Stage(q)' /\ (toMain'[q] = toMain[q] \/ toMain'[q] = <<>>)
              /\ q \in PrepareDone' /\ (q \in InitDone => q \in InitDone')
              /\ q \in Announced' <=> (q \in Announced /\ q # p)
              /\ failures = 0 => (q \in Reported <=> q \in Reported')
  <2>. DEFINE v == worker[q]
              m == toMain[q]
              n == toMain'[q]
              t == toWorker'[q]
              i == Initialised
  <2>1. At(v, m, toWorker[q]) /\ Distinct(v) /\ (failures = 0 => (Dead(v) => m = <<>>))
    BY Zenon, SenderFacts
  <2>2. /\ q = p => n = <<>> /\ m = PrepareOk
        /\ q # p => n = m /\ HasPrepared(v, m, toWorker[q], i)
    BY Zenon, <1>8, <1>9 DEF PrepareDone
  <2>3. /\ Dead(v) => t = toWorker[q]
        /\ ~Dead(v) /\ toWorker[q] = <<>> => t = <<"send">>
    BY Zenon, PostAll
  <2>4. /\ q \in InitDone <=> HasInit(v, m, toWorker[q])
        /\ q \in Announced <=> m = PrepareOk
        /\ q \in Reported <=> HasReported(v, m, toWorker[q])
    BY Zenon DEF InitDone, Announced, Reported
  <2>5. q \in InitDone' <=> HasInit(v, n, t)
    BY Zenon, <1>5 DEF Kept, InitDone, HasInit, Starting, InitWorker, InitOk
  <2>6. q \in PrepareDone' <=> HasPrepared(v, n, t, i)
    BY Zenon, <1>5, <1>7 DEF Kept, PrepareDone, HasPrepared, Starting, Waiting, Preparing,
              InitWorker, InitOk, PrepareOk
  <2>7. q \in Announced' <=> n = PrepareOk
    BY Zenon, <1>5 DEF Kept, Announced, PrepareOk
  <2>8. q \in Reported' <=> HasReported(v, n, t)
    BY Zenon, <1>5 DEF Kept, Reported, HasReported, Dead, SendOk
  <2>9. ASSUME (Sending(v, n, t) /\ i) \/ Left(v, n, t)
        PROVE  Stage(q)'
    BY Zenon, <1>5, <1>7, <2>9 DEF Kept, Stage, Sending, Left, Dead, InitWorker, InitOk, PrepareOk,
              SendOk
  <2>. HIDE DEF v, m, n, t
  <2>10. CASE Dead(v)
    <3>1. Left(v, m, toWorker[q]) /\ toWorker[q] = <<>>
      BY Zenon, <2>1, <2>10, Points DEF Left
    <3>2. t = <<>>
      BY Zenon, <2>3, <2>10, <3>1
    <3>3. Left(v, m, <<>>) /\ Left(v, n, <<>>)
      BY Zenon, <2>2, <3>1 DEF Left
    <3>4. HasReported(v, m, <<>>) /\ HasReported(v, n, <<>>)
      BY Zenon, <3>3, Places
    <3>5. HasPrepared(v, n, <<>>, i) /\ n # PrepareOk
      <4>1. n # PrepareReport /\ n # PrepareOk
        <5>1. <<>> # PrepareReport /\ <<>> # PrepareOk
          BY Zenon, <2>1 DEF Distinct
        <5>2. q # p => m # PrepareReport /\ m # PrepareOk
          BY Zenon, <2>2 DEF HasPrepared
        <5>. QED  BY Zenon, <2>2, <5>1, <5>2
      <4>. QED  BY Zenon, <3>3, <4>1, Places
    <3>6. HasInit(v, m, <<>>) => HasInit(v, n, <<>>)
      <4>1. HasInit(v, m, <<>>) <=> m # InitOk
        BY Zenon, <3>3, Places
      <4>2. HasInit(v, n, <<>>) <=> n # InitOk
        BY Zenon, <3>3, Places
      <4>. QED  BY Zenon, <2>1, <2>2, <4>1, <4>2 DEF Distinct
    <3>7. n = m \/ n = <<>>
      BY Zenon, <2>2
    <3>8. ~(m = PrepareOk /\ q # p)
      BY Zenon, <2>2 DEF HasPrepared
    <3>. QED  BY Zenon, <2>4, <2>5, <2>6, <2>7, <2>8, <2>9, <3>1, <3>2, <3>3, <3>4, <3>5, <3>6, <3>7, <3>8
              DEF m, n
  <2>11. CASE ~Dead(v)
    <3>1. \/ q = p /\ v.pc = "idle" /\ toWorker[q] = <<>> /\ Preparing(v, m, <<>>) /\ Initialised
          \/ q # p /\ Waiting(v, m, toWorker[q]) /\ Initialised
      <4>1. CASE q = p
        <5>1. m = PrepareOk /\ m # <<>> /\ m # SendStats(v)
          BY Zenon, <2>1, <2>2, <4>1 DEF Distinct
        <5>2. toWorker[q] = <<>> /\ v.pc = "idle" /\ Initialised
          BY <2>1, <2>11, <5>1, Heads
        <5>. QED  BY Zenon, <4>1, <5>1, <5>2 DEF Preparing
      <4>2. CASE q # p
        <5>1. /\ ~Starting(v, m, toWorker[q]) /\ ~Preparing(v, m, toWorker[q])
              /\ Waiting(v, m, toWorker[q]) => Initialised
          BY Zenon, <2>2, <4>2 DEF HasPrepared
        <5>2. ~Left(v, m, toWorker[q])
          BY Zenon, <2>11 DEF Left
        <5>. QED  BY Zenon, <1>7, <2>1, <4>2, <5>1, <5>2 DEF At
      <4>. QED  BY Zenon, <4>1, <4>2
    <3>2. /\ toWorker[q] = <<>> /\ v.pc = "idle" /\ n = <<>> /\ t = <<"send">> /\ Initialised
      BY Zenon, <2>2, <2>3, <2>11, <3>1 DEF Waiting
    <3>3. Sending(v, n, t)
      BY Zenon, <3>2 DEF Sending
    <3>4. ~HasReported(v, m, toWorker[q]) /\ (q # p => m # PrepareOk)
      BY Zenon, <3>1, <3>2, Places
    <3>5. /\ HasInit(v, n, t) /\ HasPrepared(v, n, t, i) /\ ~HasReported(v, n, t)
          /\ n # PrepareOk
      <4>1. n # SendOk /\ t # <<"exit">> /\ v.pc # "sleep"
        BY Zenon, <2>1, <3>2, Names DEF Distinct
      <4>. QED  BY Zenon, <3>3, <4>1, Places
    <3>. QED  BY Zenon, <2>4, <2>5, <2>6, <2>7, <2>8, <2>9, <3>2, <3>3, <3>4, <3>5 DEF n
  <2>. QED  BY Zenon, <2>10, <2>11
<1>11. /\ InitDone \subseteq InitDone' /\ PrepareDone' = Procs /\ PrepareDone \subseteq PrepareDone'
       /\ p \in Announced /\ Announced' = Announced \ {p}
       /\ (failures = 0 => Reported' = Reported)
  <2>1. /\ InitDone \subseteq Procs /\ PrepareDone' \subseteq Procs /\ PrepareDone \subseteq Procs
        /\ Announced \subseteq Procs /\ Announced' \subseteq Procs
        /\ Reported \subseteq Procs /\ Reported' \subseteq Procs
    BY Zenon, <1>5 DEF InitDone, PrepareDone, Announced, Reported, Kept
  <2>2. p \in Announced
    BY Zenon DEF Announced
  <2>. QED  BY Zenon, <1>10, <2>1, <2>2
<1>12. DOMAIN toWorker' = Procs
  BY Zenon, PostAll
<1>. QED  BY Zenon, <1>3, <1>4, <1>6, <1>7, <1>9, <1>10, <1>11, <1>12, BarrierInv DEF Becomes

-----------------------------------------------------------------------------
(* The invariant, and what it says.                                        *)

\* The scripts start with every init_worker on its way.
LEMMA BenchmarkInitInv ==
    ASSUME SetFacts, Init
    PROVE  BenchmarkInv
<1>1. /\ NbProcesses \in Nat /\ NbProcesses > 0 /\ Prepared \in Nat
      /\ WaitTotal \in Nat /\ BatchSize \in Nat /\ IsFiniteSet(Procs)
  BY Zenon, SetupNumbers DEF Init
<1>. DEFINE w == [pc |-> "idle", next |-> 0, open |-> {}, success |-> 0, failed |-> 0]
<1>2. /\ worker = [p \in Procs |-> w] /\ toMain = [p \in Procs |-> InitWorker]
      /\ toWorker = [p \in Procs |-> <<>>] /\ failures = 0 /\ setup \in Setups
  BY Zenon DEF Init, InitWorker
<1>3. /\ w \in Workers /\ w.pc = "idle" /\ w.next = 0 /\ w.open = {} /\ w.success = 0 /\ w.failed = 0
  BY DEF Workers
<1>4. /\ main \in Mains /\ main.status = "running" /\ main.init_ok = 0 /\ main.prepare_ok = 0
      /\ main.exited = 0 /\ main.prepared = 0 /\ main.success = 0 /\ main.failed = 0
      /\ main.finished = 0
  BY DEF Init, Mains
<1>. HIDE DEF w
<1>5. BenchmarkTypeOK
  BY Zenon, <1>2, <1>3, <1>4 DEF BenchmarkTypeOK
<1>6. Distinct(w) /\ Starting(w, InitWorker, <<>>) /\ ~Dead(w) /\ w.pc # "reaped"
  BY Zenon, <1>3, AllDistinct, Names DEF Starting, Dead
<1>7. Work(w, InitWorker)
  <2>1. IsFiniteSet(w.open) /\ Cardinality(w.open) = 0
    BY <1>3, CardEmpty
  <2>2. w.success + w.failed + BatchSize * Cardinality(w.open) <= w.next
    BY <1>1, <1>3, <2>1
  <2>. QED  BY Zenon, <1>3, <1>6, <2>1, <2>2 DEF Work, Distinct, Reporting
<1>8. Senders
  <2>1. ~(0 > 0)
    OBVIOUS
  <2>. QED  BY Zenon, <1>2, <1>3, <1>6, <1>7, <2>1 DEF Senders, Stage
<1>9. Cardinality({}) = 0
  BY CardEmpty
<1>10. Announced = {} /\ Reaped = {} /\ Reported = {}
  <2>1. \A p \in Procs : /\ toMain[p] # PrepareOk /\ worker[p].pc # "reaped"
                         /\ ~HasReported(worker[p], toMain[p], toWorker[p])
    BY Zenon, <1>2, <1>6, Places
  <2>. QED  BY <2>1 DEF Announced, Reaped, Reported
<1>11. /\ Cardinality(InitDone) \in Nat /\ Cardinality(PrepareDone) \in Nat
  <2>1. InitDone \in SUBSET Procs /\ PrepareDone \in SUBSET Procs
    BY DEF InitDone, PrepareDone
  <2>. QED  BY Zenon, <1>1, <2>1, SubsetCard, CardNat
<1>12. InitsCounted /\ PreparesCounted
  BY <1>4, <1>11 DEF InitsCounted, PreparesCounted
<1>13. PreparedCounted
  BY <1>1, <1>4, <1>9, <1>10 DEF PreparedCounted
<1>14. ExitsCounted
  <2>1. "running" # "done"
    OBVIOUS
  <2>. QED  BY Zenon, <1>4, <1>9, <1>10, <2>1 DEF ExitsCounted
<1>15. Totals
  <2>1. main.finished = main.success + main.failed
    BY <1>4
  <2>2. \A p \in Procs : ~Dead(worker[p])
    BY Zenon, <1>2, <1>6
  <2>3. Reports(main.finished, 0)
    BY <1>1, <1>4 DEF Reports
  <2>. QED  BY Zenon, <1>9, <1>10, <2>1, <2>2, <2>3 DEF Totals
<1>. QED  BY Zenon, <1>5, <1>8, <1>12, <1>13, <1>14, <1>15 DEF BenchmarkInv

\* Every step of the scripts keeps it.
LEMMA BenchmarkNextInv ==
    ASSUME SetFacts, BenchmarkInv, [Next]_benchmarkVars
    PROVE  BenchmarkInv'
<1>1. CASE UNCHANGED benchmarkVars
  <2>1. /\ setup' = setup /\ main' = main /\ worker' = worker /\ toMain' = toMain
        /\ toWorker' = toWorker /\ failures' = failures
    BY Zenon, <1>1 DEF benchmarkVars
  <2>2. Kept /\ NbProcesses \in Nat /\ NbProcesses > 0
    BY Zenon, <2>1, SetupKept, SetupNumbers DEF BenchmarkInv, BenchmarkTypeOK
  <2>3. 0 \in Procs
    BY <2>2 DEF Procs
  <2>6. worker[0] \in Workers /\ At(worker[0], toMain[0], toWorker[0])
        /\ Work(worker[0], toMain[0]) /\ (worker[0].next > 0 => AllPrepared)
        /\ failures \in Nat /\ main \in Mains /\ DOMAIN toMain = Procs /\ DOMAIN toWorker = Procs
        /\ (failures = 0 => (Dead(worker[0]) => toMain[0] = <<>>))
    BY Zenon, <2>3, SenderFacts
  <2>7. worker' = [worker EXCEPT ![0] = worker[0]]
    BY <2>1 DEF BenchmarkInv, BenchmarkTypeOK
  <2>8. Moves(0, worker[0], toMain[0], toWorker[0])
    BY Zenon, <2>1, <2>3, <2>6, <2>7, MovesIntro
  <2>. QED  BY Zenon, <2>1, <2>3, <2>6, <2>8, SenderMove
<1>2. CASE Next
  <2>1. setup' = setup
    BY Zenon, <1>2 DEF Next
  <2>2. PICK p \in Procs : Step(p)
    BY Zenon, <1>2 DEF Next
  <2>3. CASE on_message(p)
    BY Zenon, <2>1, <2>3, MessageCases, AnswerInv, ReadyInv, ReportInv, PreparedInv, SentInv,
       InitBarrierInv, PrepareBarrierInv
  <2>4. CASE on_exit(p)
    BY Zenon, <2>1, <2>4, ExitInv
  <2>5. CASE SenderStep(p)
    BY Zenon, <2>1, <2>5, ReceiveInv, InitStepInv, PrepareInv, SubmitInv, SettleInv, FinishInv,
       SendOkInv DEF SenderStep
  <2>6. CASE fail(p)
    BY Zenon, <2>1, <2>6, FailInv
  <2>. QED  BY Zenon, <2>2, <2>3, <2>4, <2>5, <2>6 DEF Step
<1>. QED  BY Zenon, <1>1, <1>2

\* A command waits for a sender only while the sender is idle.
LEMMA InvNoOverlap == BenchmarkInv => NoHandlerOverlap
<1>. SUFFICES ASSUME BenchmarkInv, NEW p \in Procs, toWorker[p] # <<>>
     PROVE  worker[p].pc = "idle"
  BY Zenon DEF NoHandlerOverlap
<1>1. Stage(p)
  BY Zenon DEF BenchmarkInv, Senders
<1>. QED  BY Zenon, <1>1 DEF Stage, Starting, Waiting, Preparing, Sending, Left

\* A sender that sends was told to, after the last prepare_ok, and every report of what
\* was prepared comes with a prepare_ok.
LEMMA InvPrepared ==
    ASSUME SetFacts, BenchmarkInv
    PROVE  SendAfterAllPrepared
<1>. SUFFICES ASSUME NEW p \in Procs, worker[p].next > 0
     PROVE  main.prepare_ok = NbProcesses /\ main.prepared = NbProcesses * Prepared
  BY Zenon DEF SendAfterAllPrepared
<1>1. main.prepare_ok = NbProcesses
  BY Zenon DEF BenchmarkInv, Senders, AllPrepared
<1>2. \A q \in Procs : q \in PrepareDone
  BY Zenon, <1>1, NotAllPrepared DEF AllPrepared
<1>3. Announced = {}
  BY <1>2 DEF Announced, PrepareDone, HasPrepared
<1>4. main.prepared = Prepared * (NbProcesses + 0)
  BY Zenon, <1>1, <1>3, CardEmpty DEF BenchmarkInv, PreparedCounted
<1>5. NbProcesses \in Nat /\ Prepared \in Nat
  BY Zenon, SetupNumbers DEF BenchmarkInv, BenchmarkTypeOK
<1>6. \A a, b \in Nat : b * (a + 0) = a * b
  OBVIOUS
<1>. QED  BY Zenon, <1>1, <1>4, <1>5, <1>6

\* The main script is done when all senders have exited; each exits after its report.
LEMMA InvTotals ==
    ASSUME SetFacts, BenchmarkInv
    PROVE  TotalsComplete
<1>. SUFFICES ASSUME main.status = "done", failures = 0
     PROVE  /\ main.finished = main.success + main.failed
            /\ main.finished >= NbProcesses * WaitTotal
            /\ BatchSize > 0 => main.finished < NbProcesses * (WaitTotal + BatchSize)
  BY Zenon DEF TotalsComplete
<1>1. /\ NbProcesses \in Nat /\ NbProcesses > 0 /\ WaitTotal \in Nat /\ BatchSize \in Nat
      /\ IsFiniteSet(Procs) /\ Cardinality(Procs) = NbProcesses
  BY Zenon, SetupNumbers DEF BenchmarkInv, BenchmarkTypeOK
<1>2. Cardinality(Reaped) = NbProcesses
  BY Zenon DEF BenchmarkInv, ExitsCounted
<1>3. Reaped = Procs
  <2>1. Reaped \in SUBSET Procs
    BY DEF Reaped
  <2>2. Cardinality(Procs) <= Cardinality(Reaped)
    BY <1>1, <1>2
  <2>. QED  BY <1>1, <2>1, <2>2, CardAll
<1>4. Reported = Procs
  BY <1>3 DEF Reported, Reaped, HasReported, Dead
<1>5. /\ main.finished = main.success + main.failed
      /\ Reports(main.finished, NbProcesses)
  BY Zenon, <1>1, <1>4 DEF BenchmarkInv, Totals
<1>6. main.finished \in Nat
  BY DEF BenchmarkInv, BenchmarkTypeOK, Mains
<1>7. \A a, b \in Nat : b * a = a * b
  OBVIOUS
<1>. DEFINE x == NbProcesses * WaitTotal
            y == NbProcesses * (WaitTotal + BatchSize)
<1>8. WaitTotal + BatchSize \in Nat
  BY <1>1
<1>9. main.finished >= x /\ (BatchSize > 0 => main.finished + NbProcesses <= y) /\ y \in Nat
  <2>1. WaitTotal * NbProcesses = x
    BY Zenon, <1>1, <1>7
  <2>2. (WaitTotal + BatchSize) * NbProcesses = y
    BY Zenon, <1>1, <1>7, <1>8
  <2>3. y \in Nat
    BY Zenon, <1>1, <1>8, OneMore
  <2>. HIDE DEF x, y
  <2>. QED  BY Zenon, <1>5, <2>1, <2>2, <2>3 DEF Reports
<1>. HIDE DEF x, y
<1>10. BatchSize > 0 => main.finished < y
  BY <1>1, <1>6, <1>9
<1>. QED  BY Zenon, <1>5, <1>9, <1>10 DEF x, y

-----------------------------------------------------------------------------
(* The theorems.                                                           *)

INSTANCE FiniteSetTheorems

\* The numbers of senders and of batches under way are cardinalities of finite sets.
LEMMA SetFactsHold == SetFacts
<1>1. \A S : IsFiniteSet(S) => Cardinality(S) \in Nat
  BY FS_CardinalityType
<1>2. \A S, T : IsFiniteSet(S) /\ T \in SUBSET S =>
          /\ IsFiniteSet(T) /\ Cardinality(T) <= Cardinality(S)
          /\ Cardinality(S) = Cardinality(T) => S = T
  BY FS_Subset
<1>3. \A S, x : IsFiniteSet(S) =>
          /\ IsFiniteSet(S \cup {x}) /\ IsFiniteSet(S \ {x})
          /\ Cardinality(S \cup {x}) = IF x \in S THEN Cardinality(S) ELSE Cardinality(S) + 1
          /\ Cardinality(S \ {x}) = IF x \in S THEN Cardinality(S) - 1 ELSE Cardinality(S)
  BY FS_AddElement, FS_RemoveElement
<1>4. \A a, b \in Int :
          /\ IsFiniteSet(a .. b)
          /\ Cardinality(a .. b) = IF a > b THEN 0 ELSE b - a + 1
  BY FS_Interval
<1>5. IsFiniteSet({}) /\ Cardinality({}) = 0
  BY FS_EmptySet
<1>. QED  BY Zenon, <1>1, <1>2, <1>3, <1>4, <1>5 DEF SetFacts

\* The invariant of the benchmark scripts holds throughout.
LEMMA BenchmarkInvHolds == Spec => []BenchmarkInv
<1>1. Init => BenchmarkInv
  BY SetFactsHold, BenchmarkInitInv
<1>2. BenchmarkInv /\ [Next]_benchmarkVars => BenchmarkInv'
  BY SetFactsHold, BenchmarkNextInv
<1>. QED  BY <1>1, <1>2, PTL DEF Spec

\* Every handler of sender_process.js is entered with the last one returned.
THEOREM HandlersDoNotOverlap == Spec => []NoHandlerOverlap
  BY InvNoOverlap, BenchmarkInvHolds, PTL

\* Nothing is sent before every sender has prepared its part.
THEOREM SendingFollowsPreparation == Spec => []SendAfterAllPrepared
<1>1. BenchmarkInv => SendAfterAllPrepared
  BY SetFactsHold, InvPrepared
<1>. QED  BY <1>1, BenchmarkInvHolds, PTL

\* The totals printed at the end are those of all senders, when none died.
THEOREM TotalsAreComplete == Spec => []TotalsComplete
<1>1. BenchmarkInv => TotalsComplete
  BY SetFactsHold, InvTotals
<1>. QED  BY <1>1, BenchmarkInvHolds, PTL
=============================================================================

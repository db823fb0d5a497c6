------------------------------ MODULE Benchmark ------------------------------
(***************************************************************************)
(* The load generator of substrate-blockchain-client/benchmark: a main     *)
(* script (report_accident.js, or one of the init_* scripts, whose loops   *)
(* are the same) forks NbProcesses sender processes and takes them, over   *)
(* the node IPC channels, through init, prepare, send and exit.  The main  *)
(* script holds the two barriers (every init_ok, every prepare_ok) and     *)
(* adds up the statistics.                                                 *)
(*                                                                         *)
(* Each IPC direction is a queue per sender.  A sender may die at any      *)
(* moment (process.exit(1), an unhandled rejection, a kill); the exit      *)
(* event is not ordered with the messages still in its channel.  A message *)
(* posted to a dead sender is lost, or raises an 'error' event that nobody *)
(* listens to and that ends the main script.  Nothing is followed after    *)
(* the main script has ended.                                              *)
(*                                                                         *)
(* A transaction is its index; the chain's answer to it is a choice.  The  *)
(* pauses between two submissions are left out; the one before send_ok is  *)
(* a place of its own (sleep), in which a sender may die.                  *)
(***************************************************************************)
EXTENDS Naturals, Sequences, FiniteSets

CONSTANTS
    Setups,          \* what the scripts may be started with
    MaxProcesses,    \* bound on nb_processes
    MaxFailures      \* bound on the senders that die by themselves

ASSUME BenchmarkAssumption ==
    /\ Setups \subseteq
          [nb_processes : 1 .. MaxProcesses,
           limit : Nat,      \* transactions asked for (report_accident only)
           vehicles : Nat,   \* accounts in vehicles.json, and in drivers.json
           factories : Nat,  \* accounts in factories.json
           transaction_type : {"report_accident", "per_vehicle", "new_car"}]
    /\ {MaxProcesses, MaxFailures} \subseteq Nat

VARIABLES
    setup,     \* the arguments, read once
    main,      \* the counters of the main script, and whether it still runs
    worker,    \* per sender: where it is, its loop index, its open batches
    toMain,    \* IPC messages of each sender to the main script
    toWorker,  \* IPC messages of the main script to each sender
    failures   \* how many senders died by themselves

benchmarkVars == <<setup, main, worker, toMain, toWorker, failures>>

NbProcesses == setup.nb_processes
TransactionType == setup.transaction_type
Procs == 0 .. NbProcesses - 1

\* parseInt(total / nb_processes): the part of every sender.
Share(total) == total \div NbProcesses

\* Transactions prepared by a sender; the init scripts prepare none.
Prepared == IF TransactionType = "report_accident" THEN Share(setup.limit) ELSE 0

\* wait_total_of, and how many of them one turn of the send loop submits.
WaitTotal ==
    IF TransactionType = "report_accident" THEN Prepared ELSE Share(setup.vehicles)

BatchSize == IF TransactionType = "new_car" THEN Share(setup.factories) ELSE 1

Msg(cmd) == [cmd |-> cmd, success |-> 0, failed |-> 0, finished |-> 0]

Gone(p) == worker[p].pc \in {"exited", "reaped"}

Init ==
    /\ setup \in Setups
    /\ main = [status |-> "running", init_ok |-> 0, prepare_ok |-> 0,
               exited |-> 0, prepared |-> 0,
               success |-> 0, failed |-> 0, finished |-> 0]
    /\ worker = [p \in Procs |-> [pc |-> "idle", next |-> 0, open |-> {},
                                  success |-> 0, failed |-> 0]]
    /\ toMain = [p \in Procs |-> <<Msg("init_worker")>>]
    /\ toWorker = [p \in Procs |-> <<>>]
    /\ failures = 0

-----------------------------------------------------------------------------
(* The main script.                                                        *)

\* Post cmd to the senders in ps, the rest of main becoming m.
Post(ps, cmd, m) ==
    /\ toWorker' = [p \in Procs |->
          IF p \in ps /\ ~Gone(p) THEN Append(toWorker[p], cmd) ELSE toWorker[p]]
    /\ \/ main' = m
       \/ (\E p \in ps : Gone(p)) /\ main' = [m EXCEPT !.status = "crashed"]

Keep(m) == main' = m /\ UNCHANGED toWorker

EarlyInitBarrier(count) == count = 1
InitBarrier(count) == count = NbProcesses
PrepareBarrier(count) == count = NbProcesses

on_message(p) ==
    /\ main.status = "running" /\ toMain[p] # <<>>
    /\ toMain' = [toMain EXCEPT ![p] = Tail(@)]
    /\ UNCHANGED <<worker, failures>>
    /\ LET msg == Head(toMain[p])
           ready == [main EXCEPT !.init_ok = @ + 1]
           prepared == [main EXCEPT !.prepare_ok = @ + 1]
       IN  \/ msg.cmd = "init_worker" /\ Post({p}, "init", main)
           \/ /\ msg.cmd = "init_ok"
              /\ IF InitBarrier(ready.init_ok)
                 THEN Post(Procs, "prepare", ready) ELSE Keep(ready)
           \/ /\ msg.cmd = "prepare_ok"
              /\ IF PrepareBarrier(prepared.prepare_ok)
                 THEN Post(Procs, "send", prepared) ELSE Keep(prepared)
           \/ /\ msg.cmd = "prepare_stats"
              /\ Keep([main EXCEPT !.prepared = @ + msg.finished])
           \/ /\ msg.cmd = "send_stats"
              /\ Keep([main EXCEPT !.success = @ + msg.success,
                                   !.failed = @ + msg.failed,
                                   !.finished = @ + msg.finished])
           \/ msg.cmd = "send_ok" /\ Post({p}, "exit", main)

LastExit(count) == count = NbProcesses

\* The last exit event prints the totals and ends the main script.
on_exit(p) ==
    /\ main.status = "running" /\ worker[p].pc = "exited"
    /\ worker' = [worker EXCEPT ![p].pc = "reaped"]
    /\ main' = [main EXCEPT !.exited = @ + 1,
                            !.status = IF LastExit(main.exited + 1)
                                       THEN "done" ELSE @]
    /\ UNCHANGED <<toMain, toWorker, failures>>

-----------------------------------------------------------------------------
(* A sender.                                                               *)

Tell(p, msgs) == toMain' = [toMain EXCEPT ![p] = @ \o msgs]

\* A message starts a handler; exit ends the process at once.
receive(p) ==
    /\ worker[p].pc = "idle" /\ toWorker[p] # <<>>
    /\ toWorker' = [toWorker EXCEPT ![p] = Tail(@)]
    /\ worker' = [worker EXCEPT ![p].pc =
          IF Head(toWorker[p]) = "exit" THEN "exited" ELSE Head(toWorker[p])]
    /\ UNCHANGED <<main, toMain, failures>>

\* initApi and makeAll.
init(p) ==
    /\ worker[p].pc = "init"
    /\ worker' = [worker EXCEPT ![p].pc = "idle"]
    /\ Tell(p, <<Msg("init_ok")>>)
    /\ UNCHANGED <<main, toWorker, failures>>

PrepareOkFirst == <<Msg("prepare_ok"),
                    [Msg("prepare_stats") EXCEPT !.finished = Prepared]>>
PrepareReport == <<[Msg("prepare_stats") EXCEPT !.finished = Prepared],
                   Msg("prepare_ok")>>

\* The round robin over the sender's vehicles.  With none of them,
\* i % vehicle_array.length is no index and the first signature throws.
prepare(p) ==
    /\ worker[p].pc = "prepare"
    /\ \/ /\ Prepared > 0 => Share(setup.vehicles) > 0
          /\ worker' = [worker EXCEPT ![p].pc = "idle"]
          /\ Tell(p, PrepareReport)
          /\ UNCHANGED failures
       \/ /\ Prepared > 0 /\ Share(setup.vehicles) = 0
          /\ worker' = [worker EXCEPT ![p].pc = "exited"]
          /\ failures' = failures + 1
          /\ UNCHANGED toMain
    /\ UNCHANGED <<main, toWorker>>

\* One turn of the send loop: submit the batch that starts at next.
submit(p) ==
    /\ worker[p].pc = "send" /\ worker[p].next < WaitTotal
    /\ worker' = [worker EXCEPT ![p].open = @ \cup {worker[p].next},
                                ![p].next = @ + BatchSize]
    /\ UNCHANGED <<main, toMain, toWorker, failures>>

CountSuccessOnly(w, ok, n) == IF ok THEN [w EXCEPT !.success = @ + n] ELSE w
Count(w, ok, n) == [w EXCEPT !.success = IF ok THEN @ + n ELSE @,
                             !.failed = IF ok THEN @ ELSE @ + n]

\* The promise of a batch settles.  A batch that reaches past the last vehicle
\* is rejected, and counted as failed, whatever became of its other vehicles.
settle(p) ==
    /\ worker[p].pc = "send"
    /\ \E i \in worker[p].open, ok \in BOOLEAN :
          /\ ok => i + BatchSize <= WaitTotal
          /\ worker' = [worker EXCEPT ![p] =
                [Count(worker[p], ok, BatchSize) EXCEPT !.open = worker[p].open \ {i}]]
    /\ UNCHANGED <<main, toMain, toWorker, failures>>

\* The send_stats message of a sender.
SendStats(w) ==
    <<[cmd |-> "send_stats", success |-> w.success, failed |-> w.failed,
       finished |-> w.success + w.failed]>>

AllSubmitted(w) == w.next >= WaitTotal
AllFinished(w) == w.success + w.failed >= WaitTotal

\* The loop is over and finished has reached wait_total_of: the statistics go out.
finish(p) ==
    /\ worker[p].pc = "send" /\ worker[p].next >= WaitTotal
    /\ AllFinished(worker[p])
    /\ worker' = [worker EXCEPT ![p].pc = "sleep"]
    /\ Tell(p, SendStats(worker[p]))
    /\ UNCHANGED <<main, toWorker, failures>>

\* A second later the handler says so and returns.
send_ok(p) ==
    /\ worker[p].pc = "sleep"
    /\ worker' = [worker EXCEPT ![p].pc = "idle"]
    /\ Tell(p, <<Msg("send_ok")>>)
    /\ UNCHANGED <<main, toWorker, failures>>

\* A missing account file, an unhandled rejection, a kill.
fail(p) ==
    /\ ~Gone(p) /\ failures < MaxFailures
    /\ worker' = [worker EXCEPT ![p].pc = "exited"]
    /\ toWorker' = [toWorker EXCEPT ![p] = <<>>]
    /\ failures' = failures + 1
    /\ UNCHANGED <<main, toMain>>

SenderStep(p) ==
    \/ receive(p) \/ init(p) \/ prepare(p)
    \/ submit(p) \/ settle(p) \/ finish(p) \/ send_ok(p)

Step(p) ==
    \/ on_message(p)
    \/ on_exit(p)
    \/ main.status = "running" /\ (SenderStep(p) \/ fail(p))

Next == UNCHANGED setup /\ \E p \in Procs : Step(p)

Spec == Init /\ [][Next]_benchmarkVars

\* The event loops of the main script and of the senders run; the chain
\* answers every transaction (the provider's timeout rejects the others).
FairSpec ==
    /\ Spec
    /\ \A p \in 0 .. MaxProcesses - 1 :
          /\ WF_benchmarkVars(p \in Procs /\ on_message(p) /\ UNCHANGED setup)
          /\ WF_benchmarkVars(p \in Procs /\ on_exit(p) /\ UNCHANGED setup)
          /\ WF_benchmarkVars(p \in Procs /\ main.status = "running"
                                 /\ SenderStep(p) /\ UNCHANGED setup)

-----------------------------------------------------------------------------
(* Properties.                                                             *)

\* The handlers of sender_process.js are async and share the process's arrays,
\* yet none is ever entered while another one is suspended: a message waits for
\* a sender only when that sender's last handler has returned.
NoHandlerOverlap ==
    \A p \in Procs : toWorker[p] # <<>> => worker[p].pc = "idle"

\* No transaction leaves a sender before every sender has prepared its part,
\* and the total the main script prints at that barrier is then complete.
SendAfterAllPrepared ==
    (\E p \in Procs : worker[p].next > 0)
        => /\ main.prepare_ok = NbProcesses
           /\ main.prepared = NbProcesses * Prepared

\* When no sender died, the totals printed at the end account for all the work
\* of every sender; only the last batch of new_car may be counted in excess.
\* With fewer factories than senders a batch of new_car is empty, and then the
\* loop ends only when there was nothing to send.
TotalsComplete ==
    main.status = "done" /\ failures = 0
        => /\ main.finished = main.success + main.failed
           /\ main.finished >= NbProcesses * WaitTotal
           /\ BatchSize > 0 => main.finished < NbProcesses * (WaitTotal + BatchSize)

\* The main script ends, unless a sender was lost before the send barrier: a
\* sender that dies while it sends does not leave it waiting.  And once every
\* sender is gone, whatever it died of, it ends too: it never waits for messages
\* that nobody can send any more.
MainScriptEnds ==
    /\ [](main.prepare_ok < NbProcesses => failures = 0)
          => <>(main.status # "running")
    /\ (\A p \in Procs : Gone(p)) ~> main.status # "running"

\* README.md of the benchmark: "this will send 10k transactions", for a limit
\* of 10000.
LimitIsSent ==
    (main.status = "done" /\ failures = 0 /\ TransactionType = "report_accident")
        => main.finished = setup.limit
=============================================================================

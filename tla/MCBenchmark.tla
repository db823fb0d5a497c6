---------------------------- MODULE MCBenchmark ----------------------------
(* An instance of Benchmark for TLC.                                       *)
EXTENDS Benchmark

Started(n, limit, vehicles, factories, type) ==
    [nb_processes |-> n, limit |-> limit, vehicles |-> vehicles,
     factories |-> factories, transaction_type |-> type]

MCSetups == {
    \* two transactions for each sender
    Started(2, 4, 2, 2, "report_accident"),
    \* a limit that is no multiple of the number of senders
    Started(3, 4, 3, 3, "report_accident"),
    \* fewer vehicles than senders: none has a vehicle to prepare with
    Started(3, 3, 2, 3, "report_accident"),
    \* one call for each of two vehicles
    Started(2, 0, 4, 2, "per_vehicle"),
    \* three vehicles and two factories for each: the last batch is short
    Started(2, 0, 6, 4, "new_car")}
=============================================================================

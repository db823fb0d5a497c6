----------------------------- MODULE SimRenault -----------------------------
(***************************************************************************)
(* The pallet sim_renault: the registry of factories and vehicles kept by  *)
(* the Renault parachain.  Block numbers are left out: nothing reads them. *)
(***************************************************************************)
EXTENDS SubstrateChain

CONSTANT InitFactoryAndVehicle  \* the genesis account, or None

ASSUME GenesisFactoryAssumption ==
    InitFactoryAndVehicle \in Accounts \cup {None}

VARIABLES
    Factories,      \* the accounts that are factories
    Vehicles,       \* vehicle -> the factory that registered it, or None
    VehiclesStatus  \* the accounts whose status is Some(true); none is false

simRenaultVars == <<Factories, Vehicles, VehiclesStatus>>

SimRenaultTypeOK ==
    /\ Factories \subseteq Accounts
    /\ Vehicles \in [Accounts -> Accounts \cup {None}]
    /\ VehiclesStatus \subseteq Accounts

\* GenesisBuild: the configured account is factory, vehicle and initialised.
SimRenaultInit ==
    LET genesis == {InitFactoryAndVehicle} \ {None} IN
    /\ Factories = genesis
    /\ Vehicles = [a \in Accounts |-> IF a \in genesis THEN a ELSE None]
    /\ VehiclesStatus = genesis

is_vehicle(vehicle) == vehicle \in VehiclesStatus

\* Dispatched by root (sudo).
create_factory(factory) ==
    /\ factory \notin Factories
    /\ Factories' = Factories \cup {factory}
    /\ UNCHANGED <<Vehicles, VehiclesStatus>>

\* Mutant: no factory is unknown.
EveryoneIsAFactory(who) == FALSE

\* Error::UnknownFactory
UnknownFactory(who) == who \notin Factories

create_vehicle(who, vehicle) ==
    /\ ~UnknownFactory(who)
    /\ Vehicles[vehicle] = None
    /\ Vehicles' = [Vehicles EXCEPT ![vehicle] = who]
    /\ UNCHANGED <<Factories, VehiclesStatus>>

init_vehicle(who, vehicle) ==
    /\ Vehicles[who] # None
    /\ who = vehicle
    /\ VehiclesStatus' = VehiclesStatus \cup {vehicle}
    /\ UNCHANGED <<Factories, Vehicles>>
=============================================================================

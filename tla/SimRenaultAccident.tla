------------------------- MODULE SimRenaultAccident -------------------------
(***************************************************************************)
(* The pallet sim_renault_accident on top of sim_renault: the accidents    *)
(* vehicles report to Renault, their per-vehicle counter, and the IPFS     *)
(* status of the reported data hashes.  request_data, the call the         *)
(* insurance sends over XCM, changes no storage of this chain: it is an    *)
(* action of module AccidentProtocol, built on get_accident_data.          *)
(***************************************************************************)
EXTENDS SimRenault

CONSTANT Statuses   \* the u8 values set_ipfs_status is called with

ASSUME StatusAssumption ==
    /\ Statuses \subseteq 0 .. 255
    /\ None \notin Statuses \cup {0}

VARIABLES
    Accidents,      \* <<vehicle, index>> -> data hash, or None
    AccidentCount,  \* vehicle -> u32 counter, or None
    IpfsStatus      \* data hash -> u8 status, or None

simRenaultAccidentVars == <<Accidents, AccidentCount, IpfsStatus>>
renaultVars == <<Factories, Vehicles, VehiclesStatus,
                 Accidents, AccidentCount, IpfsStatus>>

\* Type invariant of the Renault chain's storage.
RenaultTypeOK ==
    /\ SimRenaultTypeOK
    /\ Accidents \in [Keys -> Data \cup {None}]
    /\ AccidentCount \in [Accounts -> Counts \cup {None}]
    /\ IpfsStatus \in [Data -> Statuses \cup {0, None}]

RenaultInit ==
    /\ SimRenaultInit
    /\ Accidents = [k \in Keys |-> None]
    /\ AccidentCount = [a \in Accounts |-> None]
    /\ IpfsStatus = [d \in Data |-> None]

\* Mutant: get_accident_data forgets that the count is one past the index.
GetAccidentDataOffByOne(vehicle, count) ==
    IF count <= 0 THEN None ELSE Accidents[create_composite_key(vehicle, count)]

\* The accident with the 1-based number `count`; None is either of the two
\* errors (BadCount, NotExist), which request_data treats alike.
get_accident_data(vehicle, count) ==
    IF count <= 0 THEN None
    ELSE Accidents[create_composite_key(vehicle, count - 1)]
-----------------------------------------------------------------------------
\* The index under which the vehicle's next accident is stored.
VehicleCount(vehicle) == CountOrZero(AccidentCount[vehicle])

\* Mutant: a taken key is not noticed.
NothingStored(vehicle) == FALSE

\* Error::AccidentAlreadyStored
AccidentAlreadyStored(vehicle) ==
    Accidents[create_composite_key(vehicle, VehicleCount(vehicle))] # None

\* Mutant: the hash is stored without a status.
NoIpfsStatus(data_hash) == UNCHANGED IpfsStatus

\* A reported hash starts, or starts again, as 0: unchecked.
IpfsUnchecked(data_hash) == IpfsStatus' = [IpfsStatus EXCEPT ![data_hash] = 0]

renault_report_accident(vehicle, data_hash) ==
    /\ is_vehicle(vehicle)
    /\ ~AccidentAlreadyStored(vehicle)
    /\ Accidents' = [Accidents EXCEPT
          ![create_composite_key(vehicle, VehicleCount(vehicle))] = data_hash]
    /\ IpfsUnchecked(data_hash)
    /\ AccidentCount' = [AccidentCount EXCEPT
          ![vehicle] = NextCount(VehicleCount(vehicle))]
    /\ UNCHANGED simRenaultVars

\* Signed by anyone.
set_ipfs_status(ipfs_id, status) ==
    /\ IpfsStatus[ipfs_id] # None
    /\ IpfsStatus' = [IpfsStatus EXCEPT ![ipfs_id] = status]
    /\ UNCHANGED <<simRenaultVars, Accidents, AccidentCount>>

RenaultNext ==
    \/ \E f \in Accounts : create_factory(f) /\ UNCHANGED simRenaultAccidentVars
    \/ \E who, v \in Accounts :
          create_vehicle(who, v) /\ UNCHANGED simRenaultAccidentVars
    \/ \E who, v \in Accounts :
          init_vehicle(who, v) /\ UNCHANGED simRenaultAccidentVars
    \/ \E v \in Accounts, d \in Data : renault_report_accident(v, d)
    \/ \E id \in Data, s \in Statuses : set_ipfs_status(id, s)

RenaultSpec == RenaultInit /\ [][RenaultNext]_renaultVars
-----------------------------------------------------------------------------
Stored(v) == {i \in Counts : Accidents[create_composite_key(v, i)] # None}

\* A vehicle's accidents occupy exactly the indices below its counter.  When
\* the u32 counter has wrapped it reads 0 again and every index is taken, so
\* the AccidentAlreadyStored check of report_accident rejects every further
\* report and can reject one in no other state.
AccidentsDense ==
    \A v \in Accounts :
        LET count == VehicleCount(v) IN
        \/ Stored(v) = {i \in Counts : i < count}
        \/ count = 0 /\ Stored(v) = Counts

\* An accident is on record only for a vehicle that initialised itself after
\* some account that is a factory registered it: the checks of create_vehicle,
\* init_vehicle and report_accident, made in three different calls, add up.
AccidentsHaveProvenance ==
    \A v \in Accounts :
        Stored(v) # {} => is_vehicle(v) /\ Vehicles[v] \in Factories

\* set_ipfs_status accepts exactly the hashes some stored accident carries.
IpfsStatusTracksAccidents ==
    \A id \in Data :
        IpfsStatus[id] # None <=> \E k \in Keys : Accidents[k] = id
=============================================================================

------------------------- MODULE VehicleManagement -------------------------
(***************************************************************************)
(* The contract VehicleManagement.sol: the registry of factories and       *)
(* vehicles and the accident log of the Renault chain, as an Ethereum      *)
(* contract.  A call whose `require` fails reverts: every require is a     *)
(* guard.  A mapping reads as zero at absent keys, so the zero address and *)
(* the zero hash double as "nothing there".  Block numbers are only ever   *)
(* compared with 0: `factories` is the set of the keys that are not.       *)
(***************************************************************************)
EXTENDS Integers

CONSTANTS
    Senders,        \* accounts that can sign a transaction
    ZeroAddress,    \* address(0)
    ZeroHash,       \* bytes32(0)
    Hashes,         \* the other values of data_hash
    MaxCount,       \* bound: accidents per vehicle (2^256 - 1 in the EVM)
    None            \* "no accident", for the abstract register

Addresses == Senders \cup {ZeroAddress}
Indices == 0 .. MaxCount - 1

\* What the theorems about the contract assume.
ContractAssumption ==
    /\ ZeroAddress \notin Senders
    /\ ZeroHash \notin Hashes
    /\ None \notin Hashes \cup {ZeroHash}
    /\ MaxCount \in Nat

VARIABLES
    admin,          \* the address that may create factories
    factories,      \* the addresses with a block number
    vehicles,       \* address -> factoryId, or ZeroAddress
    vehicleStatus,  \* the addresses set to true
    accidents,      \* <<vehicle, count>> -> hash, or ZeroHash
    accidentCount,  \* vehicle -> number
    admins          \* history: every address that has been admin

registryVars == <<admin, factories, vehicles, vehicleStatus, admins>>
logVars == <<accidents, accidentCount>>
contractVars == <<admin, factories, vehicles, vehicleStatus, accidents,
                  accidentCount, admins>>

\* keccak256 of an address and a uint256, both of fixed width: the pair.
AccidentKeys == Addresses \X Indices

\* Type invariant.
ContractTypeOK ==
    /\ admin \in Addresses
    /\ factories \subseteq Addresses
    /\ vehicles \in [Addresses -> Addresses]
    /\ vehicleStatus \subseteq Addresses
    /\ accidents \in [AccidentKeys -> Hashes \cup {ZeroHash}]
    /\ accidentCount \in [Addresses -> 0 .. MaxCount]
    /\ admins \subseteq Addresses

\* constructor: the deployer is admin.
ContractInit ==
    /\ admin \in Senders
    /\ factories = {}
    /\ vehicles = [a \in Addresses |-> ZeroAddress]
    /\ vehicleStatus = {}
    /\ accidents = [k \in AccidentKeys |-> ZeroHash]
    /\ accidentCount = [a \in Addresses |-> 0]
    /\ admins = {admin}
-----------------------------------------------------------------------------
onlyAdmin(sender) == sender = admin

contract_create_factory(sender, factory_id) ==
    /\ onlyAdmin(sender)
    /\ factory_id \notin factories
    /\ factories' = factories \cup {factory_id}
    /\ UNCHANGED <<admin, vehicles, vehicleStatus, admins, logVars>>

\* The first require of create_vehicle.
MayCreateVehicle(sender) == sender = admin \/ sender \in factories

contract_create_vehicle(sender, vehicle_id) ==
    /\ MayCreateVehicle(sender)
    /\ vehicles[vehicle_id] = ZeroAddress
    /\ vehicles' = [vehicles EXCEPT ![vehicle_id] = sender]
    /\ UNCHANGED <<admin, factories, vehicleStatus, admins, logVars>>

\* It is the registering account that initialises, not the vehicle.
contract_init_vehicle(sender, vehicle_id) ==
    /\ vehicles[vehicle_id] # ZeroAddress
    /\ sender = vehicles[vehicle_id]
    /\ vehicleStatus' = vehicleStatus \cup {vehicle_id}
    /\ UNCHANGED <<admin, factories, vehicles, admins, logVars>>

\* The key of the next accident.
accident_key(vehicle_id) == <<vehicle_id, accidentCount[vehicle_id]>>

\* Anyone may report for any active vehicle.
contract_report_accident(vehicle_id, data_hash) ==
    /\ vehicles[vehicle_id] # ZeroAddress
    /\ vehicle_id \in vehicleStatus
    /\ accidentCount[vehicle_id] < MaxCount
    /\ accidents[accident_key(vehicle_id)] = ZeroHash
    /\ accidents' = [accidents EXCEPT ![accident_key(vehicle_id)] = data_hash]
    /\ accidentCount' = [accidentCount EXCEPT ![vehicle_id] = @ + 1]
    /\ UNCHANGED registryVars

changeAdmin(sender, newAdmin) ==
    /\ onlyAdmin(sender)
    /\ admin' = newAdmin
    /\ admins' = admins \cup {newAdmin}
    /\ UNCHANGED <<factories, vehicles, vehicleStatus, logVars>>

ContractNext ==
    \/ \E s \in Senders, f \in Addresses : contract_create_factory(s, f)
    \/ \E s \in Senders, v \in Addresses : contract_create_vehicle(s, v)
    \/ \E s \in Senders, v \in Addresses : contract_init_vehicle(s, v)
    \/ \E v \in Addresses, d \in Hashes \cup {ZeroHash} : contract_report_accident(v, d)
    \/ \E s \in Senders, a \in Addresses : changeAdmin(s, a)

ContractSpec == ContractInit /\ [][ContractNext]_contractVars

\* The public views.
isVehicle(v) == vehicles[v] # ZeroAddress /\ v \in vehicleStatus
getAccidentData(v, count) == accidents[<<v, count>>]
-----------------------------------------------------------------------------
\* A vehicle with accidents on record was registered and made active, and
\* the account that did both was a factory, or the admin at some time: the
\* checks of four calls by different senders add up, across changes of the
\* admin.
ContractProvenance ==
    \A v \in Addresses :
        accidentCount[v] > 0 => isVehicle(v) /\ vehicles[v] \in factories \cup admins

\* Nothing is stored at or beyond the counter.  The require "Accident already
\* stored for this vehicle and count" therefore never fails, although a
\* report of the zero hash leaves its key looking empty.
NothingBeyondCount ==
    \A v \in Addresses, i \in Indices :
        i >= accidentCount[v] => getAccidentData(v, i) = ZeroHash

\* The message of the require in create_vehicle, "Only factories can create
\* vehicles.", and the test "Should not let non-factories create a vehicle".
OnlyFactoriesCreateVehicles ==
    \A v \in Addresses : vehicles[v] # ZeroAddress => vehicles[v] \in factories

\* The log as the abstract register sees it: the accidents below the counter.
RecordedAccidents ==
    [k \in AccidentKeys |-> IF k[2] < accidentCount[k[1]] THEN accidents[k] ELSE None]

Register == INSTANCE AccidentRegister WITH
    Insurances <- {}, Cars <- Addresses, Hashes <- Hashes \cup {ZeroHash},
    recorded <- RecordedAccidents, learned <- [p \in {} |-> None]

\* The contract keeps the same promise as the pallets: it implements the
\* register of accidents that grows index by index and is never rewritten.
ContractRefinesRegister == Register!RegisterSpec
=============================================================================

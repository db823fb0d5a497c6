------------------------ MODULE SimInsuranceAccident ------------------------
(***************************************************************************)
(* The pallets sim_insurance and sim_insurance_accident: the drivers       *)
(* subscribed at the insurance, the accidents they declare, and the        *)
(* vehicle data received from Renault.  Every parachain runs these pallets *)
(* (the runtime is the same on all of them), so the storage is a function  *)
(* of the parachain.                                                       *)
(***************************************************************************)
EXTENDS SubstrateChain

CONSTANTS
    Paras,      \* the ParaIds of the parachains
    InitDriver  \* the genesis driver, or None

\* The value of a DeclaredAccidents entry.
Declarations == [vehicle : Accounts, count : Counts]

ASSUME InsuranceAssumption ==
    /\ InitDriver \in Accounts \cup {None}
    /\ None \notin Declarations

VARIABLES
    Subscriptions,          \* para -> the accounts with a driver profile
    DeclaredAccidents,      \* para -> <<driver, index>> -> declaration
    DeclaredAccidentsCount, \* para -> account -> u32 counter
    AccidentsData,          \* para -> <<vehicle, count>> -> data hash
    RequestDataEvents       \* para -> the RequestData events deposited

insuranceVars == <<Subscriptions, DeclaredAccidents, DeclaredAccidentsCount,
                   AccidentsData, RequestDataEvents>>

InsuranceTypeOK ==
    /\ Subscriptions \in [Paras -> SUBSET Accounts]
    /\ DeclaredAccidents \in [Paras -> [Keys -> Declarations \cup {None}]]
    /\ DeclaredAccidentsCount \in [Paras -> [Accounts -> Counts \cup {None}]]
    /\ AccidentsData \in [Paras -> [Keys -> Data \cup {None}]]
    /\ RequestDataEvents \in [Paras -> SUBSET Declarations]

InsuranceInit ==
    /\ Subscriptions = [p \in Paras |-> {InitDriver} \ {None}]
    /\ DeclaredAccidents = [p \in Paras |-> [k \in Keys |-> None]]
    /\ DeclaredAccidentsCount = [p \in Paras |-> [a \in Accounts |-> None]]
    /\ AccidentsData = [p \in Paras |-> [k \in Keys |-> None]]
    /\ RequestDataEvents = [p \in Paras |-> {}]

\* A second sign_up overwrites the profile; only its presence is ever read.
sign_up(p, who) ==
    /\ Subscriptions' = [Subscriptions EXCEPT ![p] = @ \cup {who}]
    /\ UNCHANGED <<DeclaredAccidents, DeclaredAccidentsCount, AccidentsData,
                   RequestDataEvents>>

is_driver(p, driver) == driver \in Subscriptions[p]

\* Mutant: no driver is unknown.
EveryoneIsADriver(p, driver) == FALSE

\* Error::UnknownDriver
UnknownDriver(p, driver) == ~is_driver(p, driver)

\* The index under which the driver's next declaration is stored.
DriverCount(p, driver) == CountOrZero(DeclaredAccidentsCount[p][driver])

\* The two inserts of report_accident.  The counter is read at the driver but
\* written at the vehicle.
StoreDeclaration(p, driver, vehicle, count) ==
    LET key == create_composite_key(driver, DriverCount(p, driver)) IN
    /\ DeclaredAccidents' = [DeclaredAccidents EXCEPT
            ![p][key] = [vehicle |-> vehicle, count |-> count]]
    /\ DeclaredAccidentsCount' = [DeclaredAccidentsCount EXCEPT
            ![p][vehicle] = NextCount(DriverCount(p, driver))]

\* Mutant: a taken key is not noticed.
NothingDeclared(p, driver) == FALSE

\* Error::AccidentAlreadyStored
AlreadyDeclared(p, driver) ==
    DeclaredAccidents[p][create_composite_key(driver, DriverCount(p, driver))] # None

\* Do the writes of a report survive?  When send_xcm fails the call returns
\* an error after it wrote.
WritesKept(sent) == sent \/ ~Transactional

\* report_accident; `sent` is whether send_xcm returned Ok.
insurance_report_accident(p, driver, vehicle, count, sent) ==
    /\ ~UnknownDriver(p, driver)
    /\ ~AlreadyDeclared(p, driver)
    /\ WritesKept(sent)
    /\ StoreDeclaration(p, driver, vehicle, count)
    /\ RequestDataEvents' = [RequestDataEvents EXCEPT
          ![p] = IF sent THEN @ \cup {[vehicle |-> vehicle, count |-> count]} ELSE @]
    /\ UNCHANGED <<Subscriptions, AccidentsData>>

\* Error::AccidentDataAlreadyStored
DataAlreadyStored(p, vehicle, count) ==
    AccidentsData[p][create_composite_key(vehicle, count)] # None

\* Mutant: the data goes under the 0-based index the Renault chain uses.
ReceiveDataUnderIndex(p, vehicle, count, data) ==
    /\ AccidentsData' = [AccidentsData EXCEPT
          ![p][create_composite_key(vehicle, count - 1)] = data]
    /\ UNCHANGED <<Subscriptions, DeclaredAccidents, DeclaredAccidentsCount,
                   RequestDataEvents>>

\* receive_data, dispatched by the XCM executor for a sibling parachain.
receive_data(p, vehicle, count, data) ==
    /\ \/ /\ ~DataAlreadyStored(p, vehicle, count)
          /\ AccidentsData' = [AccidentsData EXCEPT
                ![p][create_composite_key(vehicle, count)] = data]
       \/ DataAlreadyStored(p, vehicle, count) /\ UNCHANGED AccidentsData
    /\ UNCHANGED <<Subscriptions, DeclaredAccidents, DeclaredAccidentsCount,
                   RequestDataEvents>>
=============================================================================

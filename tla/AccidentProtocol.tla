-------------------------- MODULE AccidentProtocol --------------------------
(***************************************************************************)
(* The accident workflow across the parachains.  A vehicle reports an      *)
(* accident to the Renault chain; a driver declares it on an insurance     *)
(* chain, which asks the Renault chain for the data over XCM; the Renault  *)
(* chain answers over XCM, and the insurance chain stores the answer.      *)
(*                                                                         *)
(* XCM messages travel on HRMP channels: per sender they arrive once and   *)
(* in order.  Each is one Transact, executed by the recipient's executor   *)
(* if the barrier lets it through.                                         *)
(***************************************************************************)
EXTENDS SimRenaultAccident, SimInsuranceAccident, Sequences

CONSTANTS
    Renault,        \* the ParaId report_accident sends its request to: 2000
    UnpaidParas     \* the siblings ParentOrParentsExecutivePlurality lists

ASSUME ProtocolAssumption == Renault \in Paras \cap UnpaidParas

VARIABLES
    HrmpChannels,   \* the open channels: <<sender, recipient>>
    Requests,       \* para -> RequestData messages on their way to Renault
    Replies         \* para -> ReceiveData messages on their way from Renault

channelVars == <<HrmpChannels, Requests, Replies>>
vars == <<Factories, Vehicles, VehiclesStatus,
          Accidents, AccidentCount, IpfsStatus,
          Subscriptions, DeclaredAccidents, DeclaredAccidentsCount,
          AccidentsData, RequestDataEvents,
          HrmpChannels, Requests, Replies>>

\* ReceiveData(vehicle_id, vehicle_accident_count, data); a RequestData
\* message carries the two fields of a declaration.
ReplyMessages == [vehicle : Accounts, count : Counts, data : Data]

\* Type invariant of the composed system.
TypeOK ==
    /\ RenaultTypeOK
    /\ InsuranceTypeOK
    /\ HrmpChannels \subseteq Paras \X Paras
    /\ Requests \in [Paras -> Seq(Declarations)]
    /\ Replies \in [Paras -> Seq(ReplyMessages)]

Init ==
    /\ RenaultInit
    /\ InsuranceInit
    /\ HrmpChannels = {}
    /\ Requests = [p \in Paras |-> <<>>]
    /\ Replies = [p \in Paras |-> <<>>]
-----------------------------------------------------------------------------
\* The script build_HRMP_channel.js, run once per direction.  A channel to
\* oneself does not exist, and nothing in the deployment closes a channel.
OpenHrmpChannel(sender, recipient) ==
    /\ sender # recipient
    /\ HrmpChannels' = HrmpChannels \cup {<<sender, recipient>>}
    /\ UNCHANGED <<renaultVars, insuranceVars, Requests, Replies>>

\* send_xcm of the XcmpQueue: Err(NoChannel) or Ok.
SendOk(sender, recipient) == <<sender, recipient>> \in HrmpChannels

\* Mutant: a barrier that lets everyone through.
OpenBarrier(origin) == TRUE

\* The barrier lets a lone Transact through only from a listed sibling.
Barrier(origin) == origin \in UnpaidParas

Renault_create_factory(factory) ==
    /\ create_factory(factory)
    /\ UNCHANGED <<simRenaultAccidentVars, insuranceVars, channelVars>>

Renault_create_vehicle(who, vehicle) ==
    /\ create_vehicle(who, vehicle)
    /\ UNCHANGED <<simRenaultAccidentVars, insuranceVars, channelVars>>

Renault_init_vehicle(who, vehicle) ==
    /\ init_vehicle(who, vehicle)
    /\ UNCHANGED <<simRenaultAccidentVars, insuranceVars, channelVars>>

Renault_report_accident(vehicle, data_hash) ==
    /\ renault_report_accident(vehicle, data_hash)
    /\ UNCHANGED <<insuranceVars, channelVars>>

Renault_set_ipfs_status(ipfs_id, status) ==
    /\ set_ipfs_status(ipfs_id, status)
    /\ UNCHANGED <<insuranceVars, channelVars>>

Insurance_sign_up(p, who) ==
    /\ sign_up(p, who)
    /\ UNCHANGED <<renaultVars, channelVars>>

\* report_accident with the message it hands to send_xcm.
Insurance_report_accident(p, driver, vehicle, count) ==
    LET sent == SendOk(p, Renault) IN
    /\ insurance_report_accident(p, driver, vehicle, count, sent)
    /\ Requests' = [Requests EXCEPT
          ![p] = IF sent THEN Append(@, [vehicle |-> vehicle, count |-> count]) ELSE @]
    /\ UNCHANGED <<renaultVars, HrmpChannels, Replies>>

\* request_data gets as far as its reply: the barrier, the vehicle's status,
\* the data and the channel back.
Answerable(p, m) ==
    /\ Barrier(p)
    /\ is_vehicle(m.vehicle)
    /\ get_accident_data(m.vehicle, m.count) # None
    /\ SendOk(Renault, p)

\* The Renault chain executes the oldest request of p.  Whatever goes wrong,
\* the message is consumed: a failed Transact is not retried.
Renault_request_data(p) ==
    /\ Requests[p] # <<>>
    /\ LET m == Head(Requests[p]) IN
       \/ /\ Answerable(p, m)
          /\ Replies' = [Replies EXCEPT ![p] = Append(@,
                [vehicle |-> m.vehicle, count |-> m.count,
                 data |-> get_accident_data(m.vehicle, m.count)])]
       \/ ~Answerable(p, m) /\ UNCHANGED Replies
    /\ Requests' = [Requests EXCEPT ![p] = Tail(@)]
    /\ UNCHANGED <<renaultVars, insuranceVars, HrmpChannels>>

\* p executes the oldest reply of the Renault chain, which the barrier lists.
Insurance_receive_data(p) ==
    /\ Replies[p] # <<>>
    /\ LET m == Head(Replies[p]) IN
          receive_data(p, m.vehicle, m.count, m.data)
    /\ Replies' = [Replies EXCEPT ![p] = Tail(@)]
    /\ UNCHANGED <<renaultVars, HrmpChannels, Requests>>

Next ==
    \/ \E s, r \in Paras : OpenHrmpChannel(s, r)
    \/ \E f \in Accounts : Renault_create_factory(f)
    \/ \E who, v \in Accounts : Renault_create_vehicle(who, v)
    \/ \E who, v \in Accounts : Renault_init_vehicle(who, v)
    \/ \E v \in Accounts, d \in Data : Renault_report_accident(v, d)
    \/ \E id \in Data, s \in Statuses : Renault_set_ipfs_status(id, s)
    \/ \E p \in Paras, who \in Accounts : Insurance_sign_up(p, who)
    \/ \E p \in Paras, d, v \in Accounts, n \in Counts :
          Insurance_report_accident(p, d, v, n)
    \/ \E p \in Paras : Renault_request_data(p)
    \/ \E p \in Paras : Insurance_receive_data(p)

Spec == Init /\ [][Next]_vars

\* The relay chain delivers what was sent and every parachain keeps producing
\* blocks, which service its XCMP queue.  Nobody has to send an extrinsic.
Fairness ==
    \A p \in Paras :
        /\ WF_vars(Renault_request_data(p))
        /\ WF_vars(Insurance_receive_data(p))

FairSpec == Spec /\ Fairness
-----------------------------------------------------------------------------
Elements(s) == {s[i] : i \in DOMAIN s}

\* A driver subscribed on p declared accident number n of vehicle v, and the
\* request for its data was announced.
Requested(p, v, n) ==
    LET declaration == [vehicle |-> v, count |-> n] IN
    /\ \E k \in Keys :
          DeclaredAccidents[p][k] = declaration /\ is_driver(p, k[1])
    /\ declaration \in RequestDataEvents[p]

\* The initialised vehicle v reported `data` as its accident number n.
Reported(v, n, data) ==
    /\ is_vehicle(v)
    /\ n > 0
    /\ data = Accidents[create_composite_key(v, n - 1)]

\* What is on its way is as good as what is stored: a request belongs to a
\* declaration that stays on record, and a reply carries the data of an
\* accident its recipient asked about, although both were composed from the
\* storage of an earlier block than the one in which they are executed.
MessagesSound ==
    \A p \in Paras :
        /\ \A m \in Elements(Requests[p]) : Requested(p, m.vehicle, m.count)
        /\ \A m \in Elements(Replies[p]) :
              /\ Requested(p, m.vehicle, m.count)
              /\ Reported(m.vehicle, m.count, m.data)

\* The data an insurance stores for accident number n of a vehicle is the
\* data the vehicle reported under index n - 1, and the vehicle still counts
\* as initialised: report_accident, request_data and receive_data run in
\* blocks of two chains, with other reports in between, and a wrapped counter
\* must not change what was already handed out.
DataMatchesRenault ==
    \A p \in Paras, v \in Accounts, n \in Counts :
        LET data == AccidentsData[p][create_composite_key(v, n)] IN
        data # None => Reported(v, n, data)

\* An insurance receives data only for accidents one of its own drivers
\* declared: request_data replies to the chain the request came from, and a
\* request leaves a chain only when its declaration stays on record.
DataWasDeclared ==
    \A p \in Paras, v \in Accounts, n \in Counts :
        AccidentsData[p][create_composite_key(v, n)] # None => Requested(p, v, n)

\* Nothing is stored at, or sent to, a chain the Renault chain's barrier does
\* not list, although such a chain can run the same pallets, open channels in
\* both directions and send requests for existing accidents.
UnlistedGetsNothing ==
    \A p \in Paras \ UnpaidParas :
        /\ Replies[p] = <<>>
        /\ \A k \in Keys : AccidentsData[p][k] = None

\* Every declaration on record was followed by its request for the vehicle
\* data, as the comment on report_accident has it ("it will automatically
\* request Renault for vehicle data").
DeclaredWasRequested ==
    \A p \in Paras, k \in Keys :
        DeclaredAccidents[p][k] # None =>
            DeclaredAccidents[p][k] \in RequestDataEvents[p]

\* The storage comment of DeclaredAccidentsCount, "driver ID =>
\* driver_accident_count": the counter kept for a driver is the number of
\* accidents the driver declared (as long as it has not wrapped).
DriverCountIsDriverCount ==
    \A p \in Paras, d \in Accounts :
        LET declared == {i \in Counts :
                DeclaredAccidents[p][create_composite_key(d, i)] # None} IN
        \/ declared = {i \in Counts : i < DriverCount(p, d)}
        \/ declared = Counts

\* No accident, declaration or received data is ever changed or removed, not
\* even when a counter wraps, a counter is shared by a driver and a vehicle,
\* or the same data arrives twice.
StoredNeverRewritten ==
    [][/\ \A k \in Keys :
             Accidents[k] # None => Accidents'[k] = Accidents[k]
       /\ \A p \in Paras, k \in Keys :
             /\ DeclaredAccidents[p][k] # None =>
                   DeclaredAccidents'[p][k] = DeclaredAccidents[p][k]
             /\ AccidentsData[p][k] # None =>
                   AccidentsData'[p][k] = AccidentsData[p][k]]_vars

\* A request on its way for an accident Renault knows, of an initialised
\* vehicle and with the channel back open, ends with the data stored at the
\* insurance, whatever other requests and replies are queued before it.
DataDelivered ==
    \A p \in Paras, m \in Declarations :
        (m \in Elements(Requests[p]) /\ Answerable(p, m))
            ~> (AccidentsData[p][create_composite_key(m.vehicle, m.count)] # None)
-----------------------------------------------------------------------------
\* Index i of the register is accident number i + 1; number CountMod does
\* not fit a u32, so the last index is never learned.
LearnedData ==
    [p \in Paras |-> [k \in Keys |->
        IF k[2] + 1 \in Counts
        THEN AccidentsData[p][create_composite_key(k[1], k[2] + 1)] ELSE None]]

Register == INSTANCE AccidentRegister WITH
    Insurances <- Paras, Cars <- Accounts, Indices <- Counts, Hashes <- Data,
    recorded <- Accidents, learned <- LearnedData

\* The chains, their messages and their failures implement the register.
RegisterRefined == Register!RegisterSpec
=============================================================================

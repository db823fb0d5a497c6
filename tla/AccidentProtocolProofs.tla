----------------------- MODULE AccidentProtocolProofs -----------------------
(***************************************************************************)
(* Theorems about the accident workflow, for every set of accounts, chains *)
(* and data hashes, every counter width, and both outcomes of a failing    *)
(* call (Transactional).  First the Renault chain by itself, then the      *)
(* chains with their messages, then that the whole implements the register *)
(* of accidents: every step is a step of the register under the mapping    *)
(* recorded <- Accidents, learned <- LearnedData, or leaves it alone.      *)
(***************************************************************************)
EXTENDS AccidentProtocol, SequenceTheorems, TLAPS

-----------------------------------------------------------------------------
(* The counters. *)

\* NextCount stays within a u32 and wraps exactly at its last value.
LEMMA NextCountFacts ==
    ASSUME NEW c \in Counts
    PROVE  /\ NextCount(c) \in Counts
           /\ c + 1 < CountMod => NextCount(c) = c + 1
           /\ c + 1 >= CountMod => NextCount(c) = 0
BY ChainAssumption DEF NextCount, Counts

\* An absent counter reads as 0, which is a u32.
LEMMA CountOrZeroFacts ==
    ASSUME NEW c \in Counts \cup {None}
    PROVE  CountOrZero(c) \in Counts
BY ChainAssumption DEF CountOrZero, Counts

\* The index of a vehicle's next accident, and the counter after it.
LEMMA VehicleCountFacts ==
    ASSUME RenaultTypeOK, NEW v \in Accounts
    PROVE  VehicleCount(v) \in Counts /\ NextCount(VehicleCount(v)) \in Counts
BY CountOrZeroFacts, NextCountFacts DEF VehicleCount, RenaultTypeOK

-----------------------------------------------------------------------------
(* Type correctness. *)

\* The genesis storage is well typed.
LEMMA RenaultInitTypeOK == RenaultInit => RenaultTypeOK
BY GenesisFactoryAssumption
   DEF RenaultInit, SimRenaultInit, RenaultTypeOK, SimRenaultTypeOK

\* Every call keeps the types.
LEMMA RenaultNextTypeOK == RenaultTypeOK /\ [RenaultNext]_renaultVars => RenaultTypeOK'
<1> SUFFICES ASSUME RenaultTypeOK, [RenaultNext]_renaultVars PROVE RenaultTypeOK'
  OBVIOUS
<1> USE DEF RenaultTypeOK, SimRenaultTypeOK, simRenaultVars, simRenaultAccidentVars
<1>1. ASSUME NEW f \in Accounts, create_factory(f), UNCHANGED simRenaultAccidentVars
      PROVE  RenaultTypeOK'
  BY <1>1 DEF create_factory
<1>2. ASSUME NEW who \in Accounts, NEW v \in Accounts,
             create_vehicle(who, v), UNCHANGED simRenaultAccidentVars
      PROVE  RenaultTypeOK'
  BY <1>2 DEF create_vehicle
<1>3. ASSUME NEW who \in Accounts, NEW v \in Accounts,
             init_vehicle(who, v), UNCHANGED simRenaultAccidentVars
      PROVE  RenaultTypeOK'
  BY <1>3 DEF init_vehicle
<1>4. ASSUME NEW v \in Accounts, NEW d \in Data, renault_report_accident(v, d)
      PROVE  RenaultTypeOK'
  BY Zenon, <1>4, VehicleCountFacts DEF renault_report_accident, IpfsUnchecked
<1>5. ASSUME NEW id \in Data, NEW s \in Statuses, set_ipfs_status(id, s)
      PROVE  RenaultTypeOK'
  BY <1>5 DEF set_ipfs_status
<1>6. CASE UNCHANGED renaultVars
  BY <1>6 DEF renaultVars
<1>7. QED
  BY <1>1, <1>2, <1>3, <1>4, <1>5, <1>6 DEF RenaultNext

\* Every counter of the Renault chain stays a u32 and nothing is written
\* outside the keys made of an account and a u32.
THEOREM RenaultTypeCorrect == RenaultSpec => []RenaultTypeOK
BY RenaultInitTypeOK, RenaultNextTypeOK, PTL DEF RenaultSpec

-----------------------------------------------------------------------------
(* The index of accidents. *)

\* At genesis no accident is stored and every counter reads 0.
LEMMA InitDense == RenaultInit => AccidentsDense
BY DEF RenaultInit, AccidentsDense, Stored, VehicleCount, CountOrZero,
       create_composite_key, Keys, Counts

\* report_accident fills the first free index; no other call moves anything.
LEMMA NextDense ==
    RenaultTypeOK /\ AccidentsDense /\ [RenaultNext]_renaultVars => AccidentsDense'
<1> SUFFICES ASSUME RenaultTypeOK, AccidentsDense, [RenaultNext]_renaultVars
             PROVE  AccidentsDense'
  OBVIOUS
<1>1. ASSUME NEW car \in Accounts, NEW d \in Data, renault_report_accident(car, d)
      PROVE  AccidentsDense'
  <2> DEFINE n == VehicleCount(car)
  <2>1. n \in Counts /\ NextCount(n) \in Counts
    BY VehicleCountFacts
  <2>2. /\ Accidents' = [Accidents EXCEPT ![<<car, n>>] = d]
        /\ AccidentCount' = [AccidentCount EXCEPT ![car] = NextCount(n)]
        /\ Accidents[<<car, n>>] = None
    BY <1>1 DEF renault_report_accident, AccidentAlreadyStored, create_composite_key
  <2>3. d # None /\ NextCount(n) # None
    BY <2>1, ChainAssumption
  <2> HIDE DEF n
  <2>4. ASSUME NEW v \in Accounts, v # car
        PROVE  Stored(v)' = Stored(v) /\ VehicleCount(v)' = VehicleCount(v)
    BY <2>1, <2>2, <2>4 DEF Stored, VehicleCount, create_composite_key, RenaultTypeOK, Keys
  <2>5. Stored(car)' = Stored(car) \cup {n}
    BY <2>1, <2>2, <2>3 DEF Stored, create_composite_key, RenaultTypeOK, Keys
  <2>6. VehicleCount(car)' = NextCount(n)
    BY <2>2, <2>3 DEF VehicleCount, CountOrZero, RenaultTypeOK
  <2>7. n \notin Stored(car)
    BY <2>2 DEF Stored, create_composite_key
  <2>8. Stored(car) = {i \in Counts : i < n}
    BY <2>1, <2>7 DEF AccidentsDense, n
  <2>9. CASE n + 1 < CountMod
    <3>1. NextCount(n) = n + 1
      BY <2>1, <2>9, NextCountFacts
    <3>2. Stored(car)' = {i \in Counts : i < n + 1}
      BY <2>1, <2>5, <2>8, ChainAssumption DEF Counts
    <3>3. QED
      BY <2>4, <2>6, <3>1, <3>2 DEF AccidentsDense
  <2>10. CASE n + 1 >= CountMod
    <3>1. NextCount(n) = 0
      BY <2>1, <2>10, NextCountFacts
    <3>2. Stored(car)' = Counts
      BY <2>1, <2>5, <2>8, <2>10, ChainAssumption DEF Counts
    <3>3. QED
      BY <2>4, <2>6, <3>1, <3>2 DEF AccidentsDense
  <2>11. QED
    BY <2>1, <2>9, <2>10, ChainAssumption DEF Counts
<1>2. CASE UNCHANGED <<Accidents, AccidentCount>>
  BY <1>2 DEF AccidentsDense, Stored, VehicleCount
<1>3. QED
  BY <1>1, <1>2 DEF RenaultNext, create_factory, create_vehicle, init_vehicle,
     set_ipfs_status, simRenaultAccidentVars, renaultVars

\* For every width of the counter: a vehicle's accidents occupy exactly the
\* indices below its counter, or all of them once it has wrapped.
THEOREM AccidentsAreDense == RenaultSpec => []AccidentsDense
<1>1. RenaultInit => RenaultTypeOK /\ AccidentsDense
  BY RenaultInitTypeOK, InitDense
<1>2. RenaultTypeOK /\ AccidentsDense /\ [RenaultNext]_renaultVars
        => RenaultTypeOK' /\ AccidentsDense'
  BY RenaultNextTypeOK, NextDense
<1>3. QED
  BY <1>1, <1>2, PTL DEF RenaultSpec

-----------------------------------------------------------------------------
(* Where accidents come from. *)

\* What makes AccidentsHaveProvenance inductive: the registry by itself says
\* that an initialised vehicle was registered, by an account that is a factory.
RegistryConsistent ==
    /\ \A v \in Accounts : Vehicles[v] # None => Vehicles[v] \in Factories
    /\ \A v \in VehiclesStatus : Vehicles[v] # None

\* The genesis account, if any, is factory, vehicle and initialised at once.
LEMMA InitProvenance == RenaultInit => RegistryConsistent /\ AccidentsHaveProvenance
BY ZenonT(30), GenesisFactoryAssumption
   DEF RenaultInit, SimRenaultInit, RegistryConsistent, AccidentsHaveProvenance,
       Stored, create_composite_key, Keys

\* No call unregisters a factory or a vehicle, or resets a status.
LEMMA NextProvenance ==
    RenaultTypeOK /\ RegistryConsistent /\ AccidentsHaveProvenance /\ [RenaultNext]_renaultVars
        => RegistryConsistent' /\ AccidentsHaveProvenance'
<1> SUFFICES ASSUME RenaultTypeOK, RegistryConsistent, AccidentsHaveProvenance,
                    [RenaultNext]_renaultVars
             PROVE  RegistryConsistent' /\ AccidentsHaveProvenance'
  OBVIOUS
<1> USE DEF RenaultTypeOK, SimRenaultTypeOK, RegistryConsistent, AccidentsHaveProvenance,
            is_vehicle, simRenaultVars, simRenaultAccidentVars
<1>1. ASSUME NEW f \in Accounts, create_factory(f), UNCHANGED simRenaultAccidentVars
      PROVE  RegistryConsistent' /\ AccidentsHaveProvenance'
  BY <1>1 DEF create_factory, Stored
<1>2. ASSUME NEW who \in Accounts, NEW v \in Accounts,
             create_vehicle(who, v), UNCHANGED simRenaultAccidentVars
      PROVE  RegistryConsistent' /\ AccidentsHaveProvenance'
  BY <1>2, ChainAssumption DEF create_vehicle, UnknownFactory, Stored
<1>3. ASSUME NEW who \in Accounts, NEW v \in Accounts,
             init_vehicle(who, v), UNCHANGED simRenaultAccidentVars
      PROVE  RegistryConsistent' /\ AccidentsHaveProvenance'
  BY <1>3 DEF init_vehicle, Stored
<1>4. ASSUME NEW car \in Accounts, NEW d \in Data, renault_report_accident(car, d)
      PROVE  RegistryConsistent' /\ AccidentsHaveProvenance'
  <2>1. ASSUME NEW v \in Accounts, v # car PROVE Stored(v)' = Stored(v)
    BY <1>4, <2>1, VehicleCountFacts
       DEF renault_report_accident, Stored, create_composite_key, Keys
  <2>2. car \in VehiclesStatus /\ UNCHANGED <<Factories, Vehicles, VehiclesStatus>>
    BY <1>4 DEF renault_report_accident
  <2>3. QED
    BY <2>1, <2>2
<1>5. ASSUME NEW id \in Data, NEW s \in Statuses, set_ipfs_status(id, s)
      PROVE  RegistryConsistent' /\ AccidentsHaveProvenance'
  BY <1>5 DEF set_ipfs_status, Stored
<1>6. CASE UNCHANGED renaultVars
  BY <1>6 DEF renaultVars, Stored
<1>7. QED
  BY <1>1, <1>2, <1>3, <1>4, <1>5, <1>6 DEF RenaultNext

\* Every accident on record belongs to an initialised vehicle that a factory
\* registered.
THEOREM Provenance == RenaultSpec => []AccidentsHaveProvenance
<1>1. RenaultInit => RenaultTypeOK /\ RegistryConsistent /\ AccidentsHaveProvenance
  BY RenaultInitTypeOK, InitProvenance
<1>2. RenaultTypeOK /\ RegistryConsistent /\ AccidentsHaveProvenance
          /\ [RenaultNext]_renaultVars
        => RenaultTypeOK' /\ RegistryConsistent' /\ AccidentsHaveProvenance'
  BY RenaultNextTypeOK, NextProvenance
<1>3. QED
  BY <1>1, <1>2, PTL DEF RenaultSpec

-----------------------------------------------------------------------------
(* The status of the reported hashes. *)

\* A report gives a status to its hash and overwrites no stored hash;
\* set_ipfs_status gives a status to no other hash.
LEMMA NextTracks ==
    RenaultTypeOK /\ IpfsStatusTracksAccidents /\ [RenaultNext]_renaultVars
        => IpfsStatusTracksAccidents'
<1> SUFFICES ASSUME RenaultTypeOK, IpfsStatusTracksAccidents, [RenaultNext]_renaultVars
             PROVE  IpfsStatusTracksAccidents'
  OBVIOUS
<1> USE DEF RenaultTypeOK, IpfsStatusTracksAccidents
<1>1. ASSUME NEW car \in Accounts, NEW d \in Data, renault_report_accident(car, d)
      PROVE  IpfsStatusTracksAccidents'
  <2> DEFINE key == create_composite_key(car, VehicleCount(car))
  <2>1. key \in Keys
    BY VehicleCountFacts DEF create_composite_key, Keys
  <2>2. /\ Accidents[key] = None
        /\ Accidents' = [Accidents EXCEPT ![key] = d]
        /\ IpfsStatus' = [IpfsStatus EXCEPT ![d] = 0]
    BY <1>1 DEF renault_report_accident, AccidentAlreadyStored, IpfsUnchecked
  <2> HIDE DEF key
  <2>3. QED
    BY <2>1, <2>2, ChainAssumption, StatusAssumption
<1>2. ASSUME NEW id \in Data, NEW s \in Statuses, set_ipfs_status(id, s)
      PROVE  IpfsStatusTracksAccidents'
  BY <1>2, StatusAssumption DEF set_ipfs_status
<1>3. CASE UNCHANGED simRenaultAccidentVars
  BY <1>3 DEF simRenaultAccidentVars
<1>4. QED
  BY <1>1, <1>2, <1>3 DEF RenaultNext, renaultVars, simRenaultAccidentVars

\* set_ipfs_status accepts exactly the hashes some stored accident carries.
THEOREM IpfsTracksAccidents == RenaultSpec => []IpfsStatusTracksAccidents
<1>1. RenaultInit => RenaultTypeOK /\ IpfsStatusTracksAccidents
  BY RenaultInitTypeOK, ChainAssumption DEF RenaultInit, IpfsStatusTracksAccidents
<1>2. RenaultTypeOK /\ IpfsStatusTracksAccidents /\ [RenaultNext]_renaultVars
        => RenaultTypeOK' /\ IpfsStatusTracksAccidents'
  BY RenaultNextTypeOK, NextTracks
<1>3. QED
  BY <1>1, <1>2, PTL DEF RenaultSpec

-----------------------------------------------------------------------------
(* The queues. *)

\* A queue holds nothing but messages.
LEMMA ElementsType == ASSUME NEW S, NEW s \in Seq(S) PROVE Elements(s) \subseteq S
BY LenProperties DEF Elements

\* Consuming a message leaves the others.
LEMMA ElementsTail ==
    ASSUME NEW S, NEW s \in Seq(S), s # <<>>
    PROVE  /\ Head(s) \in S /\ Tail(s) \in Seq(S)
           /\ Head(s) \in Elements(s)
           /\ Elements(Tail(s)) \subseteq Elements(s)
<1>1. /\ Head(s) \in S /\ Tail(s) \in Seq(S)
      /\ Len(Tail(s)) = Len(s) - 1
      /\ \A i \in 1 .. Len(Tail(s)) : Tail(s)[i] = s[i + 1]
  BY HeadTailProperties
<1>2. /\ Len(s) \in Nat \ {0} /\ DOMAIN s = 1 .. Len(s)
      /\ DOMAIN Tail(s) = 1 .. Len(Tail(s))
  BY <1>1, EmptySeq, LenProperties
<1>3. Head(s) = s[1]
  OBVIOUS
<1>4. QED
  BY <1>1, <1>2, <1>3 DEF Elements

\* Sending a message adds it.
LEMMA ElementsAppend ==
    ASSUME NEW S, NEW s \in Seq(S), NEW e \in S
    PROVE  /\ Append(s, e) \in Seq(S)
           /\ Elements(Append(s, e)) = Elements(s) \cup {e}
<1>1. /\ Append(s, e) \in Seq(S)
      /\ Len(Append(s, e)) = Len(s) + 1
      /\ \A i \in 1 .. Len(s) : Append(s, e)[i] = s[i]
      /\ Append(s, e)[Len(s) + 1] = e
  BY AppendProperties
<1>2. /\ Len(s) \in Nat /\ DOMAIN s = 1 .. Len(s)
      /\ DOMAIN Append(s, e) = 1 .. Len(s) + 1
  BY <1>1, LenProperties
<1>3. QED
  BY <1>1, <1>2 DEF Elements

-----------------------------------------------------------------------------
(* Type correctness. *)

\* The genesis storage of all chains is well typed, and no message is on its way.
LEMMA InitTypeOK == Init => TypeOK
<1> SUFFICES ASSUME Init PROVE TypeOK
  OBVIOUS
<1> USE DEF Init
<1>1. RenaultTypeOK
  BY RenaultInitTypeOK
<1>2. InsuranceTypeOK
  BY InsuranceAssumption DEF InsuranceInit, InsuranceTypeOK
<1>3. Requests \in [Paras -> Seq(Declarations)] /\ Replies \in [Paras -> Seq(ReplyMessages)]
  BY EmptySeq
<1>4. QED
  BY <1>1, <1>2, <1>3 DEF TypeOK

\* What get_accident_data finds is a reported hash of a 1-based number.
LEMMA ReplyDataFacts ==
    ASSUME RenaultTypeOK, NEW v \in Accounts, NEW n \in Counts,
           get_accident_data(v, n) # None
    PROVE  /\ n > 0 /\ n - 1 \in Counts
           /\ get_accident_data(v, n) \in Data
           /\ get_accident_data(v, n) = Accidents[create_composite_key(v, n - 1)]
<1>1. n > 0 /\ n - 1 \in Counts
  BY SMTT(30), ChainAssumption DEF get_accident_data, Counts
<1>2. QED
  BY <1>1 DEF get_accident_data, create_composite_key, Keys, RenaultTypeOK, Counts

\* Seen from the Renault chain, a step of the system is a call of its pallets
\* or nothing.
LEMMA RenaultStep == [Next]_vars => [RenaultNext]_renaultVars
BY Zenon DEF Next, vars, OpenHrmpChannel, Renault_create_factory, Renault_create_vehicle,
       Renault_init_vehicle, Renault_report_accident, Renault_set_ipfs_status,
       Insurance_sign_up, Insurance_report_accident, Renault_request_data,
       Insurance_receive_data, RenaultNext, renaultVars, channelVars

\* The composed system is an implementation of the Renault chain by itself:
\* whatever is proved of RenaultSpec holds of the workflow.
THEOREM WorkflowRunsRenault == Spec => RenaultSpec
<1>1. Init => RenaultInit
  BY DEF Init
<1>2. QED
  BY <1>1, RenaultStep, PTL DEF Spec, RenaultSpec

\* Every step keeps the types: one case per action that touches more than
\* the Renault chain.
LEMMA NextTypeOK == TypeOK /\ [Next]_vars => TypeOK'
<1> SUFFICES ASSUME TypeOK, [Next]_vars PROVE TypeOK'
  OBVIOUS
<1> USE DEF TypeOK, insuranceVars, channelVars
<1>1. RenaultTypeOK'
  BY RenaultStep, RenaultNextTypeOK
<1>2. ASSUME NEW s \in Paras, NEW r \in Paras, OpenHrmpChannel(s, r)
      PROVE  TypeOK'
  BY SMTT(30), <1>1, <1>2 DEF OpenHrmpChannel, InsuranceTypeOK
<1>3. ASSUME NEW p \in Paras, NEW who \in Accounts, Insurance_sign_up(p, who)
      PROVE  TypeOK'
  BY <1>1, <1>3 DEF Insurance_sign_up, sign_up, InsuranceTypeOK
<1>4. ASSUME NEW p \in Paras, NEW d \in Accounts, NEW v \in Accounts, NEW n \in Counts,
             Insurance_report_accident(p, d, v, n)
      PROVE  TypeOK'
  <2> DEFINE m == [vehicle |-> v, count |-> n]
  <2>1. m \in Declarations
    BY DEF Declarations
  <2>2. DriverCount(p, d) \in Counts /\ NextCount(DriverCount(p, d)) \in Counts
    BY SMTT(30), CountOrZeroFacts, NextCountFacts DEF DriverCount, InsuranceTypeOK
  <2>3. InsuranceTypeOK'
    BY Zenon, <1>4, <2>1, <2>2 DEF Insurance_report_accident, insurance_report_accident,
       StoreDeclaration, InsuranceTypeOK
  <2>4. Append(Requests[p], m) \in Seq(Declarations)
    BY <2>1, ElementsAppend
  <2>5. Requests' \in [Paras -> Seq(Declarations)]
    BY <1>4, <2>4 DEF Insurance_report_accident
  <2>6. QED
    BY <1>1, <1>4, <2>3, <2>5 DEF Insurance_report_accident
<1>5. ASSUME NEW p \in Paras, Renault_request_data(p)
      PROVE  TypeOK'
  <2> DEFINE m == Head(Requests[p])
             reply == [vehicle |-> m.vehicle, count |-> m.count,
                       data |-> get_accident_data(m.vehicle, m.count)]
  <2>1. m \in Declarations /\ Tail(Requests[p]) \in Seq(Declarations)
    BY <1>5, ElementsTail DEF Renault_request_data
  <2>2. Requests' \in [Paras -> Seq(Declarations)]
    BY SMTT(30), <1>5, <2>1 DEF Renault_request_data
  <2>3. Answerable(p, m) => reply \in ReplyMessages
    BY <2>1, ReplyDataFacts DEF Answerable, Declarations, ReplyMessages
  <2>4. Answerable(p, m) => Append(Replies[p], reply) \in Seq(ReplyMessages)
    BY <2>3, ElementsAppend
  <2>5. Replies' \in [Paras -> Seq(ReplyMessages)]
    BY Zenon, <1>5, <2>4 DEF Renault_request_data
  <2>6. QED
    BY SMTT(30), <1>1, <1>5, <2>2, <2>5 DEF Renault_request_data, InsuranceTypeOK
<1>6. ASSUME NEW p \in Paras, Insurance_receive_data(p)
      PROVE  TypeOK'
  <2> DEFINE m == Head(Replies[p])
             key == create_composite_key(m.vehicle, m.count)
  <2>1. m \in ReplyMessages /\ Tail(Replies[p]) \in Seq(ReplyMessages)
    BY <1>6, ElementsTail DEF Insurance_receive_data
  <2>2. Replies' \in [Paras -> Seq(ReplyMessages)]
    BY <1>6, <2>1 DEF Insurance_receive_data
  <2>3. key \in Keys /\ m.data \in Data
    BY <2>1 DEF ReplyMessages, create_composite_key, Keys
  <2>4. receive_data(p, m.vehicle, m.count, m.data)
    BY <1>6 DEF Insurance_receive_data
  <2> HIDE DEF m, key
  <2>5. AccidentsData' \in [Paras -> [Keys -> Data \cup {None}]]
    <3>1. [AccidentsData[p] EXCEPT ![key] = m.data] \in [Keys -> Data \cup {None}]
      BY <2>3 DEF InsuranceTypeOK
    <3>2. QED
      BY Zenon, <2>4, <3>1 DEF key, receive_data, InsuranceTypeOK
  <2>6. InsuranceTypeOK'
    BY <2>4, <2>5 DEF receive_data, InsuranceTypeOK
  <2>7. QED
    BY <1>1, <1>6, <2>2, <2>6 DEF Insurance_receive_data
<1>7. CASE UNCHANGED <<insuranceVars, channelVars>>
  BY <1>1, <1>7 DEF InsuranceTypeOK
<1>8. QED
  BY <1>2, <1>3, <1>4, <1>5, <1>6, <1>7 DEF Next, vars, Renault_create_factory,
     Renault_create_vehicle, Renault_init_vehicle, Renault_report_accident,
     Renault_set_ipfs_status

\* The storage of all chains and the messages between them keep their types:
\* every counter stays a u32 and no key outside account x u32 is written.
THEOREM TypeCorrect == Spec => []TypeOK
BY InitTypeOK, NextTypeOK, PTL DEF Spec

-----------------------------------------------------------------------------
(* Nothing that was relied on is taken back. *)

\* What a step may do to the storage: add to it.
Grows ==
    /\ VehiclesStatus \subseteq VehiclesStatus'
    /\ \A k \in Keys : Accidents[k] # None => Accidents'[k] = Accidents[k]
    /\ \A p \in Paras :
          /\ Subscriptions[p] \subseteq Subscriptions'[p]
          /\ RequestDataEvents[p] \subseteq RequestDataEvents'[p]
          /\ \A k \in Keys :
                /\ DeclaredAccidents[p][k] # None =>
                      DeclaredAccidents'[p][k] = DeclaredAccidents[p][k]
                /\ AccidentsData[p][k] # None =>
                      AccidentsData'[p][k] = AccidentsData[p][k]

\* A call of the Renault chain's pallets only adds: report_accident rejects a
\* taken index.
LEMMA RenaultGrows ==
    ASSUME RenaultTypeOK, [RenaultNext]_renaultVars
    PROVE  /\ VehiclesStatus \subseteq VehiclesStatus'
           /\ \A k \in Keys : Accidents[k] # None => Accidents'[k] = Accidents[k]
<1> USE DEF RenaultTypeOK, SimRenaultTypeOK
<1>1. ASSUME NEW car \in Accounts, NEW d \in Data, renault_report_accident(car, d)
      PROVE  \A k \in Keys : Accidents[k] # None => Accidents'[k] = Accidents[k]
  BY SMTT(30), <1>1 DEF renault_report_accident, AccidentAlreadyStored
<1>2. QED
  BY <1>1 DEF RenaultNext, create_factory, create_vehicle, init_vehicle, set_ipfs_status,
     renault_report_accident, simRenaultAccidentVars, simRenaultVars, renaultVars

\* Every step of the system only adds: both inserts on an insurance chain are
\* guarded by a check of their key.
LEMMA NextGrows == ASSUME TypeOK, [Next]_vars PROVE Grows
<1> USE DEF TypeOK, InsuranceTypeOK, insuranceVars
<1>1. /\ VehiclesStatus \subseteq VehiclesStatus'
      /\ \A k \in Keys : Accidents[k] # None => Accidents'[k] = Accidents[k]
  BY RenaultStep, RenaultGrows
<1>2. ASSUME NEW p \in Paras, NEW who \in Accounts, Insurance_sign_up(p, who)
      PROVE  Grows
  BY SMTT(30), <1>1, <1>2 DEF Insurance_sign_up, sign_up, Grows
<1>3. ASSUME NEW p \in Paras, NEW d \in Accounts, NEW v \in Accounts, NEW n \in Counts,
             Insurance_report_accident(p, d, v, n)
      PROVE  Grows
  BY SMTT(30), <1>1, <1>3 DEF Insurance_report_accident, insurance_report_accident,
     StoreDeclaration, AlreadyDeclared, Grows
<1>4. ASSUME NEW p \in Paras, Insurance_receive_data(p)
      PROVE  Grows
  <2> DEFINE m == Head(Replies[p])
             key == create_composite_key(m.vehicle, m.count)
  <2>1. receive_data(p, m.vehicle, m.count, m.data)
    BY SMTT(30), <1>4 DEF Insurance_receive_data
  <2>2. \/ /\ AccidentsData[p][key] = None
           /\ AccidentsData' = [AccidentsData EXCEPT ![p][key] = m.data]
        \/ UNCHANGED AccidentsData
    BY SMTT(30), <2>1 DEF receive_data, DataAlreadyStored
  <2>3. UNCHANGED <<Subscriptions, DeclaredAccidents, RequestDataEvents>>
    BY SMTT(30), <2>1 DEF receive_data
  <2> HIDE DEF m, key
  <2>4. \A q \in Paras, k \in Keys :
           AccidentsData[q][k] # None => AccidentsData'[q][k] = AccidentsData[q][k]
    <3>1. CASE AccidentsData' = [AccidentsData EXCEPT ![p][key] = m.data]
      <4>1. AccidentsData' = [AccidentsData EXCEPT
                ![p] = [AccidentsData[p] EXCEPT ![key] = m.data]]
        BY <3>1
      <4>2. \A k \in Keys \ {key} : AccidentsData'[p][k] = AccidentsData[p][k]
        BY <4>1
      <4>3. \A q \in Paras \ {p} : AccidentsData'[q] = AccidentsData[q]
        BY SMTT(30), <4>1
      <4>4. QED
        BY SMTT(30), <2>2, <4>2, <4>3
    <3>2. QED
      BY SMTT(30), <2>2, <3>1
  <2>5. QED
    BY SMTT(30), <1>1, <2>3, <2>4 DEF Grows
<1>5. CASE UNCHANGED insuranceVars
  BY <1>1, <1>5 DEF Grows
<1>6. QED
  BY Zenon, <1>2, <1>3, <1>4, <1>5 DEF Next, vars, OpenHrmpChannel, Renault_create_factory,
     Renault_create_vehicle, Renault_init_vehicle, Renault_report_accident,
     Renault_set_ipfs_status, Renault_request_data

\* No accident, declaration or received data is ever changed or removed.
THEOREM NeverRewritten == Spec => StoredNeverRewritten
<1> DEFINE Kept ==
      /\ \A k \in Keys : Accidents[k] # None => Accidents'[k] = Accidents[k]
      /\ \A p \in Paras, k \in Keys :
            /\ DeclaredAccidents[p][k] # None =>
                  DeclaredAccidents'[p][k] = DeclaredAccidents[p][k]
            /\ AccidentsData[p][k] # None =>
                  AccidentsData'[p][k] = AccidentsData[p][k]
<1>1. TypeOK /\ [Next]_vars => [Kept]_vars
  BY SMTT(30), NextGrows DEF Grows
<1>2. QED
  BY <1>1, TypeCorrect, PTL DEF Spec, StoredNeverRewritten

\* A request stays accounted for.
LEMMA RequestedStable ==
    ASSUME TypeOK, Grows, NEW p \in Paras, NEW v \in Accounts, NEW n \in Counts,
           Requested(p, v, n)
    PROVE  Requested(p, v, n)'
<1> DEFINE declaration == [vehicle |-> v, count |-> n]
<1>1. PICK k \in Keys : DeclaredAccidents[p][k] = declaration /\ is_driver(p, k[1])
  BY DEF Requested
<1>2. declaration # None
  BY SMTT(30), InsuranceAssumption DEF Declarations
<1>3. DeclaredAccidents'[p][k] = declaration /\ is_driver(p, k[1])'
  BY SMTT(30), <1>1, <1>2 DEF Grows, is_driver
<1>4. declaration \in RequestDataEvents'[p]
  BY DEF Requested, Grows
<1>5. QED
  BY SMTT(30), <1>3, <1>4 DEF Requested

\* A reported accident stays reported.
LEMMA ReportedStable ==
    ASSUME Grows, NEW v \in Accounts, NEW n \in Counts, NEW data \in Data,
           Reported(v, n, data)
    PROVE  Reported(v, n, data)'
<1>1. create_composite_key(v, n - 1) \in Keys
  BY SMTT(30), ChainAssumption DEF Reported, create_composite_key, Keys, Counts
<1>2. QED
  BY <1>1, ChainAssumption DEF Reported, Grows, is_vehicle

-----------------------------------------------------------------------------
(* What the insurances receive. *)

\* The inductive invariant behind DataMatchesRenault and DataWasDeclared: they
\* hold of the data on its way as of the data stored.
DataInv == TypeOK /\ MessagesSound /\ DataMatchesRenault /\ DataWasDeclared

\* Nothing is stored or on its way at genesis.
LEMMA InitDataInv == Init => DataInv
<1> SUFFICES ASSUME Init PROVE DataInv
  OBVIOUS
<1>1. TypeOK
  BY InitTypeOK
<1>2. \A p \in Paras : Elements(Requests[p]) = {} /\ Elements(Replies[p]) = {}
  BY DEF Init, Elements
<1>3. \A p \in Paras, v \in Accounts, n \in Counts :
         AccidentsData[p][create_composite_key(v, n)] = None
  BY SMTT(30) DEF Init, InsuranceInit, create_composite_key, Keys
<1>4. QED
  BY <1>1, <1>2, <1>3 DEF DataInv, MessagesSound, DataMatchesRenault, DataWasDeclared

\* What holds of the messages and the data before a step holds of them after
\* it, as the storage they refer to only grows.
LEMMA DataInvCarriesOver ==
    ASSUME DataInv, Grows
    PROVE  /\ \A p \in Paras : \A m \in Elements(Requests[p]) :
                 Requested(p, m.vehicle, m.count)'
           /\ \A p \in Paras : \A m \in Elements(Replies[p]) :
                 Requested(p, m.vehicle, m.count)' /\ Reported(m.vehicle, m.count, m.data)'
           /\ \A p \in Paras, v \in Accounts, n \in Counts, d \in Data :
                 AccidentsData[p][create_composite_key(v, n)] = d =>
                    Requested(p, v, n)' /\ Reported(v, n, d)'
<1>1. ASSUME NEW p \in Paras, NEW m \in Elements(Requests[p])
      PROVE  Requested(p, m.vehicle, m.count)'
  <2>1. m \in Declarations
    BY SMTT(30), ElementsType DEF DataInv, TypeOK
  <2>2. QED
    BY <2>1, RequestedStable DEF DataInv, MessagesSound, Declarations
<1>2. ASSUME NEW p \in Paras, NEW m \in Elements(Replies[p])
      PROVE  Requested(p, m.vehicle, m.count)' /\ Reported(m.vehicle, m.count, m.data)'
  <2>1. m \in ReplyMessages
    BY ElementsType DEF DataInv, TypeOK
  <2>2. QED
    BY <2>1, RequestedStable, ReportedStable DEF DataInv, MessagesSound, ReplyMessages
<1>3. ASSUME NEW p \in Paras, NEW v \in Accounts, NEW n \in Counts, NEW d \in Data,
             AccidentsData[p][create_composite_key(v, n)] = d
      PROVE  Requested(p, v, n)' /\ Reported(v, n, d)'
  <2>1. Requested(p, v, n) /\ Reported(v, n, d)
    BY SMTT(30), <1>3, ChainAssumption DEF DataInv, DataMatchesRenault, DataWasDeclared
  <2>2. QED
    BY <2>1, RequestedStable, ReportedStable DEF DataInv
<1>4. QED
  BY SMTT(30), <1>1, <1>2, <1>3

\* One case per action that sends or consumes a message.
LEMMA NextDataInv == DataInv /\ [Next]_vars => DataInv'
<1> SUFFICES ASSUME DataInv, [Next]_vars PROVE DataInv'
  OBVIOUS
<1>1. TypeOK /\ TypeOK' /\ Grows
  BY NextTypeOK, NextGrows DEF DataInv
<1> DEFINE
      RequestsOK == \A p \in Paras : \A m \in Elements(Requests'[p]) :
          Requested(p, m.vehicle, m.count)'
      RepliesOK == \A p \in Paras : \A m \in Elements(Replies'[p]) :
          Requested(p, m.vehicle, m.count)' /\ Reported(m.vehicle, m.count, m.data)'
      DataOK == \A p \in Paras, v \in Accounts, n \in Counts, d \in Data :
          AccidentsData'[p][create_composite_key(v, n)] = d =>
              Requested(p, v, n)' /\ Reported(v, n, d)'
<1>2. ASSUME RequestsOK, RepliesOK, DataOK PROVE DataInv'
  <2>1. MessagesSound'
    BY SMTT(30), <1>2 DEF MessagesSound
  <2>2. \A p \in Paras, v \in Accounts, n \in Counts :
           AccidentsData'[p][create_composite_key(v, n)] \in Data \cup {None}
    BY SMTT(30), <1>1 DEF TypeOK, InsuranceTypeOK, create_composite_key, Keys
  <2>3. DataMatchesRenault' /\ DataWasDeclared'
    BY SMTT(30), <1>2, <2>2 DEF DataMatchesRenault, DataWasDeclared
  <2>4. QED
    BY SMTT(30), <1>1, <2>1, <2>3 DEF DataInv
<1> HIDE DEF RequestsOK, RepliesOK, DataOK
<1>3. /\ UNCHANGED Requests => RequestsOK
      /\ UNCHANGED Replies => RepliesOK
      /\ UNCHANGED AccidentsData => DataOK
  BY <1>1, DataInvCarriesOver DEF RequestsOK, RepliesOK, DataOK
<1>4. ASSUME NEW p \in Paras, NEW d \in Accounts, NEW v \in Accounts, NEW n \in Counts,
             Insurance_report_accident(p, d, v, n)
      PROVE  DataInv'
  <2> DEFINE m == [vehicle |-> v, count |-> n]
  <2>1. UNCHANGED Replies /\ UNCHANGED AccidentsData
    BY <1>4 DEF Insurance_report_accident, insurance_report_accident
  <2>2. CASE ~SendOk(p, Renault)
    <3>1. UNCHANGED Requests
      BY <1>1, <1>4, <2>2 DEF Insurance_report_accident, TypeOK
    <3>2. QED
      BY <1>2, <1>3, <2>1, <3>1
  <2>3. CASE SendOk(p, Renault)
    <3>1. DriverCount(p, d) \in Counts
      BY SMTT(30), <1>1, CountOrZeroFacts DEF DriverCount, TypeOK, InsuranceTypeOK
    <3>2. Requested(p, v, n)'
      <4> DEFINE key == create_composite_key(d, DriverCount(p, d))
      <4>1. key \in Keys /\ key[1] = d
        BY SMTT(30), <3>1 DEF create_composite_key, Keys
      <4>2. DeclaredAccidents'[p][key] = m /\ is_driver(p, d)'
        BY SMTT(30), <1>1, <1>4, <4>1 DEF Insurance_report_accident, insurance_report_accident,
           StoreDeclaration, UnknownDriver, is_driver, TypeOK, InsuranceTypeOK
      <4>3. m \in RequestDataEvents'[p]
        BY SMTT(30), <1>1, <1>4, <2>3 DEF Insurance_report_accident, insurance_report_accident,
           TypeOK, InsuranceTypeOK
      <4> HIDE DEF key
      <4>4. QED
        BY <4>1, <4>2, <4>3 DEF Requested
    <3>3. m \in Declarations
      BY SMTT(30) DEF Declarations
    <3>4. Elements(Append(Requests[p], m)) = Elements(Requests[p]) \cup {m}
      BY SMTT(30), <1>1, <3>3, ElementsAppend DEF TypeOK
    <3>5. Requests' = [Requests EXCEPT ![p] = Append(Requests[p], m)]
      BY SMTT(30), <1>4, <2>3 DEF Insurance_report_accident
    <3>6. RequestsOK
      BY SMTT(30), <1>1, <3>2, <3>4, <3>5, DataInvCarriesOver DEF RequestsOK, TypeOK
    <3>7. QED
      BY SMTT(30), <1>2, <1>3, <2>1, <3>6
  <2>4. QED
    BY <2>2, <2>3
<1>5. ASSUME NEW p \in Paras, Renault_request_data(p)
      PROVE  DataInv'
  <2> DEFINE m == Head(Requests[p])
             reply == [vehicle |-> m.vehicle, count |-> m.count,
                       data |-> get_accident_data(m.vehicle, m.count)]
  <2>1. UNCHANGED AccidentsData /\ UNCHANGED renaultVars
    BY SMTT(30), <1>5 DEF Renault_request_data, insuranceVars
  <2>2. /\ m \in Declarations /\ m \in Elements(Requests[p])
        /\ Elements(Tail(Requests[p])) \subseteq Elements(Requests[p])
    BY SMTT(30), <1>1, <1>5, ElementsTail DEF Renault_request_data, TypeOK
  <2>3. Requests' = [Requests EXCEPT ![p] = Tail(Requests[p])]
    BY SMTT(30), <1>5 DEF Renault_request_data
  <2>4. RequestsOK
    BY SMTT(30), <1>1, <2>2, <2>3, DataInvCarriesOver DEF RequestsOK, TypeOK
  <2>5. CASE Answerable(p, m)
    <3>1. /\ is_vehicle(m.vehicle) /\ m.count > 0
          /\ get_accident_data(m.vehicle, m.count) \in Data
          /\ get_accident_data(m.vehicle, m.count) =
                Accidents[create_composite_key(m.vehicle, m.count - 1)]
      BY ZenonT(30), <1>1, <2>2, <2>5, ReplyDataFacts DEF Answerable, Declarations, TypeOK
    <3>2. reply \in ReplyMessages
      BY <2>2, <3>1 DEF Declarations, ReplyMessages
    <3>3. PICK e \in Elements(Requests[p]) : e = m
      BY SMTT(30), <2>2
    <3>4. PICK r \in ReplyMessages : r = reply
      BY Zenon, <3>2
    <3>5. Reported(r.vehicle, r.count, r.data)'
      BY SMTT(30), <1>1, <3>1, <3>4, ReportedStable DEF Reported, ReplyMessages
    <3>6. Requested(p, r.vehicle, r.count)'
      BY SMTT(30), <1>1, <3>3, <3>4, DataInvCarriesOver
    <3>7. Elements(Append(Replies[p], r)) = Elements(Replies[p]) \cup {r}
      BY SMTT(30), <1>1, <3>4, ElementsAppend DEF TypeOK
    <3>8. Replies' = [Replies EXCEPT ![p] = Append(Replies[p], r)]
      BY SMTT(30), <1>5, <2>5, <3>4 DEF Renault_request_data
    <3>9. RepliesOK
      BY SMTT(30), <1>1, <3>5, <3>6, <3>7, <3>8, DataInvCarriesOver DEF RepliesOK, TypeOK
    <3>10. QED
      BY SMTT(30), <1>2, <1>3, <2>1, <2>4, <3>9
  <2>6. CASE ~Answerable(p, m)
    BY SMTT(30), <1>2, <1>3, <1>5, <2>1, <2>4, <2>6 DEF Renault_request_data
  <2>7. QED
    BY SMTT(30), <2>5, <2>6
<1>6. ASSUME NEW p \in Paras, Insurance_receive_data(p)
      PROVE  DataInv'
  <2> DEFINE m == Head(Replies[p])
             key == create_composite_key(m.vehicle, m.count)
  <2>1. UNCHANGED Requests
    BY SMTT(30), <1>6 DEF Insurance_receive_data
  <2>2. /\ m \in ReplyMessages /\ m \in Elements(Replies[p])
        /\ Elements(Tail(Replies[p])) \subseteq Elements(Replies[p])
    BY SMTT(30), <1>1, <1>6, ElementsTail DEF Insurance_receive_data, TypeOK
  <2>3. Replies' = [Replies EXCEPT ![p] = Tail(Replies[p])]
    BY SMTT(30), <1>6 DEF Insurance_receive_data
  <2>4. RepliesOK
    BY SMTT(30), <1>1, <2>2, <2>3, DataInvCarriesOver DEF RepliesOK, TypeOK
  <2>5. \/ UNCHANGED AccidentsData
        \/ AccidentsData' = [AccidentsData EXCEPT ![p][key] = m.data]
    BY SMTT(30), <1>6 DEF Insurance_receive_data, receive_data
  <2>6. DataOK
    <3>1. PICK e \in Elements(Replies[p]) : e = m
      BY SMTT(30), <2>2
    <3>2. Requested(p, e.vehicle, e.count)' /\ Reported(e.vehicle, e.count, e.data)'
      BY SMTT(30), <1>1, DataInvCarriesOver
    <3>3. ASSUME NEW q \in Paras, NEW v \in Accounts, NEW n \in Counts, NEW d \in Data,
                 AccidentsData'[q][<<v, n>>] = d
          PROVE  Requested(q, v, n)' /\ Reported(v, n, d)'
      <4>1. CASE q = p /\ v = e.vehicle /\ n = e.count /\ d = e.data
        BY SMTT(30), <3>2, <4>1
      <4>2. CASE AccidentsData[q][<<v, n>>] = d
        BY <1>1, <4>2, DataInvCarriesOver DEF create_composite_key
      <4>3. QED
        <5>1. CASE UNCHANGED AccidentsData
          BY SMTT(30), <3>3, <4>2, <5>1
        <5>2. CASE AccidentsData' = [AccidentsData EXCEPT ![p][key] = m.data]
          <6>1. key = <<e.vehicle, e.count>>
            BY SMTT(30), <3>1 DEF create_composite_key
          <6>2. AccidentsData' = [AccidentsData EXCEPT
                    ![p] = [AccidentsData[p] EXCEPT ![key] = e.data]]
            BY SMTT(30), <3>1, <5>2
          <6> HIDE DEF key
          <6>3. CASE q # p
            BY SMTT(30), <1>1, <3>3, <4>2, <6>2, <6>3 DEF TypeOK, InsuranceTypeOK
          <6>4. CASE q = p /\ <<v, n>> # key
            BY SMTT(30), <1>1, <3>3, <4>2, <6>2, <6>4 DEF TypeOK, InsuranceTypeOK, Keys
          <6>5. CASE q = p /\ <<v, n>> = key
            <7>1. v = e.vehicle /\ n = e.count
              BY SMTT(30), <6>1, <6>5
            <7>2. AccidentsData'[p][<<v, n>>] = e.data
              BY SMTT(30), <1>1, <6>2, <6>5 DEF TypeOK, InsuranceTypeOK, Keys
            <7>. QED  BY <3>3, <4>1, <6>5, <7>1, <7>2
          <6>6. QED
            BY SMTT(30), <6>3, <6>4, <6>5
        <5>3. QED
          BY SMTT(30), <2>5, <5>1, <5>2
    <3>4. QED
      BY SMTT(30), <3>3 DEF DataOK, create_composite_key
  <2>7. QED
    BY SMTT(30), <1>2, <1>3, <2>1, <2>4, <2>6
<1>7. CASE UNCHANGED <<insuranceVars, Requests, Replies>>
  BY <1>2, <1>3, <1>7 DEF insuranceVars
<1>8. ASSUME NEW p \in Paras, NEW who \in Accounts, Insurance_sign_up(p, who)
      PROVE  DataInv'
  BY <1>2, <1>3, <1>8 DEF Insurance_sign_up, sign_up, channelVars
<1>9. QED
  BY SMTT(30), <1>4, <1>5, <1>6, <1>7, <1>8 DEF Next, vars, insuranceVars, channelVars,
     OpenHrmpChannel, Renault_create_factory, Renault_create_vehicle,
     Renault_init_vehicle, Renault_report_accident, Renault_set_ipfs_status

\* The data every insurance stores is what the vehicle reported to Renault.
THEOREM StoredDataIsReported == Spec => []DataMatchesRenault
BY InitDataInv, NextDataInv, PTL DEF Spec, DataInv

\* An insurance stores data only for accidents its own drivers declared.
THEOREM StoredDataWasDeclared == Spec => []DataWasDeclared
BY InitDataInv, NextDataInv, PTL DEF Spec, DataInv

\* Every request and reply on its way stays justified until it is executed.
THEOREM MessagesStaySound == Spec => []MessagesSound
BY InitDataInv, NextDataInv, PTL DEF Spec, DataInv

-----------------------------------------------------------------------------
(* The barrier, and calls that roll back. *)

\* A chain the barrier does not list never gets a reply, so it never has
\* anything to store.
THEOREM UnlistedChainsGetNothing == Spec => []UnlistedGetsNothing
<1>1. Init => UnlistedGetsNothing
  BY SMTT(30) DEF Init, InsuranceInit, UnlistedGetsNothing
<1>2. ASSUME TypeOK, UnlistedGetsNothing, [Next]_vars PROVE UnlistedGetsNothing'
  <2> USE DEF UnlistedGetsNothing, TypeOK, InsuranceTypeOK
  <2>1. ASSUME NEW p \in Paras, Renault_request_data(p) PROVE UnlistedGetsNothing'
    <3>1. CASE p \in UnpaidParas
      BY SMTT(30), <1>2, <2>1, <3>1 DEF Renault_request_data, insuranceVars
    <3>2. CASE p \notin UnpaidParas
      <4>1. ~Answerable(p, Head(Requests[p]))
        BY Zenon, <3>2 DEF Answerable, Barrier
      <4>2. UNCHANGED <<AccidentsData, Replies>>
        BY Zenon, <2>1, <4>1 DEF Renault_request_data, insuranceVars
      <4>3. QED
        BY Zenon, <1>2, <4>2
    <3>3. QED
      BY Zenon, <3>1, <3>2
  <2>2. ASSUME NEW p \in Paras, Insurance_receive_data(p) PROVE UnlistedGetsNothing'
    <3>1. p \in UnpaidParas
      BY SMTT(30), <1>2, <2>2 DEF Insurance_receive_data
    <3>2. \A q \in Paras \ {p} : UNCHANGED <<Replies[q], AccidentsData[q]>>
      BY Zenon, <1>2, <2>2 DEF Insurance_receive_data, receive_data
    <3>3. QED
      BY SMTT(30), <1>2, <3>1, <3>2
  <2>3. CASE UNCHANGED <<AccidentsData, Replies>>
    BY <1>2, <2>3
  <2>4. QED
    BY ZenonT(30), <1>2, <2>1, <2>2, <2>3 DEF Next, vars, insuranceVars, channelVars, OpenHrmpChannel,
       Renault_create_factory, Renault_create_vehicle, Renault_init_vehicle,
       Renault_report_accident, Renault_set_ipfs_status, Insurance_sign_up, sign_up,
       Insurance_report_accident, insurance_report_accident
<1>3. QED
  BY <1>1, <1>2, TypeCorrect, PTL DEF Spec

-----------------------------------------------------------------------------
(* The register of accidents. *)

\* The empty storage is the empty register.
LEMMA InitRefines == Init => Register!RegisterInit
<1> SUFFICES ASSUME Init PROVE Register!RegisterInit
  OBVIOUS
<1>1. Accidents = [k \in Accounts \X Counts |-> None]
  BY DEF Init, RenaultInit, Keys
<1>2. \A p \in Paras, k \in Keys : AccidentsData[p][k] = None
  BY DEF Init, InsuranceInit
<1>3. LearnedData = [p \in Paras |-> [k \in Accounts \X Counts |-> None]]
  BY <1>2 DEF LearnedData, create_composite_key, Keys
<1>4. QED
  BY <1>1, <1>3 DEF Register!RegisterInit

\* report_accident writes the first free index: by AccidentsDense the index
\* its counter names has no free index below it.
LEMMA ReportRecords ==
    ASSUME RenaultTypeOK, AccidentsDense, UNCHANGED LearnedData,
           NEW v \in Accounts, NEW d \in Data, renault_report_accident(v, d)
    PROVE  Register!RegisterNext
<1> DEFINE n == VehicleCount(v)
<1>1. n \in Counts
  BY VehicleCountFacts
<1>2. /\ Accidents[<<v, n>>] = None
      /\ Accidents' = [Accidents EXCEPT ![<<v, n>>] = d]
  BY DEF renault_report_accident, AccidentAlreadyStored, create_composite_key
<1>3. Stored(v) = {i \in Counts : i < n}
  BY <1>1, <1>2 DEF AccidentsDense, Stored, create_composite_key
<1>4. \A j \in Counts : j < n => Accidents[<<v, j>>] # None
  BY <1>3 DEF Stored, create_composite_key
<1> HIDE DEF n
<1>5. Register!Record(v, n, d)
  BY SMTT(30), <1>2, <1>4 DEF Register!Record
<1>6. QED
  BY <1>1, <1>5 DEF Register!RegisterNext

\* receive_data copies what the register holds, by MessagesSound, or finds
\* the data already there.
LEMMA ReceiveLearns ==
    ASSUME DataInv, UNCHANGED Accidents, NEW p \in Paras, Insurance_receive_data(p)
    PROVE  Register!RegisterNext \/ UNCHANGED <<Accidents, LearnedData>>
<1> USE DEF DataInv, TypeOK
<1>1. PICK e \in Elements(Replies[p]) : e = Head(Replies[p])
  BY ElementsTail DEF Insurance_receive_data
<1>2. /\ e \in ReplyMessages
      /\ Reported(e.vehicle, e.count, e.data)
  BY <1>1, ElementsType DEF MessagesSound
<1> DEFINE v == e.vehicle
           i == e.count - 1
           key == create_composite_key(e.vehicle, e.count)
<1>3. /\ v \in Accounts /\ i \in Counts /\ i + 1 = e.count /\ e.count \in Counts
      /\ e.data \in Data /\ e.data # None /\ key \in Keys
  BY <1>2, ChainAssumption DEF ReplyMessages, Reported, Counts, create_composite_key, Keys
<1>4. Accidents[<<v, i>>] = e.data
  BY <1>2 DEF Reported, create_composite_key
<1>5. CASE UNCHANGED AccidentsData
  BY <1>5 DEF LearnedData
<1>6. CASE /\ AccidentsData[p][key] = None
           /\ AccidentsData' = [AccidentsData EXCEPT ![p][key] = e.data]
  <2>1. LearnedData[p][<<v, i>>] = None
    BY SMTT(30), <1>3, <1>6 DEF LearnedData, Keys
  <2>2. LearnedData' = [LearnedData EXCEPT ![p][<<v, i>>] = Accidents[<<v, i>>]]
    <3> DEFINE Entry(q, k) ==
          IF q = p /\ k = <<v, i>> THEN e.data ELSE LearnedData[q][k]
    <3>1. ASSUME NEW q \in Paras, NEW k \in Keys
          PROVE  LearnedData'[q][k] = Entry(q, k)
      <4> DEFINE next == <<k[1], k[2] + 1>>
      <4>1. k[1] \in Accounts /\ k[2] \in Counts /\ k = <<k[1], k[2]>>
        BY DEF Keys
      <4>2. next = key <=> k = <<v, i>>
        BY SMTT(30), <1>3, <4>1 DEF create_composite_key, Counts
      <4>3. k[2] + 1 \in Counts => next \in Keys
        BY <4>1 DEF Keys
      <4>4. /\ LearnedData[q][k] =
                  IF k[2] + 1 \in Counts THEN AccidentsData[q][next] ELSE None
            /\ LearnedData'[q][k] =
                  IF k[2] + 1 \in Counts THEN AccidentsData'[q][next] ELSE None
        BY DEF LearnedData, create_composite_key
      <4>5. k[2] + 1 \in Counts =>
              AccidentsData'[q][next] =
                  IF q = p /\ next = key THEN e.data ELSE AccidentsData[q][next]
        <5> HIDE DEF next, key
        <5> QED
          BY <1>6, <4>3 DEF InsuranceTypeOK
      <4>6. k = <<v, i>> => k[2] + 1 \in Counts
        BY <1>3
      <4> HIDE DEF next, key
      <4>7. QED
        BY <4>2, <4>4, <4>5, <4>6
    <3>2. LearnedData' = [q \in Paras |-> [k \in Keys |-> Entry(q, k)]]
      <4>1. LearnedData' = [q \in Paras |-> [k \in Keys |-> LearnedData'[q][k]]]
        BY DEF LearnedData
      <4> HIDE DEF Entry
      <4>2. QED
        BY SMTT(30), <3>1, <4>1
    <3>3. LearnedData = [q \in Paras |-> [k \in Keys |-> LearnedData[q][k]]]
      BY DEF LearnedData
    <3>4. <<v, i>> \in Keys
      BY <1>3 DEF Keys
    <3>5. QED
      BY Zenon, <1>4, <3>2, <3>3, <3>4
  <2>3. Register!Learn(p, v, i)
    BY SMTT(30), <1>3, <1>4, <2>1, <2>2 DEF Register!Learn
  <2>4. QED
    BY SMTT(30), <1>3, <2>3 DEF Register!RegisterNext
<1>7. QED
  BY <1>1, <1>5, <1>6 DEF Insurance_receive_data, receive_data, DataAlreadyStored

\* Every step is a step of the register or leaves it alone.
LEMMA NextRefines ==
    ASSUME DataInv, AccidentsDense, [Next]_vars
    PROVE  Register!RegisterNext \/ UNCHANGED <<Accidents, LearnedData>>
<1> USE DEF insuranceVars, channelVars
<1>1. ASSUME NEW v \in Accounts, NEW d \in Data, Renault_report_accident(v, d)
      PROVE  Register!RegisterNext
  <2>1. UNCHANGED LearnedData
    BY <1>1 DEF Renault_report_accident, LearnedData
  <2>2. QED
    BY <1>1, <2>1, ReportRecords DEF Renault_report_accident, DataInv, TypeOK
<1>2. ASSUME NEW p \in Paras, Insurance_receive_data(p)
      PROVE  Register!RegisterNext \/ UNCHANGED <<Accidents, LearnedData>>
  BY Zenon, <1>2, ReceiveLearns DEF Insurance_receive_data, renaultVars
<1>3. ASSUME UNCHANGED <<Accidents, AccidentsData>>
      PROVE  UNCHANGED <<Accidents, LearnedData>>
  BY <1>3 DEF LearnedData
<1>4. QED
  BY ZenonT(30), <1>1, <1>2, <1>3 DEF Next, vars, OpenHrmpChannel, Renault_create_factory,
     Renault_create_vehicle, Renault_init_vehicle, Renault_set_ipfs_status,
     set_ipfs_status, simRenaultAccidentVars, Insurance_sign_up, sign_up,
     Insurance_report_accident, insurance_report_accident, Renault_request_data,
     renaultVars

\* The chains, their messages and their failures implement the register of
\* accidents, for every set of accounts, chains and hashes and every width of
\* the counters.
THEOREM WorkflowImplementsRegister == Spec => RegisterRefined
<1>1. Init => DataInv /\ AccidentsDense
  BY InitDataInv, InitDense DEF Init
<1>2. DataInv /\ AccidentsDense /\ [Next]_vars => DataInv' /\ AccidentsDense'
  BY NextDataInv, RenaultStep, NextDense DEF DataInv, TypeOK
<1>3. DataInv /\ AccidentsDense /\ [Next]_vars
        => [Register!RegisterNext]_(Register!registerVars)
  BY NextRefines DEF Register!registerVars
<1>4. QED
  BY <1>1, <1>2, <1>3, InitRefines, PTL
     DEF Spec, RegisterRefined, Register!RegisterSpec
=============================================================================

SPECIFICATION MCSpec
CONSTANTS
    None = None
    InitFactoryAndVehicle = car
    InitDriver = car
    Renault = 2000
    UnpaidParas = {2000, 3000}
    Statuses = {0, 1}
    Accounts = {car, driver}
    Data = {cid1, cid2}
    Paras = {2000, 3000}
    CountMod = 2
    Transactional = FALSE
    MaxAccidents = 2
    MaxDeclared = 2
SYMMETRY Symmetry
INVARIANT AccidentsDense
INVARIANT AccidentsHaveProvenance
INVARIANT IpfsStatusTracksAccidents
INVARIANT MessagesSound
INVARIANT DataMatchesRenault
INVARIANT DataWasDeclared
PROPERTY RegisterRefined
PROPERTY StoredNeverRewritten

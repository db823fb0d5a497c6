SPECIFICATION MCFairSpec
CONSTANTS
    None = None
    InitFactoryAndVehicle = car
    InitDriver = car
    Renault = 2000
    UnpaidParas = {2000, 3000}
    Statuses = {0}
    Accounts = {car}
    Data = {cid1, cid2}
    Paras = {2000, 3000, 4000}
    CountMod = 3
    Transactional = FALSE
    MaxAccidents = 2
    MaxDeclared = 3
INVARIANT UnlistedGetsNothing
PROPERTY DataDelivered

SPECIFICATION MCSpec
CONSTANTS
    None = None
    InitFactoryAndVehicle = car
    InitDriver = car
    Renault = 2000
    UnpaidParas = {2000, 3000}
    Statuses = {0}
    Accounts = {car, driver}
    Data = {cid1}
    Paras = {2000, 3000}
    CountMod = 3
    Transactional = FALSE
    MaxAccidents = 1
    MaxDeclared = 2
SYMMETRY Symmetry
INVARIANT DriverCountIsDriverCount

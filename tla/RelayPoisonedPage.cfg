SPECIFICATION FairSpec
CONSTANTS
    Alice = Alice  Op = Op
    Source = Source  Target = Target  Home = Home
    Users = {Alice}  RelayerAccount = Op
    Gateway = Gateway  DeadAdmin = DeadAdmin  Unset = Unset  None = None
    Key = Key  OtherKey = OtherKey
    MaxAmount = 10
    LockAmounts = {}  Counts = {}  BurnAmounts = {1}  Expiries = {0, 9}
    StartBalance = 2  Fee = 0  Pinned = None  Forged = {}
    PageLimit = 2  Window = 3
    MaxHeight = 1  MaxLedger = 2  MaxBurns = 2  MaxFailures = 0  MaxRestarts = 0  MaxSourceRestarts = 0
PROPERTIES
    BurnsAreReleased

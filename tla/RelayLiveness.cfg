SPECIFICATION FairSpec
CONSTANTS
    Alice = Alice  Op = Op
    Source = Source  Target = Target  Home = Home
    Users = {Alice}  RelayerAccount = Op
    Gateway = Gateway  DeadAdmin = DeadAdmin  Unset = Unset  None = None
    Key = Key  OtherKey = OtherKey
    MaxAmount = 10
    LockAmounts = {1}  Counts = {2}  BurnAmounts = {1}  Expiries = {9}
    StartBalance = 2  Fee = 1  Pinned = 1  Forged = {}
    PageLimit = 1  Window = 3
    MaxHeight = 1  MaxLedger = 2  MaxBurns = 2  MaxFailures = 2  MaxRestarts = 1  MaxSourceRestarts = 0
PROPERTIES
    PinnedHeightIsWorkedOff BurnsAreReleased

SPECIFICATION Spec
CONSTANTS
    Alice = Alice  Op = Op
    Source = Source  Target = Target  Home = Home
    Users = {Alice}  RelayerAccount = Op
    Gateway = Gateway  DeadAdmin = DeadAdmin  Unset = Unset  None = None
    Key = Key  OtherKey = OtherKey
    MaxAmount = 10
    LockAmounts = {1}  Counts = {2}  BurnAmounts = {1}  Expiries = {9}
    StartBalance = 0  Fee = 0  Pinned = None  Forged <- MCForged
    PageLimit = 2  Window = 2
    MaxHeight = 1  MaxLedger = 1  MaxBurns = 4  MaxFailures = 1  MaxRestarts = 1  MaxSourceRestarts = 1
INVARIANTS
    Covered AnchoredBeforeMint MintsWereLocked DoneIsOutOfReach

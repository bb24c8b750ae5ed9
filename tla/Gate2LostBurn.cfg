SPECIFICATION CampaignSpec
CONSTANTS
    Alice = Alice  Bob = Bob
    Accounts = {Alice, Bob}
    Battery = Battery  Vault = Vault  Claim = Claim
    Contracts = {Battery, Vault, Claim}
    Router = Router  BurnRouterAddress = Router  Stranger = Stranger
    SourceDomain = 0  Allowed = {0}
    MaxRelayFee = 100000000
    Recipients <- MCMuxed
    Deltas = {4}  FeeCaps = {1}  BatteryAmounts = {0, 1}  GasReserves = {1}
    MaxFee = 1  MaxBurns = 2
    InitialMoney <- MCInitialMoney
    Payees = {Bob, Vault}  Relayers = {Bob, Claim}
    Requests <- MCRequests
    MoveAmounts = {20}  SplitParts = {10, 20}
    MaxTickets = 3  MaxLedger = 1
    Bronze = 3  Silver = 5  Gold = 6
CONSTRAINT Bound
INVARIANT EveryBurnIsClaimable

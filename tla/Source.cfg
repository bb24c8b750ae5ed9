SPECIFICATION SourceSpec
CONSTANTS
    hash1 = hash1  hash2 = hash2  hash3 = hash3
    Messages <- MCMessages
    PayloadHash <- MCPayloadHash
    MaxEvents = 5
    MaxProof = 3
    Alice = Alice  Bob = Bob
    burn1 = burn1  burn2 = burn2
    Source = Source  Target = Target
    Senders = {Alice, Bob}
    LockAmounts = {0}
    Counts = {1, 2}
    UnlockRequests <- MCUnlockRequests
    MaxAmount = 3
    MaxHeight = 2
    IdMemory = 1
    MinHeights = {0, 2}
    MaxAdmitted = 2
    Clients = {Alice, Bob}
    OnLedger <- MCOnLedger
    TTL = 1
    Asked = {0, 2}
    FEE = 1
    MIN_AMOUNT = 1
    MAX_AMOUNT = 3
    LockedAmounts = {2, 3}
    PaidAmounts = {1, 2}
    Passes = {1, 2}
    MaxRecords = 2
    MaxFacts = 2
    MaxClock = 1
CONSTRAINTS Bound AnchorBound
INVARIANTS
    ReleasedMatchesBurns AttestsHonestBlocks AdmittedOnce ExactlyItsEventsProve RecordsAreBacked

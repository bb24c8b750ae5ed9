SPECIFICATION Spec
CONSTANTS
    Alice = Alice  Bob = Bob
    SourceA = SourceA  Foreign = Foreign
    EventsOne = EventsOne  EventsTwo = EventsTwo
    Accounts = {Alice, Bob}
    DeadAdmin = DeadAdmin  Gateway = Gateway
    Target = Target  Home = Home
    SourceDomains = {SourceA}  OutDomains = {Target, Foreign}
    Heights = {1, 2}
    Roots = {EventsOne, EventsTwo}
    None = None
    Messages <- MCMessages
    Leaves <- MCLeaves
    Amounts = {1}
    Expiries = {0}
    InitialBalance <- MCInitialBalance
    MaxLedger = 1
    MaxCalls = 3
    Fees = {0, 1}
INVARIANTS
    SettledInOrder MarkIsLastNonce BurnNeverReplayed
    BooksBalance
PROPERTIES
    PromiseKept

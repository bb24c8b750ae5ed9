SPECIFICATION ProvingSpec
CONSTANTS
    Scenes = {"zk"}
    Programs <- MCPrograms
    EntryFiles <- MCEntryFiles
    Immediates <- MCImmediates
    Modulus = 8
    MEMORY_WORDS = 2
    REGISTERS = 3
    FIELDS = 6
    PROGRAM_WORDS = 4
    LANE_STEPS = 6
    GatePrograms <- MCGatePrograms
    Starts = {1, 2}
    Events = {0, 1}
    FieldOrder = 3
    Poseidon2 <- MCPoseidon2
    LINES = 4
    GATE_REGISTERS = 3
    Windows = {3, 4}
    acct1 = acct1  acct2 = acct2  relayer = relayer  attester = attester
    Accounts = {acct1, acct2}
    Roles = {relayer, attester}
    Stakes = {0, 1}
    RegistryParams <- MCParams
    Conditions = {"DoubleSign"}
    MaxWord = 1
    FIXED_POINT_SCALE = 2
    MAX_SLASHING_HISTORY = 2
    MaxEpoch = 1
    HALF = 4
    BITS = 4
    Wide = 16
    P = 13
    ZkPrograms <- MCZkPrograms
    Images <- MCImages
    Seeds <- MCSeeds
    Withheld = {"Reserved"}
    GAS_LIMIT = 40
    STACK_LIMIT = 1
    Context <- MCContext
    INFERENCE_MARKER = 11
    DOMAIN_NULLIFIER = 8
    Poseidon <- MCHash
    STACK_BASE = 100
    STORAGE_BASE = 200
    Contracts <- MCContracts
    Builds <- MCBuilds
    HEAP_REG = 12
    HEAP_BASE = 4
    WORD_BYTES = 2
    FIELD = 241
    IMM_MAX = 7
    LIMB = 4
    PROFILE = "Production"
    MAX_NESTING_DEPTH = 6
    WORD_MAX = 255
    OP_BITS = 6
    REG_BITS = 4
    IMM_BITS = 10
    Hexadecimal = {200, 300}
    C_MAINNET = TRUE
    C_HALF = 16
    C_BITS = 8
    C_GAS = 2000
    C_STACK = 60
    C_MEMORY = 32
    C_Context <- MCContext
    C_MARKER = 11
    C_NULLIFIER = 8
    C_Poseidon <- MCWideHash
    HostContext <- MCContext
    HostSeeds <- MCHostSeeds
    R_HALF = 16
    R_BITS = 8
    R_GAS = 2000
    R_STACK = 60
    R_MARKER = 11
    R_NULLIFIER = 8
    R_Poseidon <- MCWideHash
    R_STACK_BASE = 100
    R_STORAGE_BASE = 200
    R_MEMORY = 8
    Trees <- MCTrees
    Strangers <- MCStrangers
    MAX_TRACE_LEN = 20
    Signatures = {1, 2, 3}
    Kinds = {"BadProof", "Replay"}
    BannedHashes = {1, 2, 3}
    MAX_ALARM_LOG_ENTRIES = 2
    MAX_QUARANTINE_ENTRIES = 2
    MaxSeq = 4
    DEPTH = 3
    AccountIds = {1, 6, 7}
    MaxWrites = 2
    MaxNested = 2
INVARIANT WitnessesAreFieldInverses
CHECK_DEADLOCK FALSE

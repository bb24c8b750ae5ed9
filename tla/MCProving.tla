----------------------------- MODULE MCProving -----------------------------
(* The machines that are proved, the relay of their proofs, and what is    *)
(* kept of provers, alarms and accounts, each in a scene of its own:       *)
(* nothing in the repository runs two of them together, so the others wait *)
(* in one fixed first state.                                               *)
EXTENDS ExecutionLane, GateVm, VerifierRegistry, ZkCompiled, AlarmLog, ZkState, ZkAir, ProofRelay, MCContracts

CONSTANT Scenes      \* the scenes played
VARIABLE scene

provingVars == <<scene, laneVars, gateVars, registryVars, zkVars, compiledVars, relayVars, alarmVars, stateVars>>

I(op, rd, rs1, rs2, imm) == [op |-> op, rd |-> rd, rs1 |-> rs1, rs2 |-> rs2, imm |-> imm]
Stop == I("Halt", 0, 0, 0, 0)

\* --- the execution lane: every three instructions behind three register files,
\* and every place of one whose fields leave the file or whose bits leave the word ---
MCImmediates == {-2, -1, 0, 1, 2}
L(op, rd, rs1, rs2, imm) == [op |-> op, rd |-> rd, rs1 |-> rs1, rs2 |-> rs2, imm |-> imm, spare |-> FALSE]
Spare(inst) == [inst EXCEPT !.spare = TRUE]
LStop == L("Halt", 0, 0, 0, 0)
MCCode == {L("Add", 1, 1, 2, 0), L("Sub", 2, 2, 1, 0), L("Mul", 1, 1, 2, 0), L("Eq", 2, 1, 2, 0),
           L("Lt", 2, 2, 1, 0), L("Load", 1, 0, 0, -1), L("Load", 2, 1, 0, -1), L("Load", 0, 2, 0, 1),
           L("Store", 0, 1, 2, 0), L("Jmp", 0, 0, 0, 2), L("Jmp", 0, 0, 0, -1), L("Jnz", 0, 2, 0, -1),
           L("Jnz", 0, 1, 0, 2), L("Assert", 0, 2, 0, 0), L("Unknown", 0, 0, 0, 0), LStop}
MCOdd == {L("Load", 1, 3, 0, 1), L("Add", 4, 1, 2, 0), L("Sub", 3, 1, 5, 0), L("Store", 0, 3, 5, 1),
          L("Jmp", 5, 0, 0, 2), Spare(L("Add", 1, 1, 2, 0)), Spare(L("Unknown", 0, 0, 0, 0)), Spare(LStop)}
MCFew == {L("Mul", 1, 1, 2, 0), L("Jnz", 0, 1, 0, 2), LStop}
MCProgram(w, x, y, z) == [s \in 0 .. 3 |-> <<w, x, y, z>>[s + 1]]
MCPrograms == {MCProgram(x, y, z, LStop) : x, y, z \in MCCode}
              \union {MCProgram(x, w, y, LStop) : x, y \in MCFew \union MCOdd, w \in MCOdd}
              \union {MCProgram(w, x, y, LStop) : x, y \in MCFew, w \in MCOdd}
MCEntryFiles == {[r \in 0 .. 2 |-> f[r + 1]] : f \in {<<0, 1, 0>>, <<0, 1, 7>>, <<0, 5, 7>>}}
LaneWaits ==
    /\ program = [s \in 0 .. 3 |-> LStop]
    /\ initial_regs = [r \in 0 .. 2 |-> <<0, 1, 0>>[r + 1]] /\ LaneInit

\* --- the gate machine: three lines and a halt, or two lines twice ------------------
G(op, a, b, c) == [op |-> op, a |-> a, b |-> b, c |-> c]
MCLines == {G("Move", 0, 0, 2), G("Add", 2, 1, 2), G("Sub", 0, 1, 0), G("Mul", 2, 1, 1),
            G("Pose", 2, 1, 2), G("AssertEq", 0, 2, 0), G("JumpNZ", 0, 0, 0),
            G("JumpNZ", 2, 2, 0), G("Halt", 0, 0, 0)}
MCGateProgram(w, x, y, z) == [l \in 0 .. 3 |-> <<w, x, y, z>>[l + 1]]
MCGatePrograms == {MCGateProgram(x, y, z, G("Halt", 0, 0, 0)) : x, y, z \in MCLines}
                  \union {MCGateProgram(x, y, x, y) : x, y \in MCLines}
MCPoseidon2 == [p \in (0 .. 2) \X (0 .. 2) |-> (p[1] + 2 * p[2] + 1) % 3]
GateWaits ==
    /\ insts = [l \in 0 .. 3 |-> G("Halt", 0, 0, 0)] /\ window = 4
    /\ GateInit /\ gate_regs = [r \in 0 .. 2 |-> IF r = 0 THEN 1 ELSE 0]

\* --- the registry: terms of one and of two, changed as it goes -----
CONSTANTS acct1, acct2, relayer, attester
MCParams == {[min_stake |-> n, unbonding_epochs |-> n, slash_ratio |-> [c \in Conditions |-> n]] : n \in {1, 2}}
\* One account takes two roles, the other one of them.
RegistryBound == registrations[<<attester, acct2>>] = [status |-> "none", stake |-> 0, release |-> 0]
RegistryWaits == params = [min_stake |-> 1, unbonding_epochs |-> 1, slash_ratio |-> [c \in Conditions |-> 1]]
                 /\ RegistryInit

\* --- the zk machine: two loads, any two instructions, a halt; and four programs ----
MCHash(a, b, c) == (3 * a * a + 5 * b + 7 * c + 2) % 13
MCContext == [sender |-> 4, height |-> 6, nonce |-> 9]
MCZkCode ==
    {I(op, 3, 1, 2, 0) : op \in {"Add", "Sub", "Mul", "Div", "And", "Eq", "Lt", "Gte", "Poseidon",
                                 "NullifierCheck", "SumConservation", "VerifyMerkle"}}
    \union {I("Inv", 1, 1, 0, 0), I("Not", 2, 2, 0, 0), I("Neq", 0, 2, 1, 0), I("Gt", 2, 3, 1, 0),
            I("Lte", 1, 1, 1, 0), I("PrivacyCommit", 3, 1, 2, -3), I("Load", 2, 1, 0, 0),
            I("Load", 3, 2, 0, 2), I("Load", 1, 3, 0, -1), I("Store", 0, 1, 2, 0),
            I("Store", 0, 2, 3, 1), I("Jmp", 0, 0, 0, 2), I("Jmp", 0, 0, 0, -2),
            I("Jnz", 0, 1, 0, 2), I("Jnz", 0, 3, 0, -1), I("Assert", 0, 1, 0, 0),
            I("Call", 0, 0, 0, 2), I("Call", 0, 0, 0, 1), I("Ret", 0, 0, 0, 0),
            I("Push", 0, 2, 0, 0), I("Pop", 1, 0, 0, 0), I("SRead", 1, 0, 0, 1),
            I("SWrite", 0, 1, 2, 1), I("SWrite", 0, 2, 1, -1), I("Log", 0, 2, 0, 0),
            I("Syscall", 1, 0, 0, 1), I("Syscall", 2, 0, 0, 2), I("Syscall", 1, 0, 0, 3),
            I("Syscall", 3, 2, 0, 6), I("Syscall", 2, 1, 0, 4), I("VerifyMerkle", 1, 2, 1, 1),
            I("VerifyInference", 1, 2, 0, 0), I("VerifyInference", 0, 1, 0, 1), Stop,
            I("Reserved", 0, 0, 0, 0)}
Lead(r, v) == I("Load", r, 0, 0, v)
MCZkPrograms ==
    {<<Lead(1, x), Lead(2, y), p, q, Stop>> : x \in {0, 5}, y \in {0, 2}, p, q \in MCZkCode}
    \union {<<I("Call", 0, 0, 0, 2), Stop, I("Ret", 0, 0, 0, 0)>>,
            <<Lead(2, 5), Lead(1, 8), I("Poseidon", 3, 2, 1, 0), I("NullifierCheck", 1, 3, 2, 0), Stop>>,
            <<Lead(1, 12), I("Push", 0, 1, 0, 0), I("SWrite", 0, 1, 0, 0), I("Pop", 2, 0, 0, 0),
              I("SRead", 3, 0, 0, 0), I("SumConservation", 3, 3, 2, 0), Stop>>,
            <<Lead(1, 5), I("SWrite", 0, 1, 0, 0), I("SWrite", 0, 1, 0, 1), I("Log", 0, 1, 0, 0),
              I("SWrite", 0, 1, 0, 2), Stop>>}
MCImages == {<<3, 1, 1, 0, 3, 2, 0, 1, 1, 2>>}
MCSeeds == {[r \in 0 .. 3 |-> IF r = 3 THEN 7 ELSE 0]}
ZkWaits == code = <<I("Call", 0, 0, 0, 2), Stop, I("Ret", 0, 0, 0, 0)>> /\ ZkInit

\* --- the compiler: its contracts on a machine with words of 16 times 16 ------------
MCWideHash(a, b, c) == (3 * a * a + 5 * b + 7 * c + 2) % 241
MCBuilds == LET built == {Built(n) : n \in DOMAIN MCContracts} IN built
CompiledWaits == contract = (CHOOSE b \in Compiled : TRUE).contract /\ CompiledInit

\* --- the relay: what may be checked out, and two programs outside the tables -------
MCHostSeeds == {[r \in 0 .. 31 |-> IF r = 2 THEN x ELSE 0] : x \in {0, 7}}
MCValues == [amount |-> 10, blinding |-> 2, recipient |-> 7, sum_in |-> 10, sum_out |-> 10, claim |-> 5, secret |-> 3]
MCTransfer(v, first, second) ==
    <<Lead(1, v.amount), Lead(2, v.blinding), I("PrivacyCommit", 4, 1, 2, v.recipient),
      Lead(5, v.sum_in), Lead(6, v.sum_out), I("SumConservation", 7, 5, 6, 0),
      Lead(8, v.claim), Lead(9, v.secret), I("NullifierCheck", 10, 8, 9, 0),
      I("Log", 0, first, 0, 0), I("Log", 0, second, 0, 0), Stop>>
MCSyscall == [i \in 1 .. 3 |-> I("Syscall", i, 0, 0, i)] \o [i \in 1 .. 3 |-> I("Log", 0, i, 0, 0)] \o <<Stop>>
MCTree(v, transfer, pin) ==
    [values |-> v, transfer |-> transfer, syscall |-> MCSyscall,
     pins |-> << <<I("VerifyMerkle", 1, 2, 3, 16), Stop>>, <<I("VerifyInference", 1, 2, 3, 0), Stop>>, pin, MCSyscall>>]
\* Sums that drifted apart, with a claim its secret derives; a pin that logs other
\* registers; a builder that logs in the other order; a transfer that cannot end; a
\* table with a pin that is no hash.
MCDrift == [MCValues EXCEPT !.sum_out = 11, !.claim = 69]
MCFlat == <<Lead(7, 1), I("Log", 0, 7, 0, 0), I("Log", 0, 5, 0, 0), Stop>>
MCSwapped == MCTransfer(MCDrift, 10, 7)
MCStuck == <<Lead(7, 1), I("Log", 0, 7, 0, 0), I("Log", 0, 7, 0, 0), I("Pop", 1, 0, 0, 0)>>
MCTrees ==
    {MCTree(v, MCTransfer(v, 7, 10), MCTransfer(v, 7, 10)) : v \in {MCValues, MCDrift}}
    \union {MCTree(MCValues, MCTransfer(MCValues, 7, 10), MCFlat), MCTree(MCValues, MCSwapped, MCSwapped),
            MCTree(MCValues, MCStuck, MCStuck),
            [MCTree(MCValues, MCTransfer(MCValues, 7, 10), MCTransfer(MCValues, 7, 10)) EXCEPT !.pins[2] = NotHex]}
MCStrangers == {<<I("Log", 0, 2, 0, 0), Stop>>}
RelayWaits == tree = MCTree(MCValues, MCStuck, MCStuck) /\ r_code = MCStuck
              /\ r_entry = [registers |-> [r \in 0 .. 31 |-> 0], memory |-> [i \in 1 .. 8 |-> 0]]
              /\ RelayInit

\* --- the log and the ledger never read one another: one of them fills --------------
AlarmSteps == AlarmNext /\ (recorded' = <<>> \/ bans' = <<>>)

ProvingInit ==
    /\ scene \in Scenes /\ AlarmInit /\ StateInit
    /\ \/ scene = "lane" /\ GateWaits /\ RegistryWaits /\ ZkWaits /\ CompiledWaits /\ RelayWaits /\ LaneInit
       \/ scene = "gate" /\ LaneWaits /\ RegistryWaits /\ ZkWaits /\ CompiledWaits /\ RelayWaits /\ GateInit
       \/ scene = "registry" /\ LaneWaits /\ GateWaits /\ ZkWaits /\ CompiledWaits /\ RelayWaits /\ RegistryInit
       \/ scene = "zk" /\ LaneWaits /\ GateWaits /\ RegistryWaits /\ CompiledWaits /\ RelayWaits /\ ZkInit
       \/ scene = "compiled" /\ LaneWaits /\ GateWaits /\ RegistryWaits /\ ZkWaits /\ RelayWaits /\ CompiledInit
       \/ scene = "relay" /\ LaneWaits /\ GateWaits /\ RegistryWaits /\ ZkWaits /\ CompiledWaits /\ RelayInit
       \/ scene \in {"alarms", "state"} /\ LaneWaits /\ GateWaits /\ RegistryWaits /\ ZkWaits /\ CompiledWaits /\ RelayWaits

ProvingNext ==
    \/ scene = "lane" /\ LaneNext
       /\ UNCHANGED <<scene, gateVars, registryVars, zkVars, compiledVars, relayVars, alarmVars, stateVars>>
    \/ scene = "gate" /\ GateNext
       /\ UNCHANGED <<scene, laneVars, registryVars, zkVars, compiledVars, relayVars, alarmVars, stateVars>>
    \/ scene = "registry" /\ RegistryNext
       /\ UNCHANGED <<scene, laneVars, gateVars, zkVars, compiledVars, relayVars, alarmVars, stateVars>>
    \/ scene = "zk" /\ ZkNext
       /\ UNCHANGED <<scene, laneVars, gateVars, registryVars, compiledVars, relayVars, alarmVars, stateVars>>
    \/ scene = "compiled" /\ CompiledNext
       /\ UNCHANGED <<scene, laneVars, gateVars, registryVars, zkVars, relayVars, alarmVars, stateVars>>
    \/ scene = "relay" /\ RelayNext
       /\ UNCHANGED <<scene, laneVars, gateVars, registryVars, zkVars, compiledVars, alarmVars, stateVars>>
    \/ scene = "alarms" /\ AlarmSteps
       /\ UNCHANGED <<scene, laneVars, gateVars, registryVars, zkVars, compiledVars, relayVars, stateVars>>
    \/ scene = "state" /\ StateNext
       /\ UNCHANGED <<scene, laneVars, gateVars, registryVars, zkVars, compiledVars, relayVars, alarmVars>>

ProvingSpec == ProvingInit /\ [][ProvingNext]_provingVars
=============================================================================

-------------------------------- MODULE ZkIsa --------------------------------
(***************************************************************************)
(* The instruction set (gate2/zkvm/zk-isa): the words instructions are     *)
(* stored as, and which of them a decoder lets through.                    *)
(***************************************************************************)
EXTENDS Integers, Sequences

CONSTANTS OP_BITS, REG_BITS, IMM_BITS        \* 8, 5 and 32 in the code

\* In the order of their numbers, from zero; "" is not assigned.
Opcodes ==
    <<"Halt", "Add", "Sub", "Mul", "Div", "Inv", "And", "", "", "Not", "Eq", "Neq", "Lt", "Gt", "Lte", "Gte",
      "Jmp", "Jnz", "Call", "Ret", "Load", "Store", "Push", "Pop", "Assert", "Poseidon", "Log", "SRead", "SWrite",
      "Syscall", "VerifyMerkle", "VerifyInference", "PrivacyCommit", "NullifierCheck", "SumConservation">>
Number(op) == (CHOOSE i \in DOMAIN Opcodes : Opcodes[i] = op) - 1

Experimental == {"VerifyMerkle"}
NeedsActivation == {"VerifyMerkle", "VerifyInference", "PrivacyCommit", "NullifierCheck", "SumConservation"}
Activated == {"PrivacyCommit", "NullifierCheck", "SumConservation"}      \* the default
Allowed(op) == op \in NeedsActivation => op \in Activated
\* On the main net the profile is always the strictest.
Refuses(op, profile, mainnet) ==
    \/ op \in Experimental /\ (mainnet \/ profile = "Production")
    \/ mainnet /\ ~Allowed(op)

\* The opcode lies in the lowest bits, then the registers, then the immediate,
\* a negative one as its two's complement.
REG == 2 ^ REG_BITS
Encode(inst) ==
    Number(inst.op) + 2 ^ OP_BITS *
        (inst.rd + REG * (inst.rs1 + REG * (inst.rs2 + REG * (inst.imm % 2 ^ IMM_BITS))))
DecodeAny(word) ==
    LET Part(at, bits) == (word \div 2 ^ at) % 2 ^ bits
        imm == Part(OP_BITS + 3 * REG_BITS, IMM_BITS)
    IN [op  |-> Opcodes[Part(0, OP_BITS) + 1],
        rd  |-> Part(OP_BITS, REG_BITS),
        rs1 |-> Part(OP_BITS + REG_BITS, REG_BITS),
        rs2 |-> Part(OP_BITS + 2 * REG_BITS, REG_BITS),
        imm |-> IF imm < 2 ^ (IMM_BITS - 1) THEN imm ELSE imm - 2 ^ IMM_BITS]
=============================================================================

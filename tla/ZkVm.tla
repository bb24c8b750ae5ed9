-------------------------------- MODULE ZkVm --------------------------------
(***************************************************************************)
(* The proving machine of gate2/zkvm (zk-vm/src/lib.rs, zk-isa): a run     *)
(* executes one instruction per step, records rows for the prover, and     *)
(* ends on a halt or on an error.  A word is a pair of digits below HALF   *)
(* (2^32 in the code), so words are below HALF^2 and the field has the     *)
(* modulus of Goldilocks, HALF^2 - HALF + 1; memory holds one digit per    *)
(* address where the code holds bytes, so that words still overlap.        *)
(***************************************************************************)
EXTENDS Integers, Sequences

CONSTANTS HALF, BITS, Wide, P,    \* HALF^2 = 2^BITS = Wide words, BITS levels of a path, modulus P
          ZkPrograms,             \* sequences of instructions
          Images, Seeds,          \* memory and registers as the host leaves them
          Withheld,               \* opcodes the decoding profile refuses
          GAS_LIMIT, STACK_LIMIT, \* 1024 words of stack in the code
          Context,                \* sender, height and nonce
          INFERENCE_MARKER, DOMAIN_NULLIFIER,
          Poseidon(_, _, _)       \* poseidon4_hash3, on field elements

VARIABLES code, entry,  \* the program, and the registers and memory it starts from
          vm            \* the fields of struct Vm
zkVars == <<code, entry, vm>>

F(x) == x % P
FieldInverse(x) == IF F(x) = 0 THEN 0 ELSE CHOOSE y \in 1 .. P - 1 : F(x * y) = 1
Flag(b) == IF b THEN 1 ELSE 0
Pow2(i) == LET Pow[j \in 0 .. BITS] == IF j = 0 THEN 1 ELSE 2 * Pow[j - 1] IN Pow[i]
BitOf(x, i) == (x \div Pow2(i)) % 2
BitAnd(x, y) ==
    LET And[i \in 0 .. BITS] ==
            IF i = 0 THEN 0 ELSE And[i - 1] + BitOf(x, i - 1) * BitOf(y, i - 1) * Pow2(i - 1)
    IN And[BITS]
ZkInstructions(regs) == [op : STRING, rd : regs, rs1 : regs, rs2 : regs, imm : Int]
ASSUME MachineAssumption ==
    /\ HALF \in Nat /\ HALF > 1 /\ BITS \in Nat
    /\ Wide = HALF * HALF /\ Wide = Pow2(BITS) /\ P = Wide - HALF + 1
    /\ \A x \in 1 .. P - 1 : \E y \in 1 .. P - 1 : F(x * y) = 1      \* P is prime
    /\ \A x, y, z \in 0 .. P - 1 : Poseidon(x, y, z) \in 0 .. P - 1
ASSUME HostAssumption ==
    /\ {Context.sender, Context.height, Context.nonce, DOMAIN_NULLIFIER} \subseteq Nat /\ Images \subseteq Seq(Nat)
    /\ \A f \in Seeds : f \in [DOMAIN f -> Nat] /\ ZkPrograms \subseteq Seq(ZkInstructions(DOMAIN f))
    /\ \A p \in ZkPrograms : \A i \in DOMAIN p : p[i].op \in {"SRead", "SWrite"} => p[i].imm \in -HALF .. HALF

Signed(x) == LET low == x % HALF IN IF low >= HALF \div 2 THEN low - HALF ELSE low

Hash2(a, b) == Poseidon(F(a), F(b), 0)
Hash3(a, b, c) == Poseidon(F(a), F(b), F(c))
Seventh(x) == LET x2 == F(x * x) IN F(F(F(x2 * x2) * x2) * x)
MerkleRound(a, b) == F(7 * Seventh(F(a + 3)) + Seventh(F(b + 5)))

WordAt(mem, a) == mem[a] + HALF * mem[a + 1]
InMemory(mem, a, words) == a >= 0 /\ a + 2 * words <= Len(mem)   \* addresses count from 0
ZkCell(mem, a) == WordAt([i \in 0 .. Len(mem) - 1 |-> mem[i + 1]], a)
PutWord(mem, a, v) == [mem EXCEPT ![a + 1] = v % HALF, ![a + 2] = v \div HALF]

(* The Merkle path at an address: its key, then one sibling per bit; and   *)
(* the accumulator before round i, from the leaf on.                       *)
Sibling(mem, path, i) == ZkCell(mem, path + 2 + 2 * i)
PathFold(mem, path, leaf) ==
    LET key == ZkCell(mem, path)
        Fold[i \in 0 .. BITS] ==
            IF i = 0 THEN leaf
            ELSE IF BitOf(key, i - 1) = 0 THEN MerkleRound(Fold[i - 1], Sibling(mem, path, i - 1))
                                          ELSE MerkleRound(Sibling(mem, path, i - 1), Fold[i - 1])
    IN Fold

GasCost(op) ==
    CASE op = "Halt" -> 0
      [] op \in {"Load", "Store"} -> 3
      [] op = "SRead" -> 8
      [] op = "SWrite" -> 12
      [] op \in {"Poseidon", "VerifyMerkle", "VerifyInference", "PrivacyCommit",
                 "NullifierCheck", "SumConservation", "Div"} -> 10
      [] op \in {"Call", "Ret", "Push", "Pop"} -> 2
      [] op = "Syscall" -> 5
      [] OTHER -> 1

Started(from) ==
    [pc |-> 0, registers |-> from.registers, stack |-> <<>>, memory |-> from.memory,
     storage |-> [s \in -HALF .. HALF |-> 0], events |-> <<>>, trace |-> <<>>,
     halted |-> FALSE, gas_used |-> 0, error |-> "none", state_writes |-> <<>>]
ZkInit ==
    /\ code \in ZkPrograms
    /\ entry \in [registers : Seeds, memory : Images]
    /\ vm = Started(entry)

Op == code[vm.pc + 1]
Src1 == vm.registers[Op.rs1]
Src2 == vm.registers[Op.rs2]

ZkRow(pc, next, inst, src1, src2, dst, sp) ==
    [pc |-> pc, next_pc |-> next, inst |-> inst, src1 |-> src1, src2 |-> src2, dst |-> dst,
     addr |-> -1, val |-> 0, write |-> FALSE, sp |-> sp, expand |-> "no",
     key |-> -1, current |-> 0, sibling |-> 0, round |-> 0, commitments |-> <<0, 0, 0>>]

\* An error ends the run: no row for the failing step, one synthetic Halt row.
Stops(error, gas) ==
    /\ vm' = [vm EXCEPT !.halted = TRUE, !.error = error, !.gas_used = gas,
                        !.registers = [vm.registers EXCEPT ![0] = 0],
                        !.trace = Append(@, ZkRow(vm.pc, vm.pc,
                                    [op |-> "Halt", rd |-> 0, rs1 |-> 0, rs2 |-> 0, imm |-> 0],
                                    0, 0, 0, Len(vm.stack)))]
    /\ UNCHANGED <<code, entry>>

BadPc == ~vm.halted /\ vm.pc >= Len(code) /\ Stops("InvalidPc", vm.gas_used)
Decoded == ~vm.halted /\ vm.pc < Len(code) /\ Op.op \notin Withheld
BadOpcode == ~vm.halted /\ vm.pc < Len(code) /\ Op.op \in Withheld /\ Stops("InvalidOpcode", vm.gas_used)

Charged == vm.gas_used + GasCost(Op.op)
OutOfGas == Decoded /\ Charged > GAS_LIMIT /\ Stops("OutOfGas", Charged)
Runs(ops) == Decoded /\ Op.op \in ops /\ Charged <= GAS_LIMIT

(* A step: the rows it pushes, where it goes, and what it leaves. Keeps is *)
(* the machine an instruction without a destination leaves, Yields writes  *)
(* rd first; r0 reads zero again before the next instruction.              *)
Own(next, dst, sp) == ZkRow(vm.pc, next, Op, Src1, Src2, dst, sp)
Keeps(rows, next) ==
    [vm EXCEPT !.pc = next, !.gas_used = Charged, !.trace = @ \o rows]
Yields(rows, v) ==
    [Keeps(rows, vm.pc + 1) EXCEPT !.registers = [@ EXCEPT ![Op.rd] = v, ![0] = 0]]
Result(v) == Yields(<<Own(vm.pc + 1, v, Len(vm.stack))>>, v)
Quiet(next) == Keeps(<<Own(next, 0, Len(vm.stack))>>, next)
Becomes(m) == vm' = m /\ UNCHANGED <<code, entry>>

HaltOp == Runs({"Halt"}) /\ Becomes([Quiet(vm.pc) EXCEPT !.halted = TRUE])

\* SumConservation refuses what the field would identify.
OpValue(op, a, b, imm) ==
    CASE op = "Add" -> F(a + b)
      [] op = "Sub" -> F(a + P - F(b))
      [] op = "Mul" -> F(a * b)
      [] op = "Div" -> F(a * FieldInverse(b))
      [] op = "Inv" -> FieldInverse(a)
      [] op = "And" -> BitAnd(a, b)
      [] op = "Not" -> Flag(a = 0)
      [] op = "Eq" -> Flag(a = b)
      [] op = "Neq" -> Flag(a # b)
      [] op = "Lt" -> Flag(a < b)
      [] op = "Gt" -> Flag(a > b)
      [] op = "Lte" -> Flag(a <= b)
      [] op = "Gte" -> Flag(a >= b)
      [] op = "Poseidon" -> Hash2(a, b)
      [] op = "PrivacyCommit" -> Hash3(a, b, imm)
      [] op = "NullifierCheck" -> Flag(Hash2(b, DOMAIN_NULLIFIER) = a)
      [] op = "SumConservation" -> Flag(a < P /\ b < P /\ a = b)
Pure == {"Add", "Sub", "Mul", "Div", "Inv", "And", "Not", "Eq", "Neq", "Lt", "Gt", "Lte", "Gte",
         "Poseidon", "PrivacyCommit", "NullifierCheck", "SumConservation"}
Compute == Runs(Pure) /\ Becomes(Result(OpValue(Op.op, Src1, Src2, Op.imm)))

LoadImm == Runs({"Load"}) /\ Op.rs1 = 0 /\ Becomes(Result(Op.imm % Wide))

Touches(m, a, v, write) ==
    LET row == [m.trace[Len(m.trace)] EXCEPT !.addr = a, !.val = v, !.write = write]
    IN [m EXCEPT !.trace[Len(m.trace)] = row]
LoadMem ==
    /\ Runs({"Load"}) /\ Op.rs1 # 0 /\ InMemory(vm.memory, Src1 + Op.imm, 1)
    /\ LET v == ZkCell(vm.memory, Src1 + Op.imm) IN Becomes(Touches(Result(v), Src1 + Op.imm, v, FALSE))
StoreMem ==
    /\ Runs({"Store"}) /\ InMemory(vm.memory, Src1 + Op.imm, 1)
    /\ Becomes([Touches(Quiet(vm.pc + 1), Src1 + Op.imm, Src2, TRUE)
                EXCEPT !.memory = PutWord(@, Src1 + Op.imm, Src2)])
BadAddress ==
    /\ Runs({"Load", "Store"}) /\ ~(Op.op = "Load" /\ Op.rs1 = 0)
    /\ ~InMemory(vm.memory, Src1 + Op.imm, 1) /\ Stops("InvalidMemoryAccess", Charged)

\* A target before the program wraps to the far end of the address space.
Aim == (vm.pc + Op.imm) % Wide
JumpOp == Runs({"Jmp", "Jnz"}) /\ Becomes(Quiet(IF Op.op = "Jmp" \/ Src1 # 0 THEN Aim ELSE vm.pc + 1))
AssertOp ==
    \/ Runs({"Assert"}) /\ Src1 # 0 /\ Becomes(Quiet(vm.pc + 1))
    \/ Runs({"Assert"}) /\ Src1 = 0 /\ Stops("AssertionFailed", Charged)

\* Call records the return address as its result without writing a register.
Grown(v, next, dst) ==
    [Keeps(<<Own(next, dst, Len(vm.stack) + 1)>>, next) EXCEPT !.stack = Append(@, v)]
StackTop == vm.stack[Len(vm.stack)]
Shrunk(m) ==
    [m EXCEPT !.stack = SubSeq(@, 1, Len(@) - 1), !.trace = [@ EXCEPT ![Len(@)].sp = Len(vm.stack) - 1]]
CallOp == Runs({"Call"}) /\ Len(vm.stack) < STACK_LIMIT /\ Becomes(Grown(vm.pc + 1, Aim, vm.pc + 1))
PushOp == Runs({"Push"}) /\ Len(vm.stack) < STACK_LIMIT /\ Becomes(Grown(Src1, vm.pc + 1, Src1))
RetOp == Runs({"Ret"}) /\ vm.stack # <<>> /\ Becomes(Shrunk(Keeps(<<Own(StackTop, StackTop, 0)>>, StackTop)))
PopOp == Runs({"Pop"}) /\ vm.stack # <<>> /\ Becomes(Shrunk(Result(StackTop)))
StackOverflow == Runs({"Call", "Push"}) /\ Len(vm.stack) >= STACK_LIMIT /\ Stops("StackOverflow", Charged)
StackUnderflow == Runs({"Ret", "Pop"}) /\ vm.stack = <<>> /\ Stops("StackUnderflow", Charged)

\* Immediate -1 takes the slot from the register, cut to a signed half word.
SlotOf(inst, src2) == IF inst.imm = -1 THEN Signed(src2) ELSE inst.imm
StorageOp ==
    LET slot == SlotOf(Op, Src2)
    IN \/ Runs({"SRead"}) /\ Becomes(Result(vm.storage[slot]))
       \/ /\ Runs({"SWrite"})
          /\ Becomes([Quiet(vm.pc + 1) EXCEPT !.storage[slot] = Src1,
                                              !.state_writes = Append(@, <<slot, Src1>>)])

LogOp == Runs({"Log"}) /\ Becomes([Quiet(vm.pc + 1) EXCEPT !.events = Append(@, Src1)])

\* The height saturates at the largest word.
Later == IF Context.height + Src1 < Wide THEN Context.height + Src1 ELSE Wide - 1
SyscallOp ==
    /\ Runs({"Syscall"})
    /\ IF Op.imm = 6
       THEN Becomes([Result(Later) EXCEPT !.events = @ \o <<INFERENCE_MARKER, Src1>>])
       ELSE Becomes(Result(CASE Op.imm = 1 -> Context.sender
                             [] Op.imm = 2 -> Context.height
                             [] Op.imm = 3 -> Context.nonce
                             [] OTHER -> 0))

(* A path check leaves its own row, which stays on the instruction, and one *)
(* row per level, the last of which moves on.  A path outside the memory    *)
(* answers no and leaves the row alone.                                     *)
PathFits == InMemory(vm.memory, Op.imm, 1 + BITS)
PathRows(dst) ==
    LET fold == PathFold(vm.memory, Op.imm, Src2)
        key == ZkCell(vm.memory, Op.imm)
        level(i) == [ZkRow(vm.pc, IF i = BITS - 1 THEN vm.pc + 1 ELSE vm.pc,
                           [op |-> "VerifyMerkle", rd |-> 0, rs1 |-> 0, rs2 |-> 0, imm |-> Op.imm],
                           0, 0, 0, Len(vm.stack))
                     EXCEPT !.addr = Op.imm + 2 + 2 * i, !.val = Sibling(vm.memory, Op.imm, i),
                            !.key = key, !.current = fold[i], !.round = i, !.expand = "merkle",
                            !.sibling = Sibling(vm.memory, Op.imm, i)]
    IN <<[Own(vm.pc, dst, Len(vm.stack))
          EXCEPT !.addr = Op.imm, !.val = key, !.key = key, !.current = fold[BITS]]>>
       \o [i \in 1 .. BITS |-> level(i - 1)]
VerifyMerkle ==
    /\ Runs({"VerifyMerkle"})
    /\ IF PathFits
       THEN LET dst == Flag(PathFold(vm.memory, Op.imm, Src2)[BITS] = Src1)
            IN Becomes(Yields(PathRows(dst), dst))
       ELSE Becomes(Result(0))

\* Three commitments at the address in rs1, and eight rows that repeat them.
VerifyInference ==
    /\ Runs({"VerifyInference"})
    /\ IF InMemory(vm.memory, Src1, 4)
       THEN LET coms == [i \in 1 .. 3 |-> ZkCell(vm.memory, Src1 + 2 * (i - 1))]
                dst == Flag(coms[3] = Hash2(coms[1], coms[2]))
                again(i) == [ZkRow(vm.pc, IF i = 7 THEN vm.pc + 1 ELSE vm.pc,
                                   [Op EXCEPT !.rd = 0, !.imm = i], Src1, Src2, 0, Len(vm.stack))
                             EXCEPT !.commitments = coms, !.round = i, !.expand = "inference"]
            IN Becomes(Yields(<<[Own(vm.pc, dst, Len(vm.stack)) EXCEPT !.commitments = coms]>>
                              \o [i \in 1 .. 8 |-> again(i - 1)], dst))
       ELSE Becomes(Result(0))

ZkNext ==
    \/ BadPc \/ BadOpcode \/ OutOfGas \/ HaltOp \/ Compute \/ LoadImm \/ LoadMem \/ StoreMem
    \/ BadAddress \/ JumpOp \/ AssertOp \/ CallOp \/ PushOp \/ RetOp \/ PopOp
    \/ StackOverflow \/ StackUnderflow \/ StorageOp \/ LogOp \/ SyscallOp
    \/ VerifyMerkle \/ VerifyInference

(* What the host is told of a finished run.  The writes are digested as a   *)
(* chain, each link taking the low limbs of the one before.                *)
WritesDigest(writes) ==
    LET Chain[i \in 0 .. Len(writes)] ==
            IF i = 0 THEN <<>> ELSE <<F(writes[i][1] % Wide), F(writes[i][2]), Chain[i - 1]>>
    IN Chain[Len(writes)]
RunReceipt ==
    [gas_used |-> vm.gas_used, exit_code |-> Flag(vm.error # "none"), events |-> vm.events,
     trace_len |-> Len(vm.trace), writes |-> WritesDigest(vm.state_writes)]
=============================================================================

---------------------------- MODULE ExecutionVm ----------------------------
(***************************************************************************)
(* The register machine of crates/execution_vm (vm.rs, isa.rs, trace.rs):  *)
(* a run executes one instruction per step, writes one row per executed    *)
(* instruction, and ends with a halt, a refusal or an exhausted step       *)
(* limit.  A program is one slot per word, an instruction is a decoded     *)
(* word; words are integers below Modulus (2^64 in the code), registers    *)
(* and slots count from zero.                                              *)
(***************************************************************************)
EXTENDS Integers, Sequences

CONSTANTS Programs,        \* the committed programs, functions from slots to instructions
          EntryFiles,      \* the register files a run may start with
          Modulus,         \* one more than the largest word
          MEMORY_WORDS, REGISTERS, PROGRAM_WORDS, LANE_STEPS,
          FIELDS,          \* the values a register field of a word takes
          Immediates       \* the immediates instructions carry

ASSUME ModulusAssumption == Modulus \in Nat /\ Modulus > 1
ASSUME SizesAssumption ==
    /\ MEMORY_WORDS \in Nat \ {0} /\ REGISTERS \in Nat \ {0}
    /\ PROGRAM_WORDS \in Nat \ {0} /\ LANE_STEPS \in Nat \ {0}

\* A field has room for more than the file holds: five bits beside eight registers.
ASSUME FieldsAssumption == FIELDS \in Nat /\ REGISTERS <= FIELDS

\* An immediate is far smaller than a word (32 bits beside 64): added to an
\* address or a slot it never wraps back into the memory or the program.
ASSUME ImmediatesAssumption ==
    /\ Immediates \subseteq Int /\ MEMORY_WORDS < Modulus
    /\ \A imm \in Immediates :
        /\ imm < Modulus - PROGRAM_WORDS /\ imm + Modulus >= PROGRAM_WORDS
        /\ (Modulus \div 2) + imm >= MEMORY_WORDS

Words == 0 .. Modulus - 1
Registers == 0 .. REGISTERS - 1
Slots == 0 .. PROGRAM_WORDS - 1
Cells == 0 .. MEMORY_WORDS - 1
Files == {file \in [Registers -> Words] : file[0] = 0}
Opcodes == {"Halt", "Add", "Sub", "Mul", "Eq", "Lt", "Jmp", "Jnz", "Load", "Store", "Assert"}
Fields == 0 .. FIELDS - 1
\* A word of another opcode does not decode; spare: one of the bits above the
\* immediate is set, which decoding drops.
Instructions == [op : Opcodes \cup {"Unknown"}, rd : Fields, rs1 : Fields, rs2 : Fields,
                 imm : Immediates, spare : BOOLEAN]

ASSUME ProgramsAssumption == Programs \subseteq [Slots -> Instructions]
ASSUME EntryFilesAssumption == EntryFiles \subseteq Files

VARIABLES program, initial_regs, pc, registers, memory, trace, gas_used,
          halted, outcome     \* outcome: what the call of run has returned
vmVars == <<program, initial_regs, pc, registers, memory, trace, gas_used, halted, outcome>>

Gas(op) == CASE op = "Halt" -> 0 [] op \in {"Load", "Store"} -> 3 [] OTHER -> 1
Writing == {"Add", "Sub", "Mul", "Eq", "Lt", "Load"}
Bit(b) == IF b THEN 1 ELSE 0

VmInit ==
    /\ program \in Programs /\ initial_regs \in EntryFiles
    /\ registers = initial_regs /\ memory = [a \in Cells |-> 0]
    /\ pc = 0 /\ trace = <<>> /\ gas_used = 0 /\ halted = FALSE /\ outcome = "running"

\* The machine reduces a field to a register of its file.
Index(field) == field % REGISTERS

Inst == program[pc]
Rs1 == registers[Index(Inst.rs1)]
Rs2 == registers[Index(Inst.rs2)]

\* word_address: the value has to fit a signed word, the sum the memory.
Address(value, imm) == value + imm
Addressable(value, imm) == value < Modulus \div 2 /\ Address(value, imm) \in Cells

\* Targets are unsigned: a jump to before the first slot wraps to a huge one.
Target(imm) == (pc + imm) % Modulus

\* A step runs while the machine is not halted and below the step limit, on an
\* instruction fetched from inside the program.
Fetches(ops) ==
    /\ outcome = "running" /\ ~halted /\ Len(trace) < LANE_STEPS
    /\ pc \in Slots /\ Inst.op \in ops

(* The row pushed by an instruction, and the state it leaves: result goes to *)
(* rd when the opcode has one, event is the memory event of the row.         *)
Row(result, next, addr, val, write, file) ==
    [clk |-> Len(trace), pc |-> pc, inst |-> Inst, rs1_val |-> Rs1, rs2_val |-> Rs2,
     rd_val_new |-> result, next_pc |-> next, mem_addr |-> addr, mem_val |-> val,
     is_mem_write |-> write, regs |-> file]

Written(result) == [registers EXCEPT ![Index(Inst.rd)] = result, ![0] = 0]

Executed(row) ==
    /\ trace' = Append(trace, row)
    /\ registers' = row.regs /\ pc' = row.next_pc
    /\ gas_used' = gas_used + Gas(Inst.op)
    /\ UNCHANGED <<program, initial_regs>>

Goes(result, next) ==
    /\ Executed(Row(result, next, 0, 0, FALSE,
                    IF Inst.op \in Writing THEN Written(result) ELSE registers))
    /\ UNCHANGED <<memory, halted, outcome>>

\* Halt: the run has ended well, and the counter stays where it is.
Halt ==
    /\ Fetches({"Halt"})
    /\ Executed(Row(0, pc, 0, 0, FALSE, registers))
    /\ halted' = TRUE /\ outcome' = "ok" /\ UNCHANGED memory

\* Arithmetic wraps, comparisons produce a bit.
Computed(op, a, b) ==
    CASE op = "Add" -> (a + b) % Modulus
      [] op = "Sub" -> (a - b) % Modulus
      [] op = "Mul" -> (a * b) % Modulus
      [] op = "Eq" -> Bit(a = b)
      [] op = "Lt" -> Bit(a < b)

Alu ==
    /\ Fetches({"Add", "Sub", "Mul", "Eq", "Lt"})
    /\ Goes(Computed(Inst.op, Rs1, Rs2), pc + 1)

\* A load whose field names r0 is the immediate form: it touches no memory.  The
\* field is looked at before it is reduced.
LoadImmediate ==
    /\ Fetches({"Load"}) /\ Inst.rs1 = 0
    /\ Goes(Inst.imm % Modulus, pc + 1)

LoadWord ==
    /\ Fetches({"Load"}) /\ Inst.rs1 # 0 /\ Addressable(Rs1, Inst.imm)
    /\ LET addr == Address(Rs1, Inst.imm)
       IN Executed(Row(memory[addr], pc + 1, addr, memory[addr], FALSE, Written(memory[addr])))
    /\ UNCHANGED <<memory, halted, outcome>>

Store ==
    /\ Fetches({"Store"}) /\ Addressable(Rs1, Inst.imm)
    /\ LET addr == Address(Rs1, Inst.imm)
       IN /\ memory' = [memory EXCEPT ![addr] = Rs2]
          /\ Executed(Row(0, pc + 1, addr, Rs2, TRUE, registers))
    /\ UNCHANGED <<halted, outcome>>

Jump ==
    /\ Fetches({"Jmp", "Jnz"})
    /\ Goes(0, IF Inst.op = "Jmp" \/ Rs1 # 0 THEN Target(Inst.imm) ELSE pc + 1)

Assert == Fetches({"Assert"}) /\ Rs1 # 0 /\ Goes(0, pc + 1)

(* The refusals.  None pushes a row.  An assertion, a word that does not decode *)
(* and a counter outside the program halt the machine; a bad address does    *)
(* not, and its gas is charged.                                              *)
Refused(error, halts, gas) ==
    /\ outcome' = error /\ halted' = halts /\ gas_used' = gas_used + gas
    /\ UNCHANGED <<program, initial_regs, pc, registers, memory, trace>>

AssertionFailed == Fetches({"Assert"}) /\ Rs1 = 0 /\ Refused("AssertionFailed", TRUE, Gas("Assert"))

InvalidMemoryAccess ==
    /\ \/ Fetches({"Load"}) /\ Inst.rs1 # 0
       \/ Fetches({"Store"})
    /\ ~Addressable(Rs1, Inst.imm)
    /\ Refused("InvalidMemoryAccess", FALSE, Gas(Inst.op))

InvalidPc ==
    /\ outcome = "running" /\ Len(trace) < LANE_STEPS /\ pc \notin Slots
    /\ Refused("InvalidPc", TRUE, 0)

InvalidOpcode == Fetches({"Unknown"}) /\ Refused("InvalidOpcode", TRUE, 0)

StepLimitExceeded ==
    /\ outcome = "running" /\ ~halted /\ Len(trace) >= LANE_STEPS
    /\ Refused("StepLimitExceeded", FALSE, 0)

VmNext ==
    \/ Halt \/ Alu \/ LoadImmediate \/ LoadWord \/ Store \/ Jump \/ Assert
    \/ AssertionFailed \/ InvalidMemoryAccess \/ InvalidPc \/ InvalidOpcode \/ StepLimitExceeded
=============================================================================

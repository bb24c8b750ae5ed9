--------------------------- MODULE ExecutionLane ---------------------------
(***************************************************************************)
(* What is proved of a run of ExecutionVm: the relation on traces, written *)
(* twice, in Rust (constraints.rs, lane.rs) and as the constraints of      *)
(* circuits/execution_trace.circom, and a prover who offers rows of his    *)
(* own.  The run goes first; then rows are claimed one at a time, any row  *)
(* at all that the judge accepts behind the ones before it.  Every number  *)
(* of the circuit is far below the order of its field, so its equations    *)
(* are equations of integers.                                              *)
(***************************************************************************)
EXTENDS ExecutionVm, Sums

VARIABLE claims            \* the rows claimed and accepted so far
laneVars == <<vmVars, claims>>

\* A row finds the registers the row before it names, and the memory the
\* stores before it left: both judges carry them forward themselves.
FileBefore(rows, i) == IF i = 1 THEN initial_regs ELSE rows[i - 1].regs
StoresTo(rows, i, a) == {k \in 1 .. i - 1 : rows[k].is_mem_write /\ rows[k].mem_addr = a}
MemoryBefore(rows, i) ==
    [a \in Cells |-> IF StoresTo(rows, i, a) = {} THEN 0 ELSE rows[Max(StoresTo(rows, i, a))].rs2_val]

\* The machine reduces a field to a register, neither judge does: the checker wants
\* the row's fields inside the file, and the circuit selects one of its registers.
InsideFile(inst) == {inst.rd, inst.rs1, inst.rs2} \subseteq Registers

\* The circuit's decode equation has no term for the bits above the immediate.
Encodable(inst) == InsideFile(inst) /\ ~inst.spare

Reads(inst, file, a, b) == a = file[inst.rs1] /\ b = file[inst.rs2]
TouchesMemory(inst) == inst.op = "Store" \/ (inst.op = "Load" /\ inst.rs1 # 0)
Jumps(inst, a) == inst.op = "Jmp" \/ (inst.op = "Jnz" /\ a # 0)

\* --- constraints.rs: check_trace ---------------------------------------------
CheckedEvent(inst, mem, a, b, addr, val, write) ==
    IF TouchesMemory(inst)
    THEN /\ a + inst.imm \in Cells /\ addr = a + inst.imm
         /\ val = IF inst.op = "Store" THEN b ELSE mem[addr]
         /\ write = (inst.op = "Store")
    ELSE addr = 0 /\ val = 0 /\ ~write

ExpectedResult(inst, a, b, val) ==
    CASE inst.op \notin Writing -> 0
      [] inst.op = "Load" -> IF inst.rs1 = 0 THEN inst.imm % Modulus ELSE val
      [] OTHER -> Computed(inst.op, a, b)

ExpectedNext(inst, slot, a) ==
    CASE inst.op = "Halt" -> slot
      [] Jumps(inst, a) -> (slot + inst.imm) % Modulus
      [] OTHER -> slot + 1

ExpectedFile(inst, file, result) ==
    [IF inst.op \in Writing THEN [file EXCEPT ![inst.rd] = result] ELSE file EXCEPT ![0] = 0]

\* The first row starts where the run does; later rows only stay in the program.
CheckedPc(rows, i, slot) == slot \in Slots /\ (i = 1 => slot = 0)

CheckedRow(rows, i) ==
    LET row == rows[i]  inst == row.inst  a == row.rs1_val  file == FileBefore(rows, i)
    IN /\ row.clk = i - 1 /\ CheckedPc(rows, i, row.pc) /\ inst = program[row.pc]
       /\ inst.op \in Opcodes
       /\ InsideFile(inst) /\ Reads(inst, file, a, row.rs2_val)
       /\ CheckedEvent(inst, MemoryBefore(rows, i), a, row.rs2_val,
                       row.mem_addr, row.mem_val, row.is_mem_write)
       /\ row.rd_val_new = ExpectedResult(inst, a, row.rs2_val, row.mem_val)
       /\ row.next_pc = ExpectedNext(inst, row.pc, a)
       /\ row.regs = ExpectedFile(inst, file, row.rd_val_new)

CheckTrace(rows) ==
    /\ rows # <<>> /\ \A i \in 1 .. Len(rows) : CheckedRow(rows, i)
    /\ rows[Len(rows)].inst.op = "Halt"

\* --- lane.rs ------------------------------------------------------------------
\* Mutant: the halt's row as it is.
PadCopied(rows, steps) == [i \in 1 .. steps |-> rows[IF i <= Len(rows) THEN i ELSE Len(rows)]]

\* The halt repeated up to the lane's length, the clock going on.
PadTo(rows, steps) ==
    [i \in 1 .. steps |-> IF i <= Len(rows) THEN rows[i]
                          ELSE [rows[Len(rows)] EXCEPT !.clk = i - 1]]

HaltsFrom(rows, n) == \A i \in 1 .. Len(rows) : (rows[i].inst.op = "Halt") = (i >= n)

GasOf(rows) == SumOf([i \in DOMAIN rows |-> Gas(rows[i].inst.op)], DOMAIN rows)

\* The statement publishes the steps up to the halt, the gas and the last pc.  Every
\* word of the program is looked at, those that never run too.
CheckLaneTrace(rows, steps_executed, gas, final_pc) ==
    /\ \A slot \in Slots : ~program[slot].spare
    /\ Len(rows) = LANE_STEPS /\ CheckTrace(rows)
    /\ steps_executed \in 1 .. LANE_STEPS /\ HaltsFrom(rows, steps_executed)
    /\ \A i \in steps_executed .. LANE_STEPS : \A halt \in {rows[steps_executed]} :
        rows[i].pc = halt.pc /\ rows[i].regs = halt.regs /\ rows[i].next_pc = halt.next_pc
    /\ rows[LANE_STEPS].next_pc = final_pc /\ GasOf(rows) = gas

\* --- execution_trace.circom ---------------------------------------------------
\* Mutant: a signal nobody decomposes.
Unchecked(x) == TRUE

\* Carries and quotient are the prover's to choose; the range checks of the
\* result and of the quotient leave him one choice.
InRange(x) == x \in Words
AddTerm(a, b, result) == \E carry \in {0, 1} : result = a + b - Modulus * carry
SubTerm(a, b, result) == \E carry \in {0, 1} : result = a - b + Modulus * carry
MulTerm(a, b, result) ==
    \E quotient \in 0 .. Modulus - 1 : InRange(quotient) /\ result = a * b - Modulus * quotient
\* The top bit of a - b plus the modulus, a number of one bit more than a word.
TopBit(a, b) == (a - b + Modulus) \div Modulus
Immediate(imm) == imm + Bit(imm < 0) * Modulus

ResultTerm(inst, a, b, val, result) ==
    CASE inst.op = "Add" -> AddTerm(a, b, result)
      [] inst.op = "Sub" -> SubTerm(a, b, result)
      [] inst.op = "Mul" -> MulTerm(a, b, result)
      [] inst.op = "Eq" -> result = Bit(a - b = 0)
      [] inst.op = "Lt" -> result = 1 - TopBit(a, b)
      [] inst.op = "Load" -> result = IF inst.rs1 = 0 THEN Immediate(inst.imm) ELSE val
      [] OTHER -> result = 0

AssertHolds(inst, a) == inst.op = "Assert" => a # 0

MemoryEvent(inst, mem, a, b, addr, val, write) ==
    /\ write = (inst.op = "Store")
    /\ TouchesMemory(inst) => addr \in Cells /\ addr = a + inst.imm
    /\ ~TouchesMemory(inst) => addr = 0 /\ val = 0
    /\ TouchesMemory(inst) /\ inst.op = "Load" => val = mem[addr]
    /\ inst.op = "Store" => val = b

NextPc(inst, slot, a) ==
    CASE inst.op = "Halt" -> slot
      [] Jumps(inst, a) -> slot + inst.imm
      [] OTHER -> slot + 1

RegsNext(inst, file, result) ==
    [k \in Registers |-> IF k = 0 THEN 0
                         ELSE IF inst.op \in Writing /\ k = inst.rd THEN result ELSE file[k]]

\* pc[0] === 0 and pc[i+1] === next_pc[i].
PcChain(rows, i, slot) == slot \in Slots /\ slot = IF i = 1 THEN 0 ELSE rows[i - 1].next_pc

\* Once a row halts every later one does: padding only follows the last active row.
HaltPattern(rows, i, inst) == i > 1 /\ rows[i - 1].inst.op = "Halt" => inst.op = "Halt"

CircuitRow(rows, i) ==
    LET row == rows[i]  inst == row.inst  a == row.rs1_val  file == FileBefore(rows, i)
    IN /\ row.clk = i - 1 /\ PcChain(rows, i, row.pc) /\ inst = program[row.pc]
       /\ inst.op \in Opcodes
       /\ HaltPattern(rows, i, inst)
       /\ Encodable(inst) /\ Reads(inst, file, a, row.rs2_val) /\ AssertHolds(inst, a)
       /\ MemoryEvent(inst, MemoryBefore(rows, i), a, row.rs2_val,
                      row.mem_addr, row.mem_val, row.is_mem_write)
       /\ InRange(row.rd_val_new)
       /\ ResultTerm(inst, a, row.rs2_val, row.mem_val, row.rd_val_new)
       /\ row.next_pc = NextPc(inst, row.pc, a)
       /\ row.regs = RegsNext(inst, file, row.rd_val_new)

\* The last row halts, the active rows are counted, the gas is the rows' own.
CircuitEnd(rows, steps_executed, gas, final_pc) ==
    /\ Len(rows) = LANE_STEPS /\ steps_executed \in 1 .. LANE_STEPS
    /\ HaltsFrom(rows, steps_executed)
    /\ rows[LANE_STEPS].next_pc = final_pc /\ GasOf(rows) = gas

\* --- a prover with rows of his own -----------------------------------------------
LaneInit == VmInit /\ claims = <<>>
LaneStep == VmNext /\ UNCHANGED claims
MayClaim == outcome # "running" /\ Len(claims) < LANE_STEPS /\ UNCHANGED vmVars

ClaimedRow(i, slot, a, b, result, next, addr, val, write, file) ==
    [clk |-> i - 1, pc |-> slot, inst |-> program[slot], rs1_val |-> a, rs2_val |-> b,
     rd_val_new |-> result, next_pc |-> next, mem_addr |-> addr, mem_val |-> val,
     is_mem_write |-> write, regs |-> file]

ClaimToCircuit ==
    /\ MayClaim
    /\ LET i == Len(claims) + 1 IN
       \E slot \in Slots, a, b \in Words :
         LET inst == program[slot]  file == FileBefore(claims, i) IN
         /\ PcChain(claims, i, slot) /\ inst.op \in Opcodes /\ HaltPattern(claims, i, inst)
         /\ Encodable(inst) /\ Reads(inst, file, a, b) /\ AssertHolds(inst, a)
         /\ \E addr \in Cells, val \in Words, write \in BOOLEAN :
            /\ MemoryEvent(inst, MemoryBefore(claims, i), a, b, addr, val, write)
            /\ \E result \in -Modulus .. Modulus * Modulus :
               /\ InRange(result) /\ ResultTerm(inst, a, b, val, result)
               /\ claims' = Append(claims,
                    ClaimedRow(i, slot, a, b, result, NextPc(inst, slot, a), addr, val, write,
                               RegsNext(inst, file, result)))

LaneNext == LaneStep \/ ClaimToCircuit
LaneSpec == LaneInit /\ [][LaneNext]_laneVars

\* Which of the runs that end with a halt are provable.  Padded, and under the
\* statement it publishes, a run passes the checker and the lane's conditions if and
\* only if the words it executed name registers of the file and no word of the
\* program has a bit above the immediate; it passes the circuit if and only if both
\* hold of the words it executed.  The machine itself runs the other words: it
\* reduces the field and drops the bit (isa.rs decode, vm.rs step).
RunsAreProvable ==
    outcome = "ok" =>
        LET padded == PadTo(trace, LANE_STEPS)
            executed == {trace[i].inst : i \in DOMAIN trace}
        IN /\ CheckLaneTrace(padded, Len(trace), gas_used, pc)
                <=> /\ \A inst \in executed : InsideFile(inst)
                    /\ \A slot \in Slots : ~program[slot].spare
           /\ (\A i \in 1 .. LANE_STEPS : CircuitRow(padded, i))
                    /\ CircuitEnd(padded, Len(trace), gas_used, pc)
                <=> \A inst \in executed : Encodable(inst)

\* What the circuit accepts is the run: rows that satisfy its constraints to the
\* end are the machine's own, padded, and the machine did halt; so no choice of
\* carries and quotients proves another result, another gas or a refused run.
ProofsAreRuns ==
    \A n \in 1 .. LANE_STEPS, final_pc \in Slots :
        CircuitEnd(claims, n, GasOf(claims), final_pc) =>
            /\ outcome = "ok" /\ claims = PadTo(trace, LANE_STEPS)
            /\ n = Len(trace) /\ GasOf(claims) = gas_used /\ final_pc = pc
=============================================================================

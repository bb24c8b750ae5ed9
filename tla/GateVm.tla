------------------------------- MODULE GateVm -------------------------------
(***************************************************************************)
(* The field machine of crates/gate_vm (vm.rs, isa.rs) and the circuit     *)
(* that proves its runs (circuits/gate_vm_core.circom), with a prover who  *)
(* offers any rows at all.  A run fills a window of rows, each the state   *)
(* at its start; a halted machine keeps repeating its row.  The fold over  *)
(* the program's cells is a commitment: the prover's program is the one    *)
(* the run has.                                                            *)
(***************************************************************************)
EXTENDS Integers, Sequences, FiniteSets

CONSTANTS GatePrograms,    \* functions from lines to instructions
          Starts, Events,  \* the two public inputs a run may begin with
          FieldOrder,      \* the order of the field, a prime
          Poseidon2,        \* the hash, a function of two field elements
          LINES, GATE_REGISTERS, Windows

ASSUME FieldAssumption == FieldOrder \in Nat /\ FieldOrder > 2 /\ LINES \in Nat \ {0}

Field == 0 .. FieldOrder - 1
Lines == 0 .. LINES - 1
GateRegisters == 0 .. GATE_REGISTERS - 1

ASSUME GateSizes ==
    /\ GATE_REGISTERS \in Nat /\ GATE_REGISTERS >= 3
    /\ Windows \subseteq 1 .. LINES /\ Starts \subseteq Field /\ Events \subseteq Field
ASSUME PoseidonAssumption == Poseidon2 \in [Field \X Field -> Field]

\* The fields of a cell have three bits: none names a register there is not.
WritingOps == {"Move", "Add", "Sub", "Mul", "Pose"}
GateInstructions == [op : WritingOps \cup {"AssertEq", "JumpNZ", "Halt"},
                     a : GateRegisters, b : GateRegisters, c : GateRegisters]
ASSUME GateProgramsAssumption == GatePrograms \subseteq [Lines -> GateInstructions]

VARIABLES insts, window, gate_pc, gate_regs, gate_halted,
          steps,        \* the rows of the run
          hash_steps,
          receipt,      \* what run has returned
          witness       \* the rows the circuit has been offered and takes
gateVars == <<insts, window, gate_pc, gate_regs, gate_halted, steps, hash_steps, receipt, witness>>

GateRow(pc, file, halted) == [pc |-> pc, regs |-> file, halted |-> halted]

\* --- vm.rs ----------------------------------------------------------------------
GateInit ==
    /\ insts \in GatePrograms /\ window \in Windows
    /\ \E start \in Starts, event \in Events :
        gate_regs = [r \in GateRegisters |-> IF r = 0 THEN start ELSE IF r = 1 THEN event ELSE 0]
    /\ gate_pc = 0 /\ gate_halted = FALSE /\ steps = <<>> /\ hash_steps = 0
    /\ receipt = "running" /\ witness = <<>>

Line == insts[gate_pc]
ValA == gate_regs[Line.a]
ValB == gate_regs[Line.b]

\* Every iteration pushes the row it starts from.
Iterates ==
    /\ receipt = "running" /\ Len(steps) < window
    /\ steps' = Append(steps, GateRow(gate_pc, gate_regs, gate_halted))
    /\ UNCHANGED <<insts, window, witness>>
Fetched(ops) == Iterates /\ ~gate_halted /\ gate_pc \in Lines /\ Line.op \in ops

Frozen == Iterates /\ gate_halted /\ UNCHANGED <<gate_pc, gate_regs, gate_halted, hash_steps, receipt>>

Outcome(op, a, b) ==
    CASE op = "Move" -> a
      [] op = "Add" -> (a + b) % FieldOrder
      [] op = "Sub" -> (a - b) % FieldOrder
      [] op = "Mul" -> (a * b) % FieldOrder
      [] op = "Pose" -> Poseidon2[<<a, b>>]

WriteLine ==
    /\ Fetched(WritingOps)
    /\ gate_regs' = [gate_regs EXCEPT ![Line.c] = Outcome(Line.op, ValA, ValB)]
    /\ hash_steps' = IF Line.op = "Pose" THEN hash_steps + 1 ELSE hash_steps
    /\ gate_pc' = gate_pc + 1 /\ UNCHANGED <<gate_halted, receipt>>

AssertEq ==
    /\ Fetched({"AssertEq"})
    /\ IF ValA = ValB THEN gate_pc' = gate_pc + 1 /\ UNCHANGED receipt
       ELSE receipt' = "AssertionFailed" /\ UNCHANGED gate_pc
    /\ UNCHANGED <<gate_regs, gate_halted, hash_steps>>

JumpNZ ==
    /\ Fetched({"JumpNZ"})
    /\ gate_pc' = IF ValA = 0 THEN gate_pc + 1 ELSE Line.b
    /\ UNCHANGED <<gate_regs, gate_halted, hash_steps, receipt>>

HaltLine ==
    /\ Fetched({"Halt"}) /\ gate_halted' = TRUE
    /\ UNCHANGED <<gate_pc, gate_regs, hash_steps, receipt>>

\* A counter past the last line, and a window that ends before the halt.
NoHalt ==
    /\ \/ Iterates /\ ~gate_halted /\ gate_pc \notin Lines
       \/ /\ receipt = "running" /\ Len(steps) = window /\ ~gate_halted
          /\ UNCHANGED <<insts, window, witness, steps>>
    /\ receipt' = "NoHalt" /\ UNCHANGED <<gate_pc, gate_regs, gate_halted, hash_steps>>

Receipt ==
    /\ receipt = "running" /\ Len(steps) = window /\ gate_halted
    /\ receipt' = "ok"
    /\ UNCHANGED <<insts, window, gate_pc, gate_regs, gate_halted, steps, hash_steps, witness>>

GateRun ==
    Frozen \/ WriteLine \/ AssertEq \/ JumpNZ \/ HaltLine \/ NoHalt \/ Receipt

\* --- gate_vm_core.circom -----------------------------------------------------------
\* Every signal is a function of the row and of the cell its counter selects.
Cell(row) == insts[row.pc]
InA(row) == row.regs[Cell(row).a]
InB(row) == row.regs[Cell(row).b]

NextVal(row) ==
    IF Cell(row).op \in WritingOps /\ ~row.halted
    THEN [row.regs EXCEPT ![Cell(row).c] = Outcome(Cell(row).op, InA(row), InB(row))]
    ELSE row.regs
HaltedNext(row) == row.halted \/ Cell(row).op = "Halt"
JnzTaken(row) == Cell(row).op = "JumpNZ" /\ InA(row) # 0 /\ ~row.halted
\* Mutant: a halted machine walks on.
PcNextUnfrozen(row) == IF JnzTaken(row) THEN Cell(row).b ELSE row.pc + 1

PcNext(row) ==
    IF HaltedNext(row) THEN row.pc ELSE IF JnzTaken(row) THEN Cell(row).b ELSE row.pc + 1
AssertsHold(row) == Cell(row).op = "AssertEq" /\ ~row.halted => InA(row) = InB(row)

\* The constraints on one row alone, on two that follow one another, on the
\* first and on the last.
RowHolds(row) == row.pc \in Lines /\ AssertsHold(row)
RowFollows(row, next) == next = GateRow(PcNext(row), NextVal(row), HaltedNext(row))
FirstRow(start, event, row) ==
    row = GateRow(0, [r \in GateRegisters |-> IF r = 0 THEN start ELSE IF r = 1 THEN event ELSE 0], FALSE)
LastRow(row) == HaltedNext(row)

\* The two outputs: derived from the rows, never declared.
EndRoot(rows) == NextVal(rows[LINES])[2]
HashCount(rows) ==
    Cardinality({t \in DOMAIN rows : Cell(rows[t]).op = "Pose" /\ ~rows[t].halted})

Satisfies(rows) ==
    /\ Len(rows) = LINES
    /\ \A t \in 1 .. LINES : RowHolds(rows[t]) /\ (t > 1 => RowFollows(rows[t - 1], rows[t]))
    /\ \E start \in Starts, event \in Events : FirstRow(start, event, rows[1])
    /\ LastRow(rows[LINES])

\* Any row that satisfies the constraints behind the rows before it.
OfferRow ==
    /\ receipt # "running" /\ Len(witness) < LINES
    /\ \E file \in [GateRegisters -> Field], pc \in Lines, halted \in BOOLEAN :
        LET row == GateRow(pc, file, halted) IN
        /\ IF witness = <<>> THEN FirstRow(steps[1].regs[0], steps[1].regs[1], row)
           ELSE RowFollows(witness[Len(witness)], row)
        /\ RowHolds(row)
        /\ Len(witness) = LINES - 1 => LastRow(row)
        /\ witness' = Append(witness, row)
    /\ UNCHANGED <<insts, window, gate_pc, gate_regs, gate_halted, steps, hash_steps, receipt>>

GateNext == GateRun \/ OfferRow
GateSpec == GateInit /\ [][GateNext]_gateVars

\* The proof says what the run did: with a full window a run that halts satisfies
\* the circuit, and any rows that satisfy it are those of a run that halted, so
\* the published end root and number of hash steps are the receipt's.
GateProofsAreRuns ==
    /\ receipt = "ok" /\ window = LINES =>
        Satisfies(steps) /\ EndRoot(steps) = gate_regs[2] /\ HashCount(steps) = hash_steps
    /\ Len(witness) = LINES =>
        /\ receipt # "AssertionFailed"
        /\ \A t \in 1 .. Len(steps) : witness[t] = steps[t]
        /\ window = LINES => receipt = "ok" /\ HashCount(witness) = hash_steps
=============================================================================

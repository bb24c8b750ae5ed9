--------------------------- MODULE MachineProofs ---------------------------
(***************************************************************************)
(* The gate machine and its circuit, and the execution machine with its    *)
(* checker and circuit, for any program, window and sizes: what a run has  *)
(* written the judges accept, and what the circuit accepts is that run.    *)
(* Both directions rest on the same fact, that a row and the rows before   *)
(* it leave one choice for the next.                                       *)
(***************************************************************************)
EXTENDS GateVm, ExecutionLane, ZkAir, SumTheorems

-----------------------------------------------------------------------------
(* The gate machine.                                                       *)

GateRows == [pc : Nat, regs : [GateRegisters -> Field], halted : BOOLEAN]
Current == GateRow(gate_pc, gate_regs, gate_halted)

GateTypeOK ==
    /\ insts \in [Lines -> GateInstructions] /\ window \in Windows
    /\ Current \in GateRows
    /\ steps \in Seq(GateRows) /\ witness \in Seq(GateRows)
    /\ Len(steps) <= window /\ Len(witness) <= LINES
    /\ receipt \in {"running", "ok", "AssertionFailed", "NoHalt"}

\* Rows that follow one another from a first row, all accepted but perhaps the last.
Chained(rows, n) ==
    /\ \A t \in 1 .. n : RowHolds(rows[t])
    /\ \A t \in 2 .. Len(rows) : RowFollows(rows[t - 1], rows[t])

Entered(row) == \E start \in Starts, event \in Events : FirstRow(start, event, row)

\* The rows of the run, and how the last one leads to where the machine is.
RunInv ==
    /\ steps = <<>> => Entered(Current) /\ ~gate_halted
    /\ steps # <<>> => Entered(steps[1])
    /\ gate_halted => gate_pc \in Lines
    /\ receipt # "running" => steps # <<>>
    /\ receipt \in {"running", "ok"} =>
         /\ Chained(steps, Len(steps)) /\ hash_steps = HashCount(steps)
         /\ steps # <<>> => RowFollows(steps[Len(steps)], Current)
    /\ receipt = "ok" => Len(steps) = window /\ gate_halted
    /\ receipt = "AssertionFailed" =>
         /\ Chained(steps, Len(steps) - 1)
         /\ ~AssertsHold(steps[Len(steps)])
    /\ receipt = "NoHalt" =>
         /\ Chained(steps, Len(steps) - 1)
         /\ \/ steps[Len(steps)].pc \notin Lines
            \/ Len(steps) = window /\ ~HaltedNext(steps[Len(steps)])

\* The rows offered so far are accepted, and are the run's own as far as it went.
WitnessInv ==
    /\ witness # <<>> => receipt # "running"
    /\ Chained(witness, Len(witness))
    /\ Len(witness) = LINES => LastRow(witness[LINES])
    /\ \A t \in 1 .. Len(witness) : t <= Len(steps) => witness[t] = steps[t]

\* The inductive invariant of the gate machine and its prover.
GateInv == GateTypeOK /\ RunInv /\ WitnessInv

\* One row more.
LEMMA RowAppended ==
    ASSUME NEW rows \in Seq(GateRows), NEW row \in GateRows
    PROVE  /\ Append(rows, row) \in Seq(GateRows)
           /\ Len(Append(rows, row)) = Len(rows) + 1 /\ Len(rows) \in Nat
           /\ Append(rows, row)[Len(rows) + 1] = row
           /\ \A t \in 1 .. Len(rows) : Append(rows, row)[t] = rows[t]
           /\ Append(rows, row) # <<>>
  OBVIOUS

\* A row that follows the last one makes a longer chain.
LEMMA ChainExtends ==
    ASSUME NEW rows \in Seq(GateRows), NEW row \in GateRows, Chained(rows, Len(rows)),
           rows # <<>> => RowFollows(rows[Len(rows)], row)
    PROVE  /\ Chained(Append(rows, row), Len(rows))
           /\ RowHolds(row) => Chained(Append(rows, row), Len(rows) + 1)
<1> DEFINE more == Append(rows, row)
<1>1. /\ Len(more) = Len(rows) + 1 /\ Len(rows) \in Nat /\ more[Len(rows) + 1] = row
      /\ \A t \in 1 .. Len(rows) : more[t] = rows[t]
  BY RowAppended
<1> HIDE DEF more
<1>2. \A t \in 2 .. Len(more) : RowFollows(more[t - 1], more[t])
  <2> SUFFICES ASSUME NEW t \in 2 .. Len(more) PROVE RowFollows(more[t - 1], more[t])
    OBVIOUS
  <2>1. CASE t = Len(more)
    <3>1. rows # <<>> /\ Len(rows) \in 1 .. Len(rows) /\ t - 1 = Len(rows) /\ t = Len(rows) + 1
      BY <1>1, <2>1
    <3> QED BY <1>1, <3>1
  <2>2. CASE t # Len(more)
    <3>1. t \in 2 .. Len(rows) /\ t \in 1 .. Len(rows) /\ t - 1 \in 1 .. Len(rows)
      BY <1>1, <2>2
    <3> QED BY <1>1, <3>1 DEF Chained
  <2> QED BY <2>1, <2>2
<1>3. \A t \in 1 .. Len(rows) : RowHolds(more[t])
  BY <1>1 DEF Chained
<1>4. RowHolds(row) => \A t \in 1 .. Len(rows) + 1 : RowHolds(more[t])
  BY <1>1, <1>3
<1> QED BY <1>2, <1>3, <1>4 DEF Chained, more

\* The hash steps of a longer run.
LEMMA HashesCounted ==
    ASSUME NEW rows \in Seq(GateRows), NEW row \in GateRows
    PROVE  /\ HashCount(Append(rows, row)) =
                HashCount(rows) + IF Cell(row).op = "Pose" /\ ~row.halted THEN 1 ELSE 0
           /\ HashCount(rows) \in Nat
<1> DEFINE more == Append(rows, row)
           Counts(r) == Cell(r).op = "Pose" /\ ~r.halted
           C == {t \in DOMAIN rows : Counts(rows[t])}
           D == {t \in DOMAIN more : Counts(more[t])}
           n == Len(rows)
<1>1. /\ DOMAIN rows = 1 .. n /\ DOMAIN more = (1 .. n) \cup {n + 1} /\ n \in Nat
      /\ n + 1 \notin 1 .. n
      /\ more[n + 1] = row /\ \A t \in 1 .. n : more[t] = rows[t]
  BY RowAppended
<1>2. IsFiniteSet(C)
  <2>1. IsFiniteSet(1 .. n) /\ C \subseteq 1 .. n
    BY <1>1, FS_Interval
  <2> HIDE DEF C
  <2> QED BY <2>1, FS_Subset
<1>3. n + 1 \notin C
  BY <1>1
<1> HIDE DEF more, Counts, n
<1>4. D = IF Counts(row) THEN C \cup {n + 1} ELSE C
  BY <1>1
<1> HIDE DEF C, D
<1>5. Cardinality(D) = Cardinality(C) + IF Counts(row) THEN 1 ELSE 0
  <2>1. Cardinality(C \cup {n + 1}) = Cardinality(C) + 1 /\ Cardinality(C) \in Nat
    BY <1>2, <1>3, FS_AddElement, FS_CardinalityType
  <2> QED BY <1>4, <2>1
<1>6. Cardinality(C) \in Nat
  BY <1>2, FS_CardinalityType
<1> QED BY <1>5, <1>6 DEF HashCount, C, D, more, Counts

\* Where the machine starts.
LEMMA GateStarts == GateInit => GateInv
<1> SUFFICES ASSUME GateInit PROVE GateInv
  OBVIOUS
<1>1. Current \in GateRows /\ ~gate_halted
  <2>1. PICK start \in Starts, event \in Events :
          gate_regs = [r \in GateRegisters |-> IF r = 0 THEN start ELSE IF r = 1 THEN event ELSE 0]
    BY DEF GateInit
  <2>2. start \in Field /\ event \in Field /\ 0 \in Field
    BY FieldAssumption, GateSizes DEF Field
  <2>3. gate_regs \in [GateRegisters -> Field]
    BY <2>1, <2>2
  <2> QED BY <2>3 DEF GateInit, GateRows, GateRow, Current
<1>2. insts \in [Lines -> GateInstructions] /\ window \in 1 .. LINES /\ LINES \in Nat
  BY GateProgramsAssumption, GateSizes, FieldAssumption DEF GateInit
<1>3. GateTypeOK
  BY <1>1, <1>2 DEF GateInit, GateTypeOK
<1>4. Entered(Current)
  BY DEF GateInit, Entered, FirstRow, Current
<1>5. HashCount(<<>>) = 0
  BY FS_EmptySet DEF HashCount
<1>6. RunInv
  BY <1>1, <1>4, <1>5 DEF GateInit, RunInv, Chained
<1>7. WitnessInv
  BY <1>2 DEF GateInit, WitnessInv, Chained
<1> QED BY <1>3, <1>6, <1>7 DEF GateInv

\* What a line writes is an element of the field.
LEMMA FieldCloses ==
    ASSUME NEW op \in WritingOps, NEW a \in Field, NEW b \in Field
    PROVE  Outcome(op, a, b) \in Field
<1>1. FieldOrder \in Nat /\ FieldOrder > 0
  BY FieldAssumption
<1>2. \A n \in Int : n % FieldOrder \in Field
  BY <1>1 DEF Field
<1>3. a + b \in Int /\ a - b \in Int /\ a * b \in Int
  BY <1>1 DEF Field
<1> HIDE DEF Field
<1> QED BY <1>2, <1>3, PoseidonAssumption DEF Outcome, WritingOps

\* What RunInv and WitnessInv need of the constants and the program along a step.
LEMMA SameProgram ==
    ASSUME UNCHANGED insts
    PROVE  /\ \A r : RowHolds(r)' <=> RowHolds(r)
           /\ \A r, q : RowFollows(r, q)' <=> RowFollows(r, q)
           /\ \A s, n : Chained(s, n)' <=> Chained(s, n)
           /\ \A s : HashCount(s)' = HashCount(s)
           /\ \A r : AssertsHold(r)' <=> AssertsHold(r)
           /\ \A r : HaltedNext(r)' <=> HaltedNext(r)
  BY DEF RowHolds, RowFollows, Chained, HashCount, AssertsHold, HaltedNext, PcNext, NextVal,
         JnzTaken, Cell, InA, InB

\* A row pushed by a run that goes on keeps what RunInv says of running.
LEMMA PushKeeps ==
    ASSUME GateTypeOK, RunInv, Iterates, receipt' = "running", Current' \in GateRows,
           RowHolds(Current), RowFollows(Current, Current'), gate_halted' => gate_pc' \in Lines,
           hash_steps' = hash_steps + IF Cell(Current).op = "Pose" /\ ~gate_halted THEN 1 ELSE 0
    PROVE  GateTypeOK' /\ RunInv'
<1>1. /\ steps \in Seq(GateRows) /\ Current \in GateRows /\ steps' = Append(steps, Current)
      /\ Len(steps) < window /\ UNCHANGED <<insts, window, witness>> /\ receipt = "running"
      /\ Current.halted = gate_halted
  BY DEF GateTypeOK, Iterates, Current, GateRow
<1>2. /\ steps' \in Seq(GateRows) /\ Len(steps') = Len(steps) + 1 /\ steps' # <<>>
      /\ steps'[Len(steps')] = Current /\ Len(steps) \in Nat
      /\ steps # <<>> => steps'[1] = steps[1]
      /\ steps = <<>> => steps'[1] = Current
  BY <1>1, RowAppended
<1>3. Chained(steps', Len(steps'))
  <2>1. Chained(steps, Len(steps)) /\ (steps # <<>> => RowFollows(steps[Len(steps)], Current))
    BY <1>1 DEF RunInv
  <2> QED BY <1>1, <1>2, <2>1, ChainExtends
<1>4. hash_steps' = HashCount(steps')
  BY <1>1, HashesCounted DEF RunInv
<1>5. GateTypeOK'
  <2>1. window \in Nat
    BY GateSizes, FieldAssumption DEF GateTypeOK
  <2> QED BY <1>1, <1>2, <2>1 DEF GateTypeOK
<1>6. Entered(steps'[1])
  BY <1>1, <1>2 DEF RunInv
<1>7. RunInv'
  BY <1>1, <1>2, <1>3, <1>4, <1>6, SameProgram DEF RunInv, Entered, FirstRow
<1> QED BY <1>5, <1>7

\* A row pushed by a run that is refused there.
LEMMA RefusedRow ==
    ASSUME GateTypeOK, RunInv, Iterates, receipt' \in {"AssertionFailed", "NoHalt"},
           UNCHANGED <<gate_pc, gate_regs, gate_halted>>, ~gate_halted,
           receipt' = "AssertionFailed" => ~AssertsHold(Current),
           receipt' = "NoHalt" => gate_pc \notin Lines
    PROVE  GateTypeOK' /\ RunInv'
<1>1. /\ steps \in Seq(GateRows) /\ Current \in GateRows /\ steps' = Append(steps, Current)
      /\ Len(steps) < window /\ UNCHANGED <<insts, window, witness>> /\ receipt = "running"
      /\ Current' = Current /\ Current.pc = gate_pc
  BY DEF GateTypeOK, Iterates, Current, GateRow
<1>2. /\ steps' \in Seq(GateRows) /\ Len(steps') = Len(steps) + 1 /\ steps' # <<>>
      /\ steps'[Len(steps')] = Current /\ Len(steps) \in Nat
      /\ steps # <<>> => steps'[1] = steps[1]
      /\ steps = <<>> => steps'[1] = Current
  BY <1>1, RowAppended
<1>3. Chained(steps', Len(steps') - 1)
  <2>1. Chained(steps, Len(steps)) /\ (steps # <<>> => RowFollows(steps[Len(steps)], Current))
    BY <1>1 DEF RunInv
  <2>2. Len(steps') - 1 = Len(steps)
    BY <1>2
  <2> QED BY <1>1, <2>1, <2>2, ChainExtends
<1>4. GateTypeOK'
  <2>1. window \in Nat
    BY GateSizes, FieldAssumption DEF GateTypeOK
  <2> QED BY <1>1, <1>2, <2>1 DEF GateTypeOK
<1>5. Entered(steps'[1])
  BY <1>1, <1>2 DEF RunInv
<1>6. RunInv'
  BY <1>1, <1>2, <1>3, <1>5, SameProgram DEF RunInv, Entered, FirstRow
<1> QED BY <1>4, <1>6

\* Every step of the run keeps what RunInv says of it.
LEMMA RunKeeps ==
    ASSUME GateTypeOK, RunInv, GateRun
    PROVE  GateTypeOK' /\ RunInv'
<1>1. /\ gate_pc \in Nat /\ gate_regs \in [GateRegisters -> Field] /\ gate_halted \in BOOLEAN
      /\ insts \in [Lines -> GateInstructions] /\ LINES \in Nat
      /\ window \in Nat
  BY GateSizes, FieldAssumption DEF GateTypeOK, Current, GateRow, GateRows
<1>2. /\ Current.pc = gate_pc /\ Current.regs = gate_regs /\ Current.halted = gate_halted
      /\ Current' = GateRow(gate_pc', gate_regs', gate_halted')
      /\ Cell(Current) = Line /\ InA(Current) = ValA /\ InB(Current) = ValB
  BY DEF Current, GateRow, Cell, InA, InB, Line, ValA, ValB
<1>3. gate_pc \in Lines => /\ Line \in GateInstructions /\ ValA \in Field /\ ValB \in Field
                           /\ gate_pc + 1 \in Nat
  BY <1>1 DEF Line, ValA, ValB, GateInstructions
<1>4. \A n, f, h : n \in Nat /\ f \in [GateRegisters -> Field] /\ h \in BOOLEAN =>
                     GateRow(n, f, h) \in GateRows
  BY DEF GateRow, GateRows
<1>5. CASE Frozen
  <2>1. gate_halted /\ Iterates /\ UNCHANGED <<gate_pc, gate_regs, gate_halted, hash_steps, receipt>>
        /\ receipt = "running"
    BY <1>5 DEF Frozen, Iterates
  <2>2. gate_pc \in Lines
    BY <2>1 DEF RunInv
  <2>3. RowHolds(Current)
    BY <1>2, <2>1, <2>2 DEF RowHolds, AssertsHold
  <2>4. HaltedNext(Current) = TRUE /\ NextVal(Current) = gate_regs /\ PcNext(Current) = gate_pc
    BY <1>2, <2>1 DEF HaltedNext, NextVal, PcNext
  <2>5. RowFollows(Current, Current')
    BY <1>1, <1>2, <2>1, <2>4 DEF RowFollows
  <2>6. hash_steps' = hash_steps + 0
    BY <2>1, HashesCounted DEF RunInv, GateTypeOK
  <2> QED BY <1>1, <1>2, <1>4, <2>1, <2>2, <2>3, <2>5, <2>6, PushKeeps
<1>7. CASE WriteLine
  <2>1. /\ Iterates /\ ~gate_halted /\ gate_pc \in Lines /\ Line.op \in WritingOps
        /\ gate_regs' = [gate_regs EXCEPT ![Line.c] = Outcome(Line.op, ValA, ValB)]
        /\ hash_steps' = IF Line.op = "Pose" THEN hash_steps + 1 ELSE hash_steps
        /\ gate_pc' = gate_pc + 1 /\ UNCHANGED <<gate_halted, receipt>> /\ receipt = "running"
    BY <1>7 DEF WriteLine, Fetched, Iterates
  <2>2. RowHolds(Current)
    BY <1>2, <2>1 DEF RowHolds, AssertsHold, WritingOps
  <2>3. HaltedNext(Current) = FALSE /\ NextVal(Current) = gate_regs' /\ PcNext(Current) = gate_pc'
    BY <1>2, <2>1 DEF HaltedNext, NextVal, PcNext, JnzTaken, WritingOps
  <2>4. RowFollows(Current, Current')
    BY <1>1, <1>2, <2>1, <2>3 DEF RowFollows
  <2>5. Outcome(Line.op, ValA, ValB) \in Field
    BY <1>3, <2>1, FieldCloses
  <2>6. gate_regs' \in [GateRegisters -> Field]
    BY <1>1, <2>1, <2>5
  <2>7. Current' \in GateRows
    BY <1>1, <1>2, <1>3, <1>4, <2>1, <2>6
  <2>8. hash_steps' = hash_steps + IF Cell(Current).op = "Pose" /\ ~gate_halted THEN 1 ELSE 0
    <3>1. hash_steps \in Nat
      BY <2>1, HashesCounted DEF RunInv, GateTypeOK
    <3> QED BY <1>2, <2>1, <3>1
  <2> QED BY <2>1, <2>2, <2>4, <2>7, <2>8, PushKeeps
<1>8. CASE AssertEq
  <2>1. /\ Iterates /\ ~gate_halted /\ gate_pc \in Lines /\ Line.op = "AssertEq"
        /\ UNCHANGED <<gate_regs, gate_halted, hash_steps>> /\ receipt = "running"
        /\ IF ValA = ValB THEN gate_pc' = gate_pc + 1 /\ UNCHANGED receipt
           ELSE receipt' = "AssertionFailed" /\ UNCHANGED gate_pc
    BY <1>8 DEF AssertEq, Fetched, Iterates
  <2>2. CASE ValA = ValB
    <3>1. RowHolds(Current)
      BY <1>2, <2>1, <2>2 DEF RowHolds, AssertsHold
    <3>2. HaltedNext(Current) = FALSE /\ NextVal(Current) = gate_regs /\ PcNext(Current) = gate_pc'
      BY <1>2, <2>1, <2>2 DEF HaltedNext, NextVal, PcNext, JnzTaken, WritingOps
    <3>3. RowFollows(Current, Current')
      BY <1>1, <1>2, <2>1, <3>2 DEF RowFollows
    <3>4. Current' \in GateRows
      BY <1>1, <1>2, <1>3, <1>4, <2>1, <2>2
    <3>5. hash_steps' = hash_steps + 0
      BY <2>1, HashesCounted DEF RunInv, GateTypeOK
    <3> QED BY <1>2, <2>1, <2>2, <3>1, <3>3, <3>4, <3>5, PushKeeps
  <2>3. CASE ValA # ValB
    <3>1. ~AssertsHold(Current)
      BY <1>2, <2>1, <2>3 DEF AssertsHold
    <3> QED BY <2>1, <2>3, <3>1, RefusedRow
  <2> QED BY <2>2, <2>3
<1>9. CASE JumpNZ
  <2>1. /\ Iterates /\ ~gate_halted /\ gate_pc \in Lines /\ Line.op = "JumpNZ"
        /\ UNCHANGED <<gate_regs, gate_halted, hash_steps, receipt>> /\ receipt = "running"
        /\ gate_pc' = IF ValA = 0 THEN gate_pc + 1 ELSE Line.b
    BY <1>9 DEF JumpNZ, Fetched, Iterates
  <2>2. RowHolds(Current)
    BY <1>2, <2>1 DEF RowHolds, AssertsHold
  <2>3. HaltedNext(Current) = FALSE /\ NextVal(Current) = gate_regs /\ PcNext(Current) = gate_pc'
    BY <1>2, <2>1 DEF HaltedNext, NextVal, PcNext, JnzTaken, WritingOps
  <2>4. RowFollows(Current, Current')
    BY <1>1, <1>2, <2>1, <2>3 DEF RowFollows
  <2>5. gate_pc' \in Nat
    <3>1. Line.b \in Nat
      BY <1>3, <2>1, GateSizes DEF GateInstructions, GateRegisters
    <3> QED BY <1>3, <2>1, <3>1
  <2>6. Current' \in GateRows
    BY <1>1, <1>2, <1>4, <2>1, <2>5
  <2>7. hash_steps' = hash_steps + 0
    BY <2>1, HashesCounted DEF RunInv, GateTypeOK
  <2> QED BY <1>2, <2>1, <2>2, <2>4, <2>6, <2>7, PushKeeps
<1>10. CASE HaltLine
  <2>1. /\ Iterates /\ ~gate_halted /\ gate_pc \in Lines /\ Line.op = "Halt" /\ gate_halted' = TRUE
        /\ UNCHANGED <<gate_pc, gate_regs, hash_steps, receipt>> /\ receipt = "running"
    BY <1>10 DEF HaltLine, Fetched, Iterates
  <2>2. RowHolds(Current)
    BY <1>2, <2>1 DEF RowHolds, AssertsHold
  <2>3. HaltedNext(Current) = TRUE /\ NextVal(Current) = gate_regs /\ PcNext(Current) = gate_pc
    BY <1>2, <2>1 DEF HaltedNext, NextVal, PcNext, JnzTaken, WritingOps
  <2>4. RowFollows(Current, Current')
    BY <1>1, <1>2, <2>1, <2>3 DEF RowFollows
  <2>5. Current' \in GateRows
    BY <1>1, <1>2, <1>4, <2>1
  <2>6. hash_steps' = hash_steps + 0
    BY <2>1, HashesCounted DEF RunInv, GateTypeOK
  <2> QED BY <1>2, <2>1, <2>2, <2>4, <2>5, <2>6, PushKeeps
<1>11. CASE NoHalt /\ Iterates
  <2>1. ~gate_halted /\ gate_pc \notin Lines /\ receipt' = "NoHalt"
        /\ UNCHANGED <<gate_pc, gate_regs, gate_halted, hash_steps>>
    BY <1>11 DEF NoHalt, Iterates
  <2> QED BY <1>11, <2>1, RefusedRow
<1>12. CASE NoHalt /\ ~Iterates
  <2>1. /\ receipt = "running" /\ Len(steps) = window /\ ~gate_halted /\ receipt' = "NoHalt"
        /\ UNCHANGED <<insts, window, witness, steps, gate_pc, gate_regs, gate_halted, hash_steps>>
    BY <1>12 DEF NoHalt
  <2>2. Len(steps) \in Nat \ {0} /\ steps # <<>>
    BY <2>1, GateSizes, FieldAssumption DEF GateTypeOK
  <2>3. RowFollows(steps[Len(steps)], Current) /\ Chained(steps, Len(steps))
    BY <2>1, <2>2 DEF RunInv
  <2>4. ~HaltedNext(steps[Len(steps)])
    BY <1>2, <2>1, <2>3 DEF RowFollows, GateRow
  <2>5. Chained(steps, Len(steps) - 1)
    BY <2>2, <2>3 DEF Chained
  <2>6. GateTypeOK'
    BY <2>1 DEF GateTypeOK, Current, GateRow
  <2>7. RunInv'
    BY <2>1, <2>2, <2>4, <2>5, SameProgram DEF RunInv, Entered, FirstRow
  <2> QED BY <2>6, <2>7
<1>13. CASE Receipt
  <2>1. /\ receipt = "running" /\ Len(steps) = window /\ gate_halted /\ receipt' = "ok"
        /\ UNCHANGED <<insts, window, gate_pc, gate_regs, gate_halted, steps, hash_steps, witness>>
    BY <1>13 DEF Receipt
  <2>2. steps # <<>>
    BY <2>1, GateSizes, FieldAssumption DEF GateTypeOK
  <2>3. Current' = Current
    BY <2>1 DEF Current, GateRow
  <2>4. GateTypeOK'
    BY <2>1, <2>3 DEF GateTypeOK
  <2>5. RunInv'
    BY <2>1, <2>2, <2>3, SameProgram DEF RunInv, Entered, FirstRow
  <2> QED BY <2>4, <2>5
<1> QED BY <1>5, <1>7, <1>8, <1>9, <1>10, <1>11, <1>12, <1>13 DEF GateRun

\* The rows of a run follow one another, however it ended.
LEMMA StepsFollow ==
    ASSUME GateTypeOK, RunInv
    PROVE  \A t \in 2 .. Len(steps) : RowFollows(steps[t - 1], steps[t])
  BY DEF GateTypeOK, RunInv, Chained

\* While the run goes on nothing has been offered.
LEMMA RunLeavesWitness ==
    ASSUME GateTypeOK, WitnessInv, GateRun
    PROVE  WitnessInv'
<1>1. receipt = "running" /\ witness' = witness /\ UNCHANGED insts
  BY DEF GateRun, Frozen, WriteLine, AssertEq, JumpNZ, HaltLine, NoHalt, Receipt, Fetched, Iterates
<1>2. witness = <<>> /\ LINES \in Nat \ {0}
  BY <1>1, FieldAssumption DEF WitnessInv
<1> QED BY <1>1, <1>2 DEF WitnessInv, Chained

\* A row that is taken behind the others is the run's own, as far as the run went.
LEMMA OfferKeeps ==
    ASSUME GateInv, OfferRow
    PROVE  GateInv'
<1> DEFINE n == Len(witness)
<1>1. /\ receipt # "running" /\ n < LINES /\ LINES \in Nat /\ n \in Nat
      /\ UNCHANGED <<insts, window, gate_pc, gate_regs, gate_halted, steps, hash_steps, receipt>>
      /\ GateTypeOK /\ RunInv /\ WitnessInv /\ steps # <<>>
  BY FieldAssumption DEF OfferRow, GateInv, GateTypeOK, RunInv
<1>2. PICK file \in [GateRegisters -> Field], at \in Lines, halt \in BOOLEAN :
        LET row == GateRow(at, file, halt) IN
        /\ IF witness = <<>> THEN FirstRow(steps[1].regs[0], steps[1].regs[1], row)
           ELSE RowFollows(witness[Len(witness)], row)
        /\ RowHolds(row)
        /\ Len(witness) = LINES - 1 => LastRow(row)
        /\ witness' = Append(witness, row)
  BY DEF OfferRow
<1> DEFINE row == GateRow(at, file, halt)
<1>3. row \in GateRows
  BY <1>1 DEF GateRow, GateRows, Lines
<1>4. /\ witness = <<>> => FirstRow(steps[1].regs[0], steps[1].regs[1], row)
      /\ witness # <<>> => RowFollows(witness[n], row)
      /\ RowHolds(row) /\ (n = LINES - 1 => LastRow(row)) /\ witness' = Append(witness, row)
  BY <1>2
<1> HIDE DEF row
<1>5. /\ witness' \in Seq(GateRows) /\ Len(witness') = n + 1 /\ witness' # <<>>
      /\ witness'[n + 1] = row /\ \A t \in 1 .. n : witness'[t] = witness[t]
  BY <1>1, <1>3, <1>4, RowAppended DEF GateTypeOK
<1>6. Chained(witness', n + 1)
  BY <1>1, <1>3, <1>4, ChainExtends DEF GateTypeOK, WitnessInv
<1>7. n + 1 <= Len(steps) => row = steps[n + 1]
  <2>1. CASE witness = <<>>
    <3>1. PICK start \in Starts, event \in Events : FirstRow(start, event, steps[1])
      BY <1>1 DEF RunInv, Entered
    <3>2. 0 \in GateRegisters /\ 1 \in GateRegisters
      BY GateSizes DEF GateRegisters
    <3>3. steps[1].regs[0] = start /\ steps[1].regs[1] = event
      BY <3>1, <3>2 DEF FirstRow, GateRow
    <3>4. row = steps[1] /\ n = 0
      BY <1>4, <2>1, <3>1, <3>3 DEF FirstRow
    <3> QED BY <3>4
  <2>2. CASE witness # <<>> /\ n + 1 <= Len(steps)
    <3>1. n \in 1 .. n /\ n + 1 \in 2 .. Len(steps) /\ (n + 1) - 1 = n /\ n <= Len(steps)
      BY <1>1, <2>2 DEF GateTypeOK
    <3>2. witness[n] = steps[n]
      BY <1>1, <3>1 DEF WitnessInv
    <3>3. RowFollows(steps[n], steps[n + 1])
      BY <1>1, <3>1, StepsFollow
    <3> QED BY <1>4, <2>2, <3>2, <3>3 DEF RowFollows
  <2> QED BY <2>1, <2>2
<1>8. GateTypeOK'
  BY <1>1, <1>5 DEF GateTypeOK, Current, GateRow
<1>9. RunInv'
  BY <1>1, SameProgram DEF RunInv, Entered, FirstRow, Current, GateRow
<1>10. WitnessInv'
  <2>1. PICK w, m : w = witness' /\ m = n + 1
    OBVIOUS
  <2>2. \A r : (LastRow(r))' <=> LastRow(r)
    BY <1>1 DEF LastRow, HaltedNext, Cell
  <2>3. m = LINES => (LastRow(w[LINES]))'
    BY <1>1, <1>4, <1>5, <2>1, <2>2
  <2>4. \A t \in 1 .. n + 1 : t <= Len(steps) => w[t] = steps[t]
    <3> SUFFICES ASSUME NEW t \in 1 .. n + 1, t <= Len(steps) PROVE w[t] = steps[t]
      OBVIOUS
    <3>1. CASE t = n + 1
      BY <1>5, <1>7, <2>1, <3>1
    <3>2. CASE t # n + 1
      <4>1. t \in 1 .. n
        BY <1>1, <3>2
      <4> QED BY <1>1, <1>5, <2>1, <4>1 DEF WitnessInv
    <3> QED BY <3>1, <3>2
  <2>5. Chained(w, m)
    BY <1>6, <2>1
  <2>6. (Chained(w, m))'
    BY <1>1, <2>5, SameProgram
  <2>7. /\ Chained(w, m)' /\ Len(w) = m /\ w # <<>> /\ receipt' # "running"
        /\ steps' = steps /\ \A t \in 1 .. m : t <= Len(steps) => w[t] = steps[t]
    BY <1>1, <1>5, <2>1, <2>4, <2>6
  <2> QED BY <2>1, <2>3, <2>7 DEF WitnessInv
<1> QED BY <1>8, <1>9, <1>10 DEF GateInv

\* Every step of machine and prover keeps the invariant.
LEMMA GateStep == GateInv /\ [GateNext]_gateVars => GateInv'
<1> SUFFICES ASSUME GateInv, [GateNext]_gateVars PROVE GateInv'
  OBVIOUS
<1>1. CASE GateRun
  BY <1>1, RunKeeps, RunLeavesWitness DEF GateInv
<1>2. CASE OfferRow
  BY <1>2, OfferKeeps
<1>3. CASE UNCHANGED gateVars
  <2>1. UNCHANGED <<insts, window, gate_pc, gate_regs, gate_halted, steps, hash_steps, receipt, witness>>
    BY <1>3 DEF gateVars
  <2>2. GateTypeOK' /\ RunInv'
    BY <2>1, SameProgram DEF GateInv, GateTypeOK, RunInv, Entered, FirstRow, Current, GateRow
  <2>3. WitnessInv'
    BY <2>1, SameProgram DEF GateInv, WitnessInv, LastRow, Cell
  <2> QED BY <2>2, <2>3 DEF GateInv
<1> QED BY <1>1, <1>2, <1>3 DEF GateNext

\* The proof says what the run did.
LEMMA GateProves == GateInv => GateProofsAreRuns
<1> SUFFICES ASSUME GateInv PROVE GateProofsAreRuns
  OBVIOUS
<1>1. /\ GateTypeOK /\ RunInv /\ WitnessInv /\ LINES \in Nat \ {0} /\ window \in 1 .. LINES
      /\ Len(steps) \in Nat
  BY GateSizes, FieldAssumption DEF GateInv, GateTypeOK
<1>2. ASSUME receipt = "ok", window = LINES
      PROVE  Satisfies(steps) /\ EndRoot(steps) = gate_regs[2] /\ HashCount(steps) = hash_steps
  <2>1. /\ Len(steps) = LINES /\ gate_halted /\ steps # <<>> /\ hash_steps = HashCount(steps)
        /\ Chained(steps, LINES) /\ RowFollows(steps[LINES], Current) /\ Entered(steps[1])
    BY <1>1, <1>2 DEF RunInv
  <2>2. LastRow(steps[LINES]) /\ NextVal(steps[LINES]) = gate_regs
    BY <2>1 DEF RowFollows, LastRow, Current, GateRow
  <2>3. Satisfies(steps)
    BY <1>1, <2>1, <2>2 DEF Satisfies, Chained, Entered
  <2> QED BY <2>1, <2>2, <2>3 DEF EndRoot
<1>3. ASSUME Len(witness) = LINES
      PROVE  /\ receipt # "AssertionFailed"
             /\ \A t \in 1 .. Len(steps) : witness[t] = steps[t]
             /\ window = LINES => receipt = "ok" /\ HashCount(witness) = hash_steps
  <2>1. \A t \in 1 .. Len(steps) : t \in 1 .. LINES /\ witness[t] = steps[t] /\ RowHolds(steps[t])
    <3>1. Len(steps) <= LINES
      BY <1>1 DEF GateTypeOK
    <3>2. \A t \in 1 .. Len(steps) : t \in 1 .. LINES
      BY <1>1, <3>1
    <3> QED BY <1>1, <1>3, <3>2 DEF WitnessInv, Chained
  <2>2. receipt # "running" /\ steps # <<>> /\ Len(steps) \in 1 .. Len(steps)
    <3>1. witness # <<>>
      BY <1>1, <1>3
    <3>2. receipt # "running" /\ steps # <<>>
      BY <1>1, <3>1 DEF WitnessInv, RunInv
    <3> QED BY <1>1, <3>2 DEF GateTypeOK
  <2>3. RowHolds(steps[Len(steps)])
    BY <2>1, <2>2
  <2>4. receipt # "AssertionFailed"
    BY <1>1, <2>3 DEF RunInv, RowHolds
  <2>5. ASSUME window = LINES PROVE receipt = "ok" /\ HashCount(witness) = hash_steps
    <3>1. receipt # "NoHalt"
      <4>1. Len(steps) = window => LastRow(steps[Len(steps)])
        BY <1>1, <1>3, <2>1, <2>2, <2>5 DEF WitnessInv
      <4> QED BY <1>1, <2>3, <4>1 DEF RunInv, RowHolds, LastRow
    <3>2. receipt = "ok"
      BY <1>1, <2>2, <2>4, <3>1 DEF GateTypeOK
    <3>3. Len(steps) = LINES /\ hash_steps = HashCount(steps)
      BY <1>1, <2>5, <3>2 DEF RunInv
    <3>4. witness = steps
      BY <1>1, <1>3, <2>1, <3>3 DEF GateTypeOK
    <3> QED BY <3>2, <3>3, <3>4
  <2> QED BY <2>1, <2>4, <2>5
<1> QED BY <1>2, <1>3 DEF GateProofsAreRuns

\* For any program, window, field and hash: a full run satisfies the circuit, and
\* rows that satisfy it are those of a run that halted, whatever a prover offers.
THEOREM GateCircuitProvesRuns == GateSpec => []GateProofsAreRuns
  BY GateStarts, GateStep, GateProves, PTL DEF GateSpec

-----------------------------------------------------------------------------
(* The execution lane: what the numbers of the circuit leave.              *)

\* Quotient and remainder of a division by the modulus are the only ones there are.
LEMMA OneQuotient ==
    ASSUME NEW x \in Int, NEW q \in Int, NEW r \in Words, x = Modulus * q + r
    PROVE  x % Modulus = r /\ x \div Modulus = q
<1> DEFINE d == x \div Modulus
           e == x % Modulus
<1>1. d \in Int /\ e \in Words /\ x = Modulus * d + e /\ Modulus \in Nat /\ Modulus > 1
  BY ModulusAssumption DEF Words
<1> HIDE DEF d, e
<1>2. Modulus * (d - q) = r - e
  BY <1>1 DEF Words
<1>3. -Modulus < r - e /\ r - e < Modulus
  BY <1>1 DEF Words
<1>4. \A k \in Int : k >= 1 => Modulus * k >= Modulus
  BY <1>1
<1>5. ~(d - q >= 1)
  BY <1>1, <1>2, <1>3, <1>4
<1>6. ~(q - d >= 1)
  <2>1. Modulus * (q - d) = e - r
    BY <1>1, <1>2 DEF Words
  <2> QED BY <1>1, <1>3, <1>4, <2>1 DEF Words
<1>7. d = q
  BY <1>1, <1>5, <1>6
<1> QED BY <1>1, <1>7 DEF d, e, Words

\* What the carries and the quotient leave of a sum, a difference and a product is
\* the word the machine computes.
LEMMA TermsCompute ==
    ASSUME NEW a \in Words, NEW b \in Words, NEW result
    PROVE  /\ InRange(result) /\ AddTerm(a, b, result) <=> result = (a + b) % Modulus
           /\ InRange(result) /\ SubTerm(a, b, result) <=> result = (a - b) % Modulus
           /\ InRange(result) /\ MulTerm(a, b, result) <=> result = (a * b) % Modulus
           /\ 1 - TopBit(a, b) = Bit(a < b)
<1>1. Modulus \in Nat /\ Modulus > 1 /\ a \in Nat /\ b \in Nat /\ a < Modulus /\ b < Modulus
  BY ModulusAssumption DEF Words
<1>2. \A x \in Int : x % Modulus \in Words
  BY <1>1 DEF Words
<1>3. InRange(result) /\ AddTerm(a, b, result) <=> result = (a + b) % Modulus
  <2>1. ASSUME InRange(result), NEW carry \in {0, 1}, result = a + b - Modulus * carry
        PROVE  result = (a + b) % Modulus
    <3>1. a + b = Modulus * carry + result /\ a + b \in Int /\ carry \in Int
      BY <1>1, <2>1 DEF InRange, Words
    <3> QED BY <2>1, <3>1, OneQuotient DEF InRange
  <2>2. CASE a + b < Modulus
    <3>1. a + b \in Words /\ a + b = Modulus * 0 + (a + b)
      BY <1>1, <2>2 DEF Words
    <3>2. (a + b) % Modulus = a + b
      BY <1>1, <3>1, OneQuotient
    <3>3. a + b = a + b - Modulus * 0
      BY <1>1
    <3> QED BY <2>1, <3>1, <3>2, <3>3 DEF AddTerm, InRange
  <2>3. CASE ~(a + b < Modulus)
    <3>1. a + b - Modulus \in Words /\ a + b = Modulus * 1 + (a + b - Modulus)
      BY <1>1, <2>3 DEF Words
    <3>2. (a + b) % Modulus = a + b - Modulus
      BY <1>1, <3>1, OneQuotient, SMTT(30)
    <3>3. a + b - Modulus = a + b - Modulus * 1
      BY <1>1
    <3> QED BY <2>1, <3>1, <3>2, <3>3 DEF AddTerm, InRange
  <2> QED BY <2>2, <2>3
<1>4. InRange(result) /\ SubTerm(a, b, result) <=> result = (a - b) % Modulus
  <2>1. ASSUME InRange(result), NEW carry \in {0, 1}, result = a - b + Modulus * carry
        PROVE  result = (a - b) % Modulus
    <3>1. a - b = Modulus * (-carry) + result /\ a - b \in Int /\ -carry \in Int
      BY <1>1, <2>1 DEF InRange, Words
    <3> QED BY <2>1, <3>1, OneQuotient DEF InRange
  <2>2. CASE a - b >= 0
    <3>1. a - b \in Words /\ a - b = Modulus * 0 + (a - b)
      BY <1>1, <2>2 DEF Words
    <3>2. (a - b) % Modulus = a - b
      BY <1>1, <3>1, OneQuotient
    <3>3. a - b = a - b + Modulus * 0
      BY <1>1
    <3> QED BY <2>1, <3>1, <3>2, <3>3 DEF SubTerm, InRange
  <2>3. CASE ~(a - b >= 0)
    <3>1. a - b + Modulus \in Words /\ a - b = Modulus * (-1) + (a - b + Modulus)
      BY <1>1, <2>3 DEF Words
    <3>2. (a - b) % Modulus = a - b + Modulus
      BY <1>1, <3>1, OneQuotient
    <3>3. a - b + Modulus = a - b + Modulus * 1
      BY <1>1
    <3> QED BY <2>1, <3>1, <3>2, <3>3 DEF SubTerm, InRange
  <2> QED BY <2>2, <2>3
<1>5. InRange(result) /\ MulTerm(a, b, result) <=> result = (a * b) % Modulus
  <2>1. ASSUME InRange(result), NEW quotient \in 0 .. Modulus - 1, result = a * b - Modulus * quotient
        PROVE  result = (a * b) % Modulus
    <3>1. a * b = Modulus * quotient + result /\ a * b \in Int /\ quotient \in Int
      BY <1>1, <2>1 DEF InRange, Words
    <3> QED BY <2>1, <3>1, OneQuotient DEF InRange
  <2>2. PICK q, r : q = (a * b) \div Modulus /\ r = (a * b) % Modulus
    OBVIOUS
  <2>3. q \in Int /\ r \in Words /\ a * b = Modulus * q + r /\ a * b \in Int
    BY <1>1, <2>2 DEF Words
  <2>4. 0 <= a * b /\ a * b < Modulus * Modulus
    <3>1. a * b >= 0 /\ a * b <= (Modulus - 1) * b
      BY <1>1
    <3>2. (Modulus - 1) * b = Modulus * b - b /\ Modulus * b <= Modulus * (Modulus - 1)
      BY <1>1
    <3>3. Modulus * (Modulus - 1) = Modulus * Modulus - Modulus
      BY <1>1
    <3> QED BY <1>1, <3>1, <3>2, <3>3
  <2>5. q \in 0 .. Modulus - 1
    <3>1. \A k \in Int : k <= -1 => Modulus * k <= -Modulus
      BY <1>1
    <3>2. \A k \in Int : k >= Modulus => Modulus * k >= Modulus * Modulus
      BY <1>1
    <3> QED BY <1>1, <2>3, <2>4, <3>1, <3>2 DEF Words
  <2>6. r = a * b - Modulus * q
    BY <1>1, <2>3 DEF Words
  <2> QED BY <2>1, <2>2, <2>3, <2>5, <2>6 DEF MulTerm, InRange, Words
<1>6. 1 - TopBit(a, b) = Bit(a < b)
  <2>1. CASE a < b
    <3>1. a - b + Modulus \in Words /\ a - b + Modulus = Modulus * 0 + (a - b + Modulus)
      BY <1>1, <2>1 DEF Words
    <3>2. (a - b + Modulus) \div Modulus = 0
      BY <1>1, <3>1, OneQuotient
    <3> QED BY <2>1, <3>2 DEF TopBit, Bit
  <2>2. CASE ~(a < b)
    <3>1. a - b \in Words /\ a - b + Modulus = Modulus * 1 + (a - b)
      BY <1>1, <2>2 DEF Words
    <3>2. (a - b + Modulus) \div Modulus = 1
      BY <1>1, <3>1, OneQuotient
    <3> QED BY <2>2, <3>2 DEF TopBit, Bit
  <2> QED BY <2>1, <2>2
<1> QED BY <1>3, <1>4, <1>5, <1>6

LaneRows == [clk : Nat, pc : Slots, inst : Instructions, rs1_val : Words, rs2_val : Words,
             rd_val_new : Words, next_pc : Int, mem_addr : Cells, mem_val : Words,
             is_mem_write : BOOLEAN, regs : Files]

\* The sizes the other lemmas count with.
LEMMA LaneSizes ==
    /\ Modulus \in Nat /\ Modulus > 1 /\ LANE_STEPS \in Nat \ {0} /\ LANE_STEPS >= 1
    /\ MEMORY_WORDS \in Nat /\ MEMORY_WORDS >= 1 /\ PROGRAM_WORDS \in Nat /\ PROGRAM_WORDS >= 1
    /\ 0 \in Words /\ 1 \in Words /\ 0 \in Cells /\ 0 \in Slots /\ 0 \in Registers
    /\ Slots \subseteq Nat /\ Cells \subseteq Nat /\ Words \subseteq Nat
  BY ModulusAssumption, SizesAssumption DEF Words, Cells, Slots, Registers

\* How far an immediate reaches.
LEMMA ImmediateReach ==
    ASSUME NEW inst \in Instructions
    PROVE  /\ inst.imm \in Int /\ inst.imm < Modulus - PROGRAM_WORDS
           /\ inst.imm + Modulus >= PROGRAM_WORDS
           /\ inst.imm < Modulus /\ inst.imm >= -Modulus
           /\ (Modulus \div 2) + inst.imm >= MEMORY_WORDS
<1>1. inst.imm \in Immediates
  BY DEF Instructions
<1>2. /\ inst.imm \in Int /\ inst.imm < Modulus - PROGRAM_WORDS
      /\ inst.imm + Modulus >= PROGRAM_WORDS
      /\ (Modulus \div 2) + inst.imm >= MEMORY_WORDS
  BY <1>1, ImmediatesAssumption
<1>3. Modulus \in Nat /\ PROGRAM_WORDS \in Nat
  BY LaneSizes
<1> QED BY <1>2, <1>3

\* From the upper half of the words no immediate leads into the memory.
LEMMA BeyondMemory ==
    ASSUME NEW inst \in Instructions, NEW a \in Words, ~(a < Modulus \div 2)
    PROVE  a + inst.imm \notin Cells
<1>1. Modulus \div 2 \in Int
  BY LaneSizes
<1>2. PICK half \in Int : half = Modulus \div 2
  BY <1>1
<1>3. (Modulus \div 2) + inst.imm >= MEMORY_WORDS /\ inst.imm \in Int
  BY ImmediateReach
<1>4. half + inst.imm >= MEMORY_WORDS /\ ~(a < half)
  BY <1>2, <1>3
<1>5. a \in Int /\ MEMORY_WORDS \in Int
  BY LaneSizes DEF Words
<1>6. a + inst.imm >= MEMORY_WORDS
  BY <1>3, <1>4, <1>5
<1> QED BY <1>5, <1>6 DEF Cells

\* What the circuit leaves of a result is what the checker expects.
LEMMA ResultSettled ==
    ASSUME NEW inst \in Instructions, inst.op \in Opcodes,
           NEW a \in Words, NEW b \in Words, NEW val \in Words, NEW result
    PROVE  /\ InRange(result) /\ ResultTerm(inst, a, b, val, result)
                <=> result = ExpectedResult(inst, a, b, val)
           /\ ExpectedResult(inst, a, b, val) \in Words
<1>1. inst.imm \in Int /\ inst.imm < Modulus /\ inst.imm >= -Modulus /\ Modulus \in Nat
  BY ImmediateReach, LaneSizes
<1>2. Immediate(inst.imm) = inst.imm % Modulus /\ inst.imm % Modulus \in Words
  <2>1. CASE inst.imm < 0
    <3>1. /\ inst.imm + Modulus \in Words /\ -1 \in Int
          /\ inst.imm = Modulus * (-1) + (inst.imm + Modulus)
      BY <1>1, <2>1 DEF Words
    <3>2. inst.imm % Modulus = inst.imm + Modulus
      <4>1. PICK r : r = inst.imm + Modulus
        OBVIOUS
      <4> QED BY <1>1, <3>1, <4>1, OneQuotient
    <3> QED BY <1>1, <2>1, <3>1, <3>2 DEF Immediate, Bit
  <2>2. CASE ~(inst.imm < 0)
    <3>1. inst.imm \in Words /\ inst.imm = Modulus * 0 + inst.imm
      BY <1>1, <2>2 DEF Words
    <3>2. inst.imm % Modulus = inst.imm
      BY <1>1, <3>1, OneQuotient
    <3> QED BY <1>1, <2>2, <3>1, <3>2 DEF Immediate, Bit
  <2> QED BY <2>1, <2>2
<1>3. /\ (a + b) % Modulus \in Words /\ (a - b) % Modulus \in Words /\ (a * b) % Modulus \in Words
      /\ Bit(a = b) \in Words /\ Bit(a < b) \in Words /\ 0 \in Words
      /\ Bit(a - b = 0) = Bit(a = b)
  BY LaneSizes DEF Words, Bit
<1>4. CASE inst.op = "Add"
  BY <1>3, <1>4, TermsCompute DEF ResultTerm, ExpectedResult, Computed, Writing
<1>5. CASE inst.op = "Sub"
  BY <1>3, <1>5, TermsCompute DEF ResultTerm, ExpectedResult, Computed, Writing
<1>6. CASE inst.op = "Mul"
  BY <1>3, <1>6, TermsCompute DEF ResultTerm, ExpectedResult, Computed, Writing
<1>7. CASE inst.op = "Eq"
  BY <1>3, <1>7 DEF ResultTerm, ExpectedResult, Computed, Writing, InRange
<1>8. CASE inst.op = "Lt"
  BY <1>3, <1>8, TermsCompute DEF ResultTerm, ExpectedResult, Computed, Writing, InRange
<1>9. CASE inst.op = "Load"
  BY <1>2, <1>9 DEF ResultTerm, ExpectedResult, Writing, InRange
<1>10. CASE inst.op \in {"Halt", "Jmp", "Jnz", "Store", "Assert"}
  BY <1>3, <1>10 DEF ResultTerm, ExpectedResult, Writing, InRange
<1> QED BY <1>4, <1>5, <1>6, <1>7, <1>8, <1>9, <1>10 DEF Opcodes

\* The two judges of a memory event agree.
LEMMA EventsAgree ==
    ASSUME NEW inst \in Instructions, NEW mem, NEW a \in Words, NEW b \in Words,
           NEW addr, NEW val, NEW write \in BOOLEAN
    PROVE  MemoryEvent(inst, mem, a, b, addr, val, write)
             <=> CheckedEvent(inst, mem, a, b, addr, val, write)
  BY DEF MemoryEvent, CheckedEvent, TouchesMemory

\* They leave one event.
LEMMA OneEvent ==
    ASSUME NEW inst, NEW mem, NEW a, NEW b, NEW addr, NEW val, NEW write \in BOOLEAN,
           NEW addr2, NEW val2, NEW write2 \in BOOLEAN,
           CheckedEvent(inst, mem, a, b, addr, val, write),
           CheckedEvent(inst, mem, a, b, addr2, val2, write2)
    PROVE  addr = addr2 /\ val = val2 /\ write = write2
  BY DEF CheckedEvent

\* A target outside the program is one however it is computed.
LEMMA TargetsAgree ==
    ASSUME NEW inst \in Instructions, NEW slot \in Slots, NEW a
    PROVE  /\ NextPc(inst, slot, a) \in Int /\ ExpectedNext(inst, slot, a) \in Nat
           /\ \/ NextPc(inst, slot, a) = ExpectedNext(inst, slot, a)
              \/ NextPc(inst, slot, a) \notin Slots /\ ExpectedNext(inst, slot, a) \notin Slots
<1>1. /\ inst.imm \in Int /\ inst.imm < Modulus - PROGRAM_WORDS
      /\ inst.imm + Modulus >= PROGRAM_WORDS
      /\ slot \in Nat /\ slot < PROGRAM_WORDS
  BY ImmediateReach, LaneSizes DEF Slots
<1>2. CASE slot + inst.imm >= 0
  <2>1. slot + inst.imm \in Words /\ slot + inst.imm = Modulus * 0 + (slot + inst.imm)
    BY <1>1, <1>2, LaneSizes DEF Words
  <2>2. (slot + inst.imm) % Modulus = slot + inst.imm
    BY <1>1, <2>1, OneQuotient
  <2> QED BY <1>1, <1>2, <2>2 DEF NextPc, ExpectedNext
<1>3. CASE ~(slot + inst.imm >= 0)
  <2>1. /\ slot + inst.imm + Modulus \in Words
        /\ slot + inst.imm = Modulus * (-1) + (slot + inst.imm + Modulus)
    BY <1>1, <1>3, LaneSizes DEF Words
  <2>2. (slot + inst.imm) % Modulus = slot + inst.imm + Modulus
    BY <1>1, <2>1, OneQuotient
  <2>3. slot + inst.imm + Modulus \notin Slots /\ slot + inst.imm \notin Slots
    BY <1>1, <1>3, LaneSizes DEF Slots
  <2> QED BY <1>1, <1>3, <2>2, <2>3, LaneSizes DEF NextPc, ExpectedNext
<1> QED BY <1>2, <1>3

\* What the machine reads of a file and leaves in it: it reduces a field to a
\* register, where the judges refuse one that is not a register already.
MachineReads(inst, file, a, b) == a = file[Index(inst.rs1)] /\ b = file[Index(inst.rs2)]
MachineFile(inst, file, result) ==
    [IF inst.op \in Writing THEN [file EXCEPT ![Index(inst.rd)] = result] ELSE file EXCEPT ![0] = 0]

\* A reduced field is a register, and a register is its own.
LEMMA Reduced ==
    ASSUME NEW field \in Fields
    PROVE  Index(field) \in Registers /\ (field \in Registers => Index(field) = field)
<1>1. field \in Nat /\ REGISTERS \in Nat /\ REGISTERS > 0
  BY SizesAssumption, FieldsAssumption DEF Fields
<1> QED BY <1>1 DEF Index, Registers

LEMMA ReducedFields ==
    ASSUME NEW inst \in Instructions
    PROVE  /\ Index(inst.rd) \in Registers /\ Index(inst.rs1) \in Registers
           /\ Index(inst.rs2) \in Registers
           /\ InsideFile(inst) => /\ Index(inst.rd) = inst.rd /\ Index(inst.rs1) = inst.rs1
                                  /\ Index(inst.rs2) = inst.rs2
<1>1. inst.rd \in Fields /\ inst.rs1 \in Fields /\ inst.rs2 \in Fields
  BY DEF Instructions
<1> QED BY <1>1, Reduced DEF InsideFile

\* On an instruction inside the file the judges read and write as the machine does.
LEMMA InsideAgree ==
    ASSUME NEW inst \in Instructions, InsideFile(inst)
    PROVE  /\ \A file, a, b : Reads(inst, file, a, b) <=> MachineReads(inst, file, a, b)
           /\ \A file, result : ExpectedFile(inst, file, result) = MachineFile(inst, file, result)
  BY ReducedFields DEF Reads, MachineReads, ExpectedFile, MachineFile

\* The registers a row leaves are the same to machine and circuit.
LEMMA FilesAgree ==
    ASSUME NEW inst \in Instructions, NEW file \in Files, NEW result \in Words
    PROVE  /\ InsideFile(inst) => RegsNext(inst, file, result) = MachineFile(inst, file, result)
           /\ MachineFile(inst, file, result) \in Files
           /\ inst.op \notin Writing => MachineFile(inst, file, result) = file
<1>1. Index(inst.rd) \in Registers /\ (InsideFile(inst) => Index(inst.rd) = inst.rd)
  BY ReducedFields
<1>2. MachineFile(inst, file, result) \in Files
  BY <1>1, LaneSizes DEF MachineFile, Files
<1>3. inst.op \notin Writing => MachineFile(inst, file, result) = file
  BY LaneSizes DEF MachineFile, Files
<1>4. InsideFile(inst) => RegsNext(inst, file, result) = MachineFile(inst, file, result)
  BY <1>1, LaneSizes DEF RegsNext, MachineFile, Files
<1> QED BY <1>2, <1>3, <1>4

\* What a row finds depends on the rows before it alone.
LEMMA SameBefore ==
    ASSUME NEW rows, NEW more, NEW i \in Nat \ {0},
           \A k \in 1 .. i - 1 : /\ more[k].regs = rows[k].regs
                                 /\ more[k].is_mem_write = rows[k].is_mem_write
                                 /\ more[k].mem_addr = rows[k].mem_addr
                                 /\ more[k].rs2_val = rows[k].rs2_val
    PROVE  FileBefore(more, i) = FileBefore(rows, i) /\ MemoryBefore(more, i) = MemoryBefore(rows, i)
<1>1. FileBefore(more, i) = FileBefore(rows, i)
  <2>1. i # 1 => i - 1 \in 1 .. i - 1
    OBVIOUS
  <2> QED BY <2>1 DEF FileBefore
<1>2. ASSUME NEW a \in Cells
      PROVE  MemoryBefore(more, i)[a] = MemoryBefore(rows, i)[a]
  <2>1. StoresTo(more, i, a) = StoresTo(rows, i, a)
    BY DEF StoresTo
  <2>2. StoresTo(rows, i, a) # {} => Max(StoresTo(rows, i, a)) \in 1 .. i - 1
    <3>1. StoresTo(rows, i, a) \in SUBSET (1 .. i - 1) /\ i - 1 \in Nat
      BY DEF StoresTo
    <3> QED BY <3>1, FirstAndLast
  <2> QED BY <2>1, <2>2 DEF MemoryBefore
<1>3. MemoryBefore(more, i) = MemoryBefore(rows, i)
  BY <1>2 DEF MemoryBefore
<1> QED BY <1>1, <1>3

\* A store is found by the rows behind it.
LEMMA MemoryCarried ==
    ASSUME NEW rows, NEW i \in Nat \ {0}
    PROVE  MemoryBefore(rows, i + 1) =
             IF rows[i].is_mem_write
             THEN [MemoryBefore(rows, i) EXCEPT ![rows[i].mem_addr] = rows[i].rs2_val]
             ELSE MemoryBefore(rows, i)
<1> DEFINE carried == IF rows[i].is_mem_write
                      THEN [MemoryBefore(rows, i) EXCEPT ![rows[i].mem_addr] = rows[i].rs2_val]
                      ELSE MemoryBefore(rows, i)
<1>1. ASSUME NEW a \in Cells
      PROVE  MemoryBefore(rows, i + 1)[a] = carried[a]
  <2>1. CASE rows[i].is_mem_write /\ rows[i].mem_addr = a
    <3>1. i \in StoresTo(rows, i + 1, a) /\ \A k \in StoresTo(rows, i + 1, a) : k \in Int /\ i >= k
      BY <2>1 DEF StoresTo
    <3>2. Max(StoresTo(rows, i + 1, a)) = i
      BY <3>1 DEF Max
    <3> QED BY <2>1, <3>1, <3>2 DEF MemoryBefore
  <2>2. CASE ~(rows[i].is_mem_write /\ rows[i].mem_addr = a)
    <3>1. StoresTo(rows, i + 1, a) = StoresTo(rows, i, a)
      BY <2>2 DEF StoresTo
    <3> QED BY <2>2, <3>1 DEF MemoryBefore
  <2> QED BY <2>1, <2>2
<1> QED BY <1>1 DEF MemoryBefore

\* The gas of a longer run.
LEMMA GasGrows ==
    ASSUME NEW rows \in Seq(LaneRows), NEW row \in LaneRows
    PROVE  GasOf(Append(rows, row)) = GasOf(rows) + Gas(row.inst.op)
<1> DEFINE more == Append(rows, row)
           f == [i \in DOMAIN rows |-> Gas(rows[i].inst.op)]
           g == [i \in DOMAIN more |-> Gas(more[i].inst.op)]
           n == Len(rows)
<1>1. /\ DOMAIN rows = 1 .. n /\ DOMAIN more = 1 .. (n + 1) /\ n \in Nat
      /\ more[n + 1] = row /\ \A i \in 1 .. n : more[i] = rows[i]
  OBVIOUS
<1>2. \A op : Gas(op) \in Int
  BY DEF Gas
<1>3. /\ \A i \in 1 .. n : f[i] \in Int /\ g[i] = f[i]
      /\ g[n + 1] \in Int /\ g[n + 1] = Gas(row.inst.op)
  BY <1>1, <1>2
<1> HIDE DEF f, g, n, more
<1>4. SumOf(g, 1 .. (n + 1)) = SumOf(f, 1 .. n) + g[n + 1]
  BY <1>1, <1>3, SumNext
<1> QED BY <1>1, <1>3, <1>4 DEF GasOf, f, g, more

-----------------------------------------------------------------------------
(* The run.                                                                *)

LaneTypeOK ==
    /\ program \in [Slots -> Instructions] /\ initial_regs \in Files /\ registers \in Files
    /\ pc \in Nat /\ memory \in [Cells -> Words]
    /\ trace \in Seq(LaneRows) /\ Len(trace) <= LANE_STEPS
    /\ claims \in Seq(LaneRows) /\ Len(claims) <= LANE_STEPS
    /\ outcome \in {"running", "ok", "AssertionFailed", "InvalidMemoryAccess", "InvalidPc",
                    "InvalidOpcode", "StepLimitExceeded"}

\* A row the machine wrote: what the checker asks of one, but for its fields, with
\* the counter and the assertion.
RanRow(rows, i) ==
    LET row == rows[i]  inst == row.inst  a == row.rs1_val  file == FileBefore(rows, i)
    IN /\ row.clk = i - 1 /\ CheckedPc(rows, i, row.pc) /\ inst = program[row.pc]
       /\ inst.op \in Opcodes
       /\ MachineReads(inst, file, a, row.rs2_val)
       /\ CheckedEvent(inst, MemoryBefore(rows, i), a, row.rs2_val,
                       row.mem_addr, row.mem_val, row.is_mem_write)
       /\ row.rd_val_new = ExpectedResult(inst, a, row.rs2_val, row.mem_val)
       /\ row.next_pc = ExpectedNext(inst, row.pc, a)
       /\ row.regs = MachineFile(inst, file, row.rd_val_new)

MachineRow(rows, i) ==
    RanRow(rows, i) /\ AssertHolds(rows[i].inst, rows[i].rs1_val) /\ PcChain(rows, i, rows[i].pc)

\* The checker takes such a row if and only if its fields are inside the file.
LEMMA CheckedIsRan ==
    ASSUME NEW rows, NEW i, rows[i].inst \in Instructions
    PROVE  CheckedRow(rows, i) <=> RanRow(rows, i) /\ InsideFile(rows[i].inst)
<1>1. PICK row : row = rows[i]
  OBVIOUS
<1>2. PICK file : file = FileBefore(rows, i)
  OBVIOUS
<1>3. InsideFile(row.inst) =>
        /\ Reads(row.inst, file, row.rs1_val, row.rs2_val)
             <=> MachineReads(row.inst, file, row.rs1_val, row.rs2_val)
        /\ ExpectedFile(row.inst, file, row.rd_val_new) = MachineFile(row.inst, file, row.rd_val_new)
  BY <1>1, InsideAgree
<1> QED BY <1>1, <1>2, <1>3 DEF CheckedRow, RanRow

\* The machine is where its rows have brought it.
Reached ==
    /\ registers = FileBefore(trace, Len(trace) + 1) /\ memory = MemoryBefore(trace, Len(trace) + 1)
    /\ pc = IF trace = <<>> THEN 0 ELSE trace[Len(trace)].next_pc

\* Why a run was refused.
Refusal ==
    /\ outcome = "AssertionFailed" => Inst.op = "Assert" /\ Rs1 = 0
    /\ outcome = "InvalidMemoryAccess" => TouchesMemory(Inst) /\ ~Addressable(Rs1, Inst.imm)
    /\ outcome = "InvalidPc" => pc \notin Slots
    /\ outcome = "InvalidOpcode" => Inst.op \notin Opcodes
    /\ outcome = "StepLimitExceeded" => Len(trace) = LANE_STEPS

\* The rows of the run; only the last one halts, and only when the run ends well.
MachineInv ==
    /\ Reached /\ Refusal
    /\ \A i \in 1 .. Len(trace) : MachineRow(trace, i)
    /\ \A i \in 1 .. Len(trace) : trace[i].inst.op = "Halt" <=> (i = Len(trace) /\ outcome = "ok")
    /\ outcome = "ok" => trace # <<>>
    /\ outcome \in {"running", "ok"} => gas_used = GasOf(trace)

\* What every executed instruction does, told by its row as the checker reads it.
Ran(result, next, addr, val, write) ==
    /\ outcome = "running" /\ Len(trace) < LANE_STEPS /\ pc \in Slots /\ Inst.op \in Opcodes
    /\ AssertHolds(Inst, Rs1) /\ CheckedEvent(Inst, memory, Rs1, Rs2, addr, val, write)
    /\ result = ExpectedResult(Inst, Rs1, Rs2, val) /\ next = ExpectedNext(Inst, pc, Rs1)
    /\ write \in BOOLEAN /\ addr \in Cells /\ val \in Words
    /\ Executed(Row(result, next, addr, val, write, MachineFile(Inst, registers, result)))
    /\ memory' = IF write THEN [memory EXCEPT ![addr] = Rs2] ELSE memory
    /\ outcome' = IF Inst.op = "Halt" THEN "ok" ELSE "running"

\* The values an instruction works on.
LEMMA Operands ==
    ASSUME LaneTypeOK, pc \in Slots
    PROVE  Inst \in Instructions /\ Rs1 \in Words /\ Rs2 \in Words
<1>1. Inst \in Instructions /\ registers \in Files
  BY DEF LaneTypeOK, Inst
<1> QED BY <1>1, ReducedFields DEF Rs1, Rs2, Files

\* Every instruction that pushes a row does so by these rules.
LEMMA Executes ==
    ASSUME LaneTypeOK, Halt \/ Alu \/ LoadImmediate \/ LoadWord \/ Store \/ Jump \/ Assert
    PROVE  \E result, next, addr, val : \E write \in BOOLEAN : Ran(result, next, addr, val, write)
<1>1. /\ outcome = "running" /\ Len(trace) < LANE_STEPS /\ pc \in Slots
      /\ Inst \in Instructions /\ Rs1 \in Words /\ Rs2 \in Words
  BY Operands DEF Halt, Alu, LoadImmediate, LoadWord, Store, Jump, Assert, Fetches
<1>2. /\ 0 \in Words /\ 0 \in Cells /\ registers \in Files /\ 0 \in Registers /\ Registers = DOMAIN registers
      /\ registers[0] = 0 /\ Index(Inst.rd) \in Registers /\ memory \in [Cells -> Words]
  BY <1>1, LaneSizes, ReducedFields DEF LaneTypeOK, Files
<1>3. \A result : /\ Inst.op \in Writing => MachineFile(Inst, registers, result) = Written(result)
                  /\ Inst.op \notin Writing => MachineFile(Inst, registers, result) = registers
  <2>1. [registers EXCEPT ![0] = 0] = registers
    BY <1>2 DEF Files
  <2>2. \A result : [[registers EXCEPT ![Index(Inst.rd)] = result] EXCEPT ![0] = 0] = Written(result)
    BY <1>2 DEF Written, Files
  <2> QED BY <2>1, <2>2 DEF MachineFile
<1>4. ASSUME NEW result, NEW next, Goes(result, next), Inst.op \in Opcodes \ {"Halt"}, ~TouchesMemory(Inst),
             AssertHolds(Inst, Rs1), result = ExpectedResult(Inst, Rs1, Rs2, 0),
             next = ExpectedNext(Inst, pc, Rs1)
      PROVE  Ran(result, next, 0, 0, FALSE)
  <2>1. (IF Inst.op \in Writing THEN Written(result) ELSE registers) = MachineFile(Inst, registers, result)
    BY <1>3
  <2> QED BY <1>1, <1>2, <1>4, <2>1 DEF Ran, Goes, CheckedEvent
<1>5. CASE Halt
  <2>1. Inst.op = "Halt"
    BY <1>5 DEF Halt, Fetches
  <2>2. MachineFile(Inst, registers, 0) = registers
    BY <1>3, <2>1 DEF Writing
  <2>3. Ran(0, pc, 0, 0, FALSE)
    BY <1>1, <1>2, <1>5, <2>1, <2>2
       DEF Ran, Halt, CheckedEvent, TouchesMemory, AssertHolds, ExpectedResult, ExpectedNext,
           Writing, Opcodes
  <2> QED BY <2>3
<1>6. CASE Alu
  <2>1. Inst.op \in {"Add", "Sub", "Mul", "Eq", "Lt"}
    BY <1>6 DEF Alu, Fetches
  <2>2. Ran(Computed(Inst.op, Rs1, Rs2), pc + 1, 0, 0, FALSE)
    BY <1>4, <1>6, <2>1
       DEF Alu, TouchesMemory, AssertHolds, ExpectedResult, ExpectedNext, Jumps, Writing, Opcodes
  <2> QED BY <2>2
<1>7. CASE LoadImmediate
  <2>1. Inst.op = "Load" /\ Inst.rs1 = 0
    BY <1>7 DEF LoadImmediate, Fetches
  <2>2. Ran(Inst.imm % Modulus, pc + 1, 0, 0, FALSE)
    BY <1>4, <1>7, <2>1
       DEF LoadImmediate, TouchesMemory, AssertHolds, ExpectedResult, ExpectedNext, Jumps, Writing,
           Opcodes
  <2> QED BY <2>2
<1>8. CASE LoadWord
  <2>1. Inst.op = "Load" /\ Inst.rs1 # 0 /\ Rs1 + Inst.imm \in Cells
    BY <1>8 DEF LoadWord, Fetches, Addressable, Address
  <2>2. PICK addr, val : addr = Rs1 + Inst.imm /\ val = memory[addr]
    OBVIOUS
  <2>3. addr \in Cells /\ val \in Words
    BY <1>2, <2>1, <2>2
  <2>4. MachineFile(Inst, registers, val) = Written(val)
    BY <1>3, <2>1 DEF Writing
  <2>5. /\ Executed(Row(val, pc + 1, addr, val, FALSE, Written(val)))
        /\ UNCHANGED <<memory, outcome>>
    BY <1>8, <2>2 DEF LoadWord, Address
  <2>6. Ran(val, pc + 1, addr, val, FALSE)
    BY <1>1, <2>1, <2>2, <2>3, <2>4, <2>5
       DEF Ran, CheckedEvent, TouchesMemory, AssertHolds, ExpectedResult, ExpectedNext, Jumps,
           Writing, Opcodes
  <2> QED BY <2>6
<1>9. CASE Store
  <2>1. Inst.op = "Store" /\ Rs1 + Inst.imm \in Cells
    BY <1>9 DEF Store, Fetches, Addressable, Address
  <2>2. PICK addr : addr = Rs1 + Inst.imm
    OBVIOUS
  <2>3. MachineFile(Inst, registers, 0) = registers
    BY <1>3, <2>1 DEF Writing
  <2>4. /\ Executed(Row(0, pc + 1, addr, Rs2, TRUE, registers))
        /\ memory' = [memory EXCEPT ![addr] = Rs2] /\ UNCHANGED outcome
    BY <1>9, <2>2 DEF Store, Address
  <2>5. Ran(0, pc + 1, addr, Rs2, TRUE)
    BY <1>1, <2>1, <2>2, <2>3, <2>4
       DEF Ran, CheckedEvent, TouchesMemory, AssertHolds, ExpectedResult, ExpectedNext, Jumps,
           Writing, Opcodes
  <2> QED BY <2>5
<1>10. CASE Jump
  <2>1. Inst.op \in {"Jmp", "Jnz"}
    BY <1>10 DEF Jump, Fetches
  <2>2. PICK next : next = IF Inst.op = "Jmp" \/ Rs1 # 0 THEN Target(Inst.imm) ELSE pc + 1
    OBVIOUS
  <2>3. next = ExpectedNext(Inst, pc, Rs1)
    BY <2>1, <2>2 DEF ExpectedNext, Jumps, Target
  <2>4. Ran(0, next, 0, 0, FALSE)
    BY <1>4, <1>10, <2>1, <2>2, <2>3
       DEF Jump, TouchesMemory, AssertHolds, ExpectedResult, Writing, Opcodes
  <2> QED BY <2>4
<1>11. CASE Assert
  <2>1. Inst.op = "Assert" /\ Rs1 # 0
    BY <1>11 DEF Assert, Fetches
  <2>2. Ran(0, pc + 1, 0, 0, FALSE)
    BY <1>4, <1>11, <2>1
       DEF Assert, TouchesMemory, AssertHolds, ExpectedResult, ExpectedNext, Jumps, Writing, Opcodes
  <2> QED BY <2>2
<1> QED BY <1>5, <1>6, <1>7, <1>8, <1>9, <1>10, <1>11

\* The rules name the run's program and its first registers, and nothing else.
LEMMA SameRules ==
    ASSUME UNCHANGED <<program, initial_regs>>
    PROVE  /\ \A rows, i : FileBefore(rows, i)' = FileBefore(rows, i)
           /\ \A rows, i : MachineRow(rows, i)' <=> MachineRow(rows, i)
  BY DEF FileBefore, MachineRow, RanRow

\* A row judged among others is judged the same when more follow.
LEMMA SameVerdict ==
    ASSUME NEW rows \in Seq(LaneRows), NEW more \in Seq(LaneRows), Len(rows) <= Len(more),
           \A i \in 1 .. Len(rows) : more[i] = rows[i],
           NEW i \in 1 .. Len(rows), MachineRow(rows, i)
    PROVE  MachineRow(more, i)
<1>1. FileBefore(more, i) = FileBefore(rows, i) /\ MemoryBefore(more, i) = MemoryBefore(rows, i)
  <2>1. i \in Nat \ {0} /\ \A k \in 1 .. i - 1 : more[k] = rows[k]
    OBVIOUS
  <2> QED BY <2>1, SameBefore
<1>2. more[i] = rows[i] /\ (i # 1 => more[i - 1] = rows[i - 1])
  OBVIOUS
<1>3. RanRow(more, i)
  BY <1>1, <1>2 DEF MachineRow, RanRow, CheckedPc
<1>4. PcChain(more, i, more[i].pc)
  BY <1>2 DEF MachineRow, PcChain
<1> QED BY <1>2, <1>3, <1>4 DEF MachineRow

\* An executed instruction keeps the invariant of the run.
LEMMA RanKeeps ==
    ASSUME LaneTypeOK, MachineInv, NEW result, NEW next, NEW addr, NEW val, NEW write \in BOOLEAN,
           Ran(result, next, addr, val, write), UNCHANGED claims
    PROVE  LaneTypeOK' /\ MachineInv'
<1>1. /\ outcome = "running" /\ Len(trace) < LANE_STEPS /\ pc \in Slots /\ Inst.op \in Opcodes
      /\ Inst \in Instructions /\ Rs1 \in Words /\ Rs2 \in Words
      /\ addr \in Cells /\ val \in Words
  BY Operands DEF Ran
<1>2. PICK n, file : n = Len(trace) /\ file = MachineFile(Inst, registers, result)
  OBVIOUS
<1>3. PICK row : row = Row(result, next, addr, val, write, file)
  OBVIOUS
<1>4. /\ trace \in Seq(LaneRows) /\ n \in Nat /\ n < LANE_STEPS /\ registers \in Files
      /\ DOMAIN trace = 1 .. n
  BY <1>1, <1>2 DEF LaneTypeOK
<1>5. result = ExpectedResult(Inst, Rs1, Rs2, val) /\ next = ExpectedNext(Inst, pc, Rs1)
  BY DEF Ran
<1>6. result \in Words
  BY <1>1, <1>5, ResultSettled
<1>7. file \in Files
  BY <1>1, <1>2, <1>4, <1>6, FilesAgree
<1>8. next \in Nat
  BY <1>1, <1>5, TargetsAgree
<1>9. row \in LaneRows
  BY <1>1, <1>2, <1>3, <1>4, <1>6, <1>7, <1>8 DEF Row, LaneRows
<1>10. PICK t : t = trace'
  OBVIOUS
<1>11. /\ t = Append(trace, row) /\ registers' = file /\ pc' = next
       /\ gas_used' = gas_used + Gas(Inst.op)
       /\ UNCHANGED <<program, initial_regs, claims>>
       /\ memory' = (IF write THEN [memory EXCEPT ![addr] = Rs2] ELSE memory)
       /\ outcome' = (IF Inst.op = "Halt" THEN "ok" ELSE "running")
  BY <1>2, <1>3, <1>10 DEF Ran, Executed, Row
<1>12. /\ t \in Seq(LaneRows) /\ Len(t) = n + 1 /\ t[n + 1] = row /\ \A i \in 1 .. n : t[i] = trace[i]
       /\ t # <<>>
  BY <1>2, <1>4, <1>9, <1>11
<1>13. /\ row.pc = pc /\ row.inst = Inst /\ row.next_pc = next /\ row.regs = file
       /\ row.clk = n /\ row.rs1_val = Rs1 /\ row.rs2_val = Rs2 /\ row.rd_val_new = result
       /\ row.mem_addr = addr /\ row.mem_val = val /\ row.is_mem_write = write
  BY <1>2, <1>3 DEF Row
<1>14. FileBefore(t, n + 1) = registers /\ MemoryBefore(t, n + 1) = memory
  <2>1. n + 1 \in Nat \ {0} /\ \A k \in 1 .. (n + 1) - 1 : t[k] = trace[k]
    BY <1>4, <1>12
  <2>2. FileBefore(t, n + 1) = FileBefore(trace, n + 1) /\ MemoryBefore(t, n + 1) = MemoryBefore(trace, n + 1)
    BY <2>1, SameBefore
  <2> QED BY <1>2, <2>2 DEF MachineInv, Reached
<1>15. MachineRow(t, n + 1)
  <2>1. /\ AssertHolds(Inst, Rs1) /\ CheckedEvent(Inst, memory, Rs1, Rs2, addr, val, write)
        /\ Inst = program[pc] /\ MachineReads(Inst, registers, Rs1, Rs2)
    BY DEF Ran, Inst, MachineReads, Rs1, Rs2
  <2>2. PcChain(t, n + 1, pc) /\ CheckedPc(t, n + 1, pc)
    <3>1. n = 0 => pc = 0
      BY <1>2, <1>4 DEF MachineInv, Reached
    <3>2. n # 0 => t[(n + 1) - 1].next_pc = pc
      <4>1. n # 0 => n \in 1 .. n /\ (n + 1) - 1 = n /\ trace # <<>>
        BY <1>2, <1>4
      <4> QED BY <1>2, <1>12, <4>1 DEF MachineInv, Reached
    <3> QED BY <1>1, <1>4, <3>1, <3>2 DEF PcChain, CheckedPc
  <2>3. row.clk = (n + 1) - 1
    BY <1>4, <1>13
  <2> HIDE DEF Inst, Rs1, Rs2
  <2>4. RanRow(t, n + 1)
    BY <1>1, <1>2, <1>5, <1>12, <1>13, <1>14, <2>1, <2>2, <2>3 DEF RanRow
  <2> QED BY <1>12, <1>13, <2>1, <2>2, <2>4 DEF MachineRow
<1>16. \A i \in 1 .. n + 1 : MachineRow(t, i)
  <2> SUFFICES ASSUME NEW i \in 1 .. n + 1 PROVE MachineRow(t, i)
    OBVIOUS
  <2>1. CASE i = n + 1
    BY <1>15, <2>1
  <2>2. CASE i # n + 1
    <3>1. i \in 1 .. Len(trace) /\ Len(trace) <= Len(t)
      BY <1>2, <1>4, <1>12, <2>2
    <3>2. MachineRow(trace, i)
      BY <3>1 DEF MachineInv
    <3> QED BY <1>2, <1>4, <1>12, <3>1, <3>2, SameVerdict
  <2> QED BY <2>1, <2>2
<1>17. Reached'
  <2>1. FileBefore(t, n + 2) = file
    BY <1>4, <1>12, <1>13, (n + 2) - 1 = n + 1, n + 2 # 1 DEF FileBefore
  <2>2. MemoryBefore(t, (n + 1) + 1) = IF write THEN [memory EXCEPT ![addr] = Rs2] ELSE memory
    <3>1. n + 1 \in Nat \ {0}
      BY <1>4
    <3>2. t[n + 1].is_mem_write = write /\ t[n + 1].mem_addr = addr /\ t[n + 1].rs2_val = Rs2
      BY <1>12, <1>13
    <3> QED BY <1>14, <3>1, <3>2, MemoryCarried
  <2>3. (n + 1) + 1 = n + 2 /\ Len(t) + 1 = n + 2
    BY <1>4, <1>12
  <2>4. PICK m : m = n + 2
    OBVIOUS
  <2>5. FileBefore(t, m)' = file
    BY <1>11, <2>1, <2>4, SameRules
  <2>6. MemoryBefore(t, m)' = MemoryBefore(t, m)
    BY DEF MemoryBefore
  <2> QED BY <1>10, <1>11, <1>12, <1>13, <2>2, <2>3, <2>4, <2>5, <2>6 DEF Reached
<1>18. \A i \in 1 .. n + 1 : t[i].inst.op = "Halt" <=> (i = n + 1 /\ outcome' = "ok")
  <2> SUFFICES ASSUME NEW i \in 1 .. n + 1
               PROVE  t[i].inst.op = "Halt" <=> (i = n + 1 /\ outcome' = "ok")
    OBVIOUS
  <2>1. CASE i = n + 1
    BY <1>11, <1>12, <1>13, <2>1
  <2>2. CASE i # n + 1
    <3>1. i \in 1 .. Len(trace) /\ t[i] = trace[i]
      BY <1>2, <1>4, <1>12, <2>2
    <3> QED BY <1>1, <2>2, <3>1 DEF MachineInv
  <2> QED BY <2>1, <2>2
<1>19. gas_used' = GasOf(t)
  <2>1. gas_used = GasOf(trace)
    BY <1>1 DEF MachineInv
  <2>2. GasOf(t) = GasOf(trace) + Gas(row.inst.op)
    BY <1>4, <1>9, <1>11, GasGrows
  <2> QED BY <1>11, <1>13, <2>1, <2>2
<1>20. LaneTypeOK'
  <2>1. memory' \in [Cells -> Words]
    BY <1>1, <1>11 DEF LaneTypeOK
  <2>2. Len(t) <= LANE_STEPS
    BY <1>4, <1>12, LaneSizes
  <2> QED BY <1>7, <1>8, <1>10, <1>11, <1>12, <2>1, <2>2 DEF LaneTypeOK
<1>21. MachineInv'
  <2>1. \A i \in 1 .. n + 1 : MachineRow(t, i)'
    BY <1>11, <1>16, SameRules
  <2>2. Refusal'
    BY <1>11 DEF Refusal
  <2>4. /\ Reached' /\ Refusal' /\ Len(t) = n + 1 /\ t # <<>>
        /\ \A i \in 1 .. Len(t) : MachineRow(t, i)'
        /\ \A i \in 1 .. Len(t) : t[i].inst.op = "Halt" <=> (i = Len(t) /\ outcome' = "ok")
        /\ gas_used' = GasOf(t)
    BY <1>12, <1>17, <1>18, <1>19, <2>1, <2>2
  <2> QED BY <1>10, <2>4 DEF MachineInv
<1> QED BY <1>20, <1>21

\* A refusal moves nothing but the outcome, and says why.
LEMMA RefusedKeeps ==
    ASSUME LaneTypeOK, MachineInv, UNCHANGED claims,
           AssertionFailed \/ InvalidMemoryAccess \/ InvalidPc \/ InvalidOpcode \/ StepLimitExceeded
    PROVE  LaneTypeOK' /\ MachineInv'
<1>1. /\ outcome = "running"
      /\ outcome' \in {"AssertionFailed", "InvalidMemoryAccess", "InvalidPc", "InvalidOpcode",
                       "StepLimitExceeded"}
      /\ UNCHANGED <<program, initial_regs, pc, registers, memory, trace, claims>>
  BY DEF AssertionFailed, InvalidMemoryAccess, InvalidPc, InvalidOpcode, StepLimitExceeded, Fetches,
         Refused
<1>2. LaneTypeOK'
  BY <1>1 DEF LaneTypeOK
<1>3. Refusal'
  <2>1. Inst' = Inst /\ Rs1' = Rs1
    BY <1>1 DEF Inst, Rs1
  <2>2. Addressable(Rs1, Inst.imm)' <=> Addressable(Rs1, Inst.imm)
    BY <2>1 DEF Addressable, Address
  <2>3. TouchesMemory(Inst)' <=> TouchesMemory(Inst)
    BY <2>1 DEF TouchesMemory
  <2>4. CASE AssertionFailed
    BY <2>1, <2>4 DEF Refusal, AssertionFailed, Refused, Fetches
  <2>5. CASE InvalidMemoryAccess
    <3>1. TouchesMemory(Inst) /\ ~Addressable(Rs1, Inst.imm) /\ outcome' = "InvalidMemoryAccess"
      BY <2>5 DEF InvalidMemoryAccess, Refused, Fetches, TouchesMemory
    <3> QED BY <2>2, <2>3, <3>1 DEF Refusal
  <2>6. CASE InvalidPc
    BY <1>1, <2>6 DEF Refusal, InvalidPc, Refused
  <2>7. CASE InvalidOpcode
    BY <2>1, <2>7 DEF Refusal, InvalidOpcode, Refused, Fetches, Opcodes
  <2>8. CASE StepLimitExceeded
    <3>1. Len(trace) = LANE_STEPS /\ outcome' = "StepLimitExceeded"
      BY <2>8, LaneSizes DEF StepLimitExceeded, Refused, LaneTypeOK
    <3> QED BY <1>1, <3>1 DEF Refusal
  <2> QED BY <2>4, <2>5, <2>6, <2>7, <2>8
<1>4. MachineInv'
  <2>1. PICK t : t = trace
    OBVIOUS
  <2>2. /\ \A i \in 1 .. Len(t) : MachineRow(t, i)
        /\ \A i \in 1 .. Len(t) : t[i].inst.op # "Halt"
        /\ registers = FileBefore(t, Len(t) + 1) /\ memory = MemoryBefore(t, Len(t) + 1)
        /\ pc = IF t = <<>> THEN 0 ELSE t[Len(t)].next_pc
    BY <1>1, <2>1 DEF MachineInv, Reached
  <2>3. \A i \in 1 .. Len(t) : MachineRow(t, i)'
    BY <1>1, <2>2, SameRules
  <2>4. FileBefore(t, Len(t) + 1)' = FileBefore(t, Len(t) + 1)
    BY <1>1, SameRules
  <2>5. MemoryBefore(t, Len(t) + 1)' = MemoryBefore(t, Len(t) + 1)
    BY DEF MemoryBefore
  <2>6. Reached'
    BY <1>1, <2>1, <2>2, <2>4, <2>5 DEF Reached
  <2> QED BY <1>1, <1>3, <2>1, <2>2, <2>3, <2>6 DEF MachineInv
<1> QED BY <1>2, <1>4

\* The registers a row finds are registers.
LEMMA FileTyped ==
    ASSUME NEW rows \in Seq(LaneRows), initial_regs \in Files, NEW i \in 1 .. Len(rows) + 1
    PROVE  FileBefore(rows, i) \in Files
<1>1. i # 1 => i - 1 \in 1 .. Len(rows)
  OBVIOUS
<1>2. i # 1 => rows[i - 1] \in LaneRows
  BY <1>1
<1> QED BY <1>2 DEF FileBefore, LaneRows

\* Where a row of the run leads is where the next one stands.
LEMMA NextStands ==
    ASSUME LaneTypeOK, MachineInv, NEW i \in 1 .. Len(trace)
    PROVE  /\ i < Len(trace) => trace[i].next_pc = trace[i + 1].pc /\ trace[i].next_pc \in Slots
           /\ i = Len(trace) => trace[i].next_pc = pc
<1>1. ASSUME i < Len(trace)
      PROVE  trace[i].next_pc = trace[i + 1].pc /\ trace[i].next_pc \in Slots
  <2>1. i + 1 \in 1 .. Len(trace) /\ i + 1 # 1 /\ (i + 1) - 1 = i
    BY <1>1 DEF LaneTypeOK
  <2>2. PcChain(trace, i + 1, trace[i + 1].pc)
    BY <2>1 DEF MachineInv, MachineRow
  <2> QED BY <2>1, <2>2 DEF PcChain
<1>2. trace # <<>>
  BY DEF LaneTypeOK
<1> QED BY <1>1, <1>2 DEF MachineInv, Reached

\* The row a run ends with says what the machine would do for ever.
LEMMA HaltRow ==
    ASSUME LaneTypeOK, MachineInv, outcome = "ok"
    PROVE  /\ Len(trace) \in 1 .. LANE_STEPS
           /\ \E h \in LaneRows :
                /\ h = trace[Len(trace)] /\ h.inst.op = "Halt" /\ h.inst = program[h.pc]
                /\ h.next_pc = h.pc /\ pc = h.pc
                /\ MachineReads(h.inst, h.regs, h.rs1_val, h.rs2_val)
                /\ h.mem_addr = 0 /\ h.mem_val = 0 /\ h.is_mem_write = FALSE /\ h.rd_val_new = 0
                /\ MachineFile(h.inst, h.regs, 0) = h.regs
<1>1. PICK n : n = Len(trace)
  OBVIOUS
<1>2. n \in 1 .. LANE_STEPS /\ n \in 1 .. Len(trace) /\ trace \in Seq(LaneRows)
  BY <1>1 DEF LaneTypeOK, MachineInv
<1>3. PICK h \in LaneRows : h = trace[n]
  BY <1>2
<1>4. MachineRow(trace, n) /\ h.inst.op = "Halt"
  BY <1>1, <1>2, <1>3 DEF MachineInv
<1>5. PICK file \in Files : file = FileBefore(trace, n)
  BY <1>2, FileTyped DEF LaneTypeOK
<1>6. /\ h.inst = program[h.pc] /\ MachineReads(h.inst, file, h.rs1_val, h.rs2_val)
      /\ CheckedEvent(h.inst, MemoryBefore(trace, n), h.rs1_val, h.rs2_val,
                      h.mem_addr, h.mem_val, h.is_mem_write)
      /\ h.rd_val_new = ExpectedResult(h.inst, h.rs1_val, h.rs2_val, h.mem_val)
      /\ h.next_pc = ExpectedNext(h.inst, h.pc, h.rs1_val)
      /\ h.regs = MachineFile(h.inst, file, h.rd_val_new)
  BY <1>3, <1>4, <1>5 DEF MachineRow, RanRow
<1>7. h.inst \in Instructions /\ h.inst.op \notin Writing /\ h.is_mem_write \in BOOLEAN
  BY <1>3, <1>4 DEF LaneRows, Writing
<1>8. h.rd_val_new = 0 /\ h.next_pc = h.pc
  BY <1>4, <1>6, <1>7 DEF ExpectedResult, ExpectedNext, Jumps
<1>9. h.mem_addr = 0 /\ h.mem_val = 0 /\ h.is_mem_write = FALSE
  BY <1>4, <1>6, <1>7 DEF CheckedEvent, TouchesMemory
<1>10. h.regs = file /\ MachineFile(h.inst, h.regs, 0) = h.regs
  BY <1>6, <1>7, <1>8, LaneSizes, FilesAgree
<1>11. pc = h.pc
  BY <1>1, <1>2, <1>3, <1>8, NextStands
<1> QED BY <1>1, <1>2, <1>3, <1>4, <1>6, <1>8, <1>9, <1>10, <1>11

-----------------------------------------------------------------------------
(* The rows of a prover.                                                   *)

\* A claimed row is the machine's own; where it leads outside the program the
\* circuit counts on and the machine wraps.
Alike(r, q) ==
    /\ r = [q EXCEPT !.next_pc = r.next_pc]
    /\ r.next_pc = q.next_pc \/ (r.next_pc \notin Slots /\ q.next_pc \notin Slots)

ClaimInv ==
    /\ claims # <<>> => outcome # "running"
    /\ \A t \in 1 .. Len(claims) : t <= Len(trace) => Alike(claims[t], trace[t])
    /\ \A t \in 1 .. Len(claims) :
         t > Len(trace) => outcome = "ok" /\ claims[t] = [trace[Len(trace)] EXCEPT !.clk = t - 1]

\* The inductive invariant of the lane.
LaneInv == LaneTypeOK /\ MachineInv /\ ClaimInv

\* As far as the run went, a claim finds what the machine found.
LEMMA ClaimFinds ==
    ASSUME LaneInv, NEW n \in Nat, n = Len(claims), n <= Len(trace),
           NEW slot \in Slots, PcChain(claims, n + 1, slot)
    PROVE  /\ FileBefore(claims, n + 1) = FileBefore(trace, n + 1)
           /\ MemoryBefore(claims, n + 1) = MemoryBefore(trace, n + 1)
           /\ slot = IF n < Len(trace) THEN trace[n + 1].pc ELSE pc
<1>1. \A k \in 1 .. n : claims[k] \in LaneRows /\ trace[k] \in LaneRows /\ Alike(claims[k], trace[k])
  BY DEF LaneInv, LaneTypeOK, ClaimInv
<1>2. \A k \in 1 .. n : /\ claims[k].regs = trace[k].regs
                        /\ claims[k].is_mem_write = trace[k].is_mem_write
                        /\ claims[k].mem_addr = trace[k].mem_addr
                        /\ claims[k].rs2_val = trace[k].rs2_val
  BY <1>1 DEF Alike, LaneRows
<1>3. /\ FileBefore(claims, n + 1) = FileBefore(trace, n + 1)
      /\ MemoryBefore(claims, n + 1) = MemoryBefore(trace, n + 1)
  <2>1. n + 1 \in Nat \ {0} /\ (n + 1) - 1 = n
    OBVIOUS
  <2> QED BY <1>2, <2>1, SameBefore
<1>4. slot = IF n < Len(trace) THEN trace[n + 1].pc ELSE pc
  <2>1. CASE n = 0
    <3>1. slot = 0
      BY <2>1 DEF PcChain
    <3>2. n < Len(trace) => trace[n + 1].pc = 0
      <4>1. n < Len(trace) => 1 \in 1 .. Len(trace)
        BY <2>1 DEF LaneInv, LaneTypeOK
      <4> QED BY <2>1, <4>1 DEF LaneInv, MachineInv, MachineRow, PcChain
    <3>3. ~(n < Len(trace)) => pc = 0
      BY <2>1 DEF LaneInv, LaneTypeOK, MachineInv, Reached
    <3> QED BY <3>1, <3>2, <3>3
  <2>2. CASE n # 0
    <3>1. n \in 1 .. n /\ n \in 1 .. Len(trace) /\ n + 1 # 1 /\ (n + 1) - 1 = n
      BY <2>2 DEF LaneInv, LaneTypeOK
    <3>2. slot = claims[n].next_pc
      BY <3>1 DEF PcChain
    <3>3. slot = trace[n].next_pc
      BY <1>1, <3>1, <3>2 DEF Alike
    <3> QED BY <3>1, <3>3, NextStands DEF LaneInv
  <2> QED BY <2>1, <2>2
<1> QED BY <1>3, <1>4

\* A claimed row meets the checker: the circuit left the prover one choice, but
\* for a target outside the program.
LEMMA ClaimSettled ==
    ASSUME NEW slot \in Slots, NEW inst \in Instructions, inst.op \in Opcodes, InsideFile(inst),
           NEW file \in Files, NEW mem, NEW a \in Words, NEW b \in Words,
           NEW addr \in Cells, NEW val \in Words, NEW write \in BOOLEAN, NEW result,
           MemoryEvent(inst, mem, a, b, addr, val, write),
           InRange(result), ResultTerm(inst, a, b, val, result)
    PROVE  /\ CheckedEvent(inst, mem, a, b, addr, val, write)
           /\ result = ExpectedResult(inst, a, b, val) /\ result \in Words
           /\ RegsNext(inst, file, result) = MachineFile(inst, file, result)
           /\ RegsNext(inst, file, result) \in Files
           /\ NextPc(inst, slot, a) \in Int
           /\ \/ NextPc(inst, slot, a) = ExpectedNext(inst, slot, a)
              \/ NextPc(inst, slot, a) \notin Slots /\ ExpectedNext(inst, slot, a) \notin Slots
<1>1. CheckedEvent(inst, mem, a, b, addr, val, write)
  BY EventsAgree
<1>2. result = ExpectedResult(inst, a, b, val) /\ result \in Words
  BY ResultSettled
<1>3. /\ RegsNext(inst, file, result) = MachineFile(inst, file, result)
      /\ RegsNext(inst, file, result) \in Files
  BY <1>2, FilesAgree
<1>4. /\ NextPc(inst, slot, a) \in Int
      /\ \/ NextPc(inst, slot, a) = ExpectedNext(inst, slot, a)
         \/ NextPc(inst, slot, a) \notin Slots /\ ExpectedNext(inst, slot, a) \notin Slots
  BY TargetsAgree
<1> QED BY <1>1, <1>2, <1>3, <1>4

\* A row is alike to one whose other fields it has.
LEMMA RowsAlike ==
    ASSUME NEW r \in LaneRows, NEW q \in LaneRows,
           r.clk = q.clk, r.pc = q.pc, r.inst = q.inst, r.rs1_val = q.rs1_val, r.rs2_val = q.rs2_val,
           r.rd_val_new = q.rd_val_new, r.mem_addr = q.mem_addr, r.mem_val = q.mem_val,
           r.is_mem_write = q.is_mem_write, r.regs = q.regs
    PROVE  r = [q EXCEPT !.next_pc = r.next_pc]
  BY DEF LaneRows

\* The same of a row behind the run, which differs in its clock.
LEMMA RowsRepeat ==
    ASSUME NEW r \in LaneRows, NEW q \in LaneRows,
           r.next_pc = q.next_pc, r.pc = q.pc, r.inst = q.inst, r.rs1_val = q.rs1_val,
           r.rs2_val = q.rs2_val, r.rd_val_new = q.rd_val_new, r.mem_addr = q.mem_addr,
           r.mem_val = q.mem_val, r.is_mem_write = q.is_mem_write, r.regs = q.regs
    PROVE  r = [q EXCEPT !.clk = r.clk]
  BY DEF LaneRows

\* Before the end of the run, a claim the circuit takes is the machine's row.
LEMMA ClaimIsRow ==
    ASSUME LaneInv, NEW n \in Nat, n = Len(claims), n < Len(trace),
           NEW slot \in Slots, NEW a \in Words, NEW b \in Words,
           NEW addr \in Cells, NEW val \in Words, NEW write \in BOOLEAN, NEW result,
           NEW inst, inst = program[slot], NEW file, file = FileBefore(claims, n + 1),
           PcChain(claims, n + 1, slot), inst.op \in Opcodes, InsideFile(inst), Reads(inst, file, a, b),
           MemoryEvent(inst, MemoryBefore(claims, n + 1), a, b, addr, val, write),
           InRange(result), ResultTerm(inst, a, b, val, result),
           NEW row, row = ClaimedRow(n + 1, slot, a, b, result, NextPc(inst, slot, a), addr, val, write,
                                     RegsNext(inst, file, result))
    PROVE  row \in LaneRows /\ Alike(row, trace[n + 1])
<1>1. /\ n + 1 \in 1 .. Len(trace) /\ trace \in Seq(LaneRows) /\ program \in [Slots -> Instructions]
      /\ initial_regs \in Files /\ n <= Len(trace) /\ Len(trace) \in Nat
  BY DEF LaneInv, LaneTypeOK
<1>2. PICK q \in LaneRows : q = trace[n + 1]
  BY <1>1
<1>3. /\ file = FileBefore(trace, n + 1) /\ MemoryBefore(claims, n + 1) = MemoryBefore(trace, n + 1)
      /\ slot = q.pc
  BY <1>1, <1>2, ClaimFinds
<1>4. MachineRow(trace, n + 1)
  BY <1>1 DEF LaneInv, MachineInv
<1>5. /\ q.clk = (n + 1) - 1 /\ q.inst = program[q.pc] /\ MachineReads(q.inst, file, q.rs1_val, q.rs2_val)
      /\ CheckedEvent(q.inst, MemoryBefore(trace, n + 1), q.rs1_val, q.rs2_val,
                      q.mem_addr, q.mem_val, q.is_mem_write)
      /\ q.rd_val_new = ExpectedResult(q.inst, q.rs1_val, q.rs2_val, q.mem_val)
      /\ q.next_pc = ExpectedNext(q.inst, q.pc, q.rs1_val)
      /\ q.regs = MachineFile(q.inst, file, q.rd_val_new)
  BY <1>2, <1>3, <1>4 DEF MachineRow, RanRow
<1>6. file \in Files /\ inst \in Instructions /\ q.is_mem_write \in BOOLEAN
  <2>1. file \in Files
    BY <1>1, <1>3, FileTyped
  <2> QED BY <1>1, <1>2, <2>1 DEF LaneRows
<1>7. inst = q.inst /\ a = q.rs1_val /\ b = q.rs2_val
  <2>1. inst = q.inst
    BY <1>3, <1>5
  <2>2. MachineReads(inst, file, a, b)
    BY <1>6, InsideAgree
  <2> QED BY <1>5, <2>1, <2>2 DEF MachineReads
<1>8. /\ CheckedEvent(inst, MemoryBefore(trace, n + 1), a, b, addr, val, write)
      /\ result = ExpectedResult(inst, a, b, val) /\ result \in Words
      /\ RegsNext(inst, file, result) = MachineFile(inst, file, result)
      /\ RegsNext(inst, file, result) \in Files
      /\ NextPc(inst, slot, a) \in Int
      /\ \/ NextPc(inst, slot, a) = ExpectedNext(inst, slot, a)
         \/ NextPc(inst, slot, a) \notin Slots /\ ExpectedNext(inst, slot, a) \notin Slots
  BY <1>3, <1>6, ClaimSettled
<1>9. addr = q.mem_addr /\ val = q.mem_val /\ write = q.is_mem_write
  BY <1>5, <1>6, <1>7, <1>8, OneEvent
<1>10. result = q.rd_val_new
  BY <1>5, <1>7, <1>8, <1>9
<1>11. /\ row.clk = (n + 1) - 1 /\ row.pc = slot /\ row.inst = inst /\ row.rs1_val = a
       /\ row.rs2_val = b /\ row.rd_val_new = result /\ row.next_pc = NextPc(inst, slot, a)
       /\ row.mem_addr = addr /\ row.mem_val = val /\ row.is_mem_write = write
       /\ row.regs = RegsNext(inst, file, result)
  BY DEF ClaimedRow
<1>12. row \in LaneRows
  <2>1. (n + 1) - 1 \in Nat
    OBVIOUS
  <2> QED BY <1>6, <1>8, <2>1 DEF ClaimedRow, LaneRows
<1>13. row.regs = q.regs
  <2>1. row.regs = MachineFile(inst, file, result)
    BY <1>8, <1>11
  <2>2. q.regs = MachineFile(q.inst, file, q.rd_val_new)
    BY <1>5
  <2> QED BY <1>7, <1>10, <2>1, <2>2
<1>14. row = [q EXCEPT !.next_pc = row.next_pc]
  <2>1. /\ row.clk = q.clk /\ row.pc = q.pc /\ row.inst = q.inst /\ row.rs1_val = q.rs1_val
        /\ row.rs2_val = q.rs2_val /\ row.rd_val_new = q.rd_val_new
        /\ row.mem_addr = q.mem_addr /\ row.mem_val = q.mem_val
        /\ row.is_mem_write = q.is_mem_write /\ row.regs = q.regs
    BY <1>3, <1>5, <1>7, <1>9, <1>10, <1>11, <1>13
  <2> QED BY <1>12, <2>1, RowsAlike
<1>15. row.next_pc = q.next_pc \/ (row.next_pc \notin Slots /\ q.next_pc \notin Slots)
  <2>1. q.next_pc = ExpectedNext(inst, slot, a)
    <3>1. q.next_pc = ExpectedNext(q.inst, q.pc, q.rs1_val)
      BY <1>5
    <3> QED BY <1>3, <1>7, <3>1
  <2>2. row.next_pc = NextPc(inst, slot, a)
    BY <1>11
  <2>3. \/ NextPc(inst, slot, a) = ExpectedNext(inst, slot, a)
        \/ NextPc(inst, slot, a) \notin Slots /\ ExpectedNext(inst, slot, a) \notin Slots
    BY <1>8
  <2> QED BY <2>1, <2>2, <2>3
<1> QED BY <1>2, <1>12, <1>14, <1>15 DEF Alike

\* Where the machine refused to go on, the circuit takes no claim.
LEMMA NoClaim ==
    ASSUME LaneInv, NEW n \in Nat, n = Len(claims), n = Len(trace), n < LANE_STEPS,
           outcome # "running", outcome # "ok",
           NEW slot \in Slots, NEW a \in Words, NEW b \in Words,
           NEW addr \in Cells, NEW val \in Words, NEW write \in BOOLEAN,
           NEW inst, inst = program[slot], NEW file, file = FileBefore(claims, n + 1),
           PcChain(claims, n + 1, slot), inst.op \in Opcodes, InsideFile(inst), Reads(inst, file, a, b),
           AssertHolds(inst, a),
           MemoryEvent(inst, MemoryBefore(claims, n + 1), a, b, addr, val, write)
    PROVE  FALSE
<1>1. slot = pc /\ file = registers
  BY ClaimFinds DEF LaneInv, MachineInv, Reached
<1>2. inst = Inst /\ a = Rs1 /\ Refusal /\ inst \in Instructions
  <2>1. inst = Inst /\ Refusal /\ inst \in Instructions
    BY <1>1 DEF Inst, LaneInv, LaneTypeOK, MachineInv
  <2>2. MachineReads(inst, file, a, b)
    BY <2>1, InsideAgree
  <2> QED BY <1>1, <2>1, <2>2 DEF Rs1, MachineReads
<1>3. outcome # "AssertionFailed"
  BY <1>2 DEF Refusal, AssertHolds
<1>4. outcome # "InvalidMemoryAccess"
  <2> SUFFICES ASSUME outcome = "InvalidMemoryAccess" PROVE FALSE
    OBVIOUS
  <2>1. TouchesMemory(inst) /\ ~Addressable(a, inst.imm)
    BY <1>2 DEF Refusal
  <2>2. a + inst.imm \in Cells
    BY <2>1 DEF MemoryEvent
  <2>3. ~(a < Modulus \div 2)
    BY <2>1, <2>2 DEF Addressable, Address
  <2> QED BY <1>2, <2>2, <2>3, BeyondMemory
<1>5. outcome # "InvalidPc" /\ outcome # "InvalidOpcode" /\ outcome # "StepLimitExceeded"
  BY <1>1, <1>2, LaneSizes DEF Refusal
<1> QED BY <1>3, <1>4, <1>5 DEF LaneInv, LaneTypeOK

\* Behind a run that ended well, a claim the circuit takes repeats the halt.
LEMMA ClaimIsHalt ==
    ASSUME LaneInv, NEW n \in Nat, n = Len(claims), n >= Len(trace), outcome = "ok",
           NEW slot \in Slots, NEW a \in Words, NEW b \in Words,
           NEW addr \in Cells, NEW val \in Words, NEW write \in BOOLEAN, NEW result,
           NEW inst, inst = program[slot], NEW file, file = FileBefore(claims, n + 1),
           PcChain(claims, n + 1, slot), inst.op \in Opcodes, HaltPattern(claims, n + 1, inst),
           InsideFile(inst), Reads(inst, file, a, b),
           MemoryEvent(inst, MemoryBefore(claims, n + 1), a, b, addr, val, write),
           InRange(result), ResultTerm(inst, a, b, val, result),
           NEW row, row = ClaimedRow(n + 1, slot, a, b, result, NextPc(inst, slot, a), addr, val, write,
                                     RegsNext(inst, file, result))
    PROVE  row \in LaneRows /\ row = [trace[Len(trace)] EXCEPT !.clk = n]
<1>1. PICK h \in LaneRows :
        /\ h = trace[Len(trace)] /\ h.inst.op = "Halt" /\ h.inst = program[h.pc]
        /\ h.next_pc = h.pc /\ pc = h.pc
        /\ MachineReads(h.inst, h.regs, h.rs1_val, h.rs2_val)
        /\ h.mem_addr = 0 /\ h.mem_val = 0 /\ h.is_mem_write = FALSE /\ h.rd_val_new = 0
        /\ MachineFile(h.inst, h.regs, 0) = h.regs
  BY HaltRow DEF LaneInv
<1>2. n \in 1 .. n /\ n \in 1 .. Len(claims) /\ n + 1 # 1 /\ n + 1 > 1 /\ (n + 1) - 1 = n
      /\ Len(trace) \in Nat /\ Len(trace) >= 1
  BY HaltRow DEF LaneInv
<1>3. claims[n].inst = h.inst /\ claims[n].regs = h.regs /\ slot = h.pc
  <2>1. slot = claims[n].next_pc
    BY <1>2 DEF PcChain
  <2>2. CASE n = Len(trace)
    <3>1. Alike(claims[n], h)
      BY <1>1, <1>2, <2>2 DEF LaneInv, ClaimInv
    <3> QED BY <1>1, <2>1, <3>1 DEF Alike, LaneRows
  <2>3. CASE n > Len(trace)
    <3>1. claims[n] = [h EXCEPT !.clk = n - 1]
      BY <1>1, <1>2, <2>3 DEF LaneInv, ClaimInv
    <3> QED BY <1>1, <2>1, <3>1 DEF LaneRows
  <2> QED BY <1>2, <2>2, <2>3
<1>4. inst = h.inst /\ inst.op = "Halt" /\ file = h.regs
  BY <1>1, <1>2, <1>3 DEF FileBefore
<1>5. /\ h.regs \in Files /\ inst \in Instructions /\ h.pc \in Slots
      /\ inst.op \notin Writing /\ ~TouchesMemory(inst)
  BY <1>1, <1>4 DEF LaneRows, Writing, TouchesMemory
<1>6. a = h.rs1_val /\ b = h.rs2_val
  <2>1. MachineReads(inst, file, a, b)
    BY <1>5, InsideAgree
  <2> QED BY <1>1, <1>4, <2>1 DEF MachineReads
<1>7. addr = 0 /\ val = 0 /\ write = FALSE
  BY <1>4, <1>5 DEF MemoryEvent
<1>8. result = 0 /\ RegsNext(inst, file, result) = h.regs
  <2>1. /\ result = ExpectedResult(inst, a, b, val)
        /\ RegsNext(inst, file, result) = MachineFile(inst, file, result)
    BY <1>4, <1>5, ClaimSettled
  <2>2. result = 0
    BY <1>4, <1>5, <2>1 DEF ExpectedResult, Writing
  <2> QED BY <1>1, <1>4, <2>1, <2>2
<1>9. NextPc(inst, slot, a) = slot
  BY <1>4 DEF NextPc, Jumps
<1>10. /\ row.clk = n /\ row.pc = slot /\ row.inst = inst /\ row.rs1_val = a
       /\ row.rs2_val = b /\ row.rd_val_new = result /\ row.next_pc = slot
       /\ row.mem_addr = addr /\ row.mem_val = val /\ row.is_mem_write = write
       /\ row.regs = h.regs
  BY <1>2, <1>8, <1>9 DEF ClaimedRow
<1>11. row \in LaneRows
  BY <1>2, <1>5, <1>8, <1>9, LaneSizes DEF ClaimedRow, LaneRows
<1>12. row = [h EXCEPT !.clk = row.clk]
  <2>1. /\ row.next_pc = h.next_pc /\ row.pc = h.pc /\ row.inst = h.inst
        /\ row.rs1_val = h.rs1_val /\ row.rs2_val = h.rs2_val /\ row.rd_val_new = h.rd_val_new
        /\ row.mem_addr = h.mem_addr /\ row.mem_val = h.mem_val
        /\ row.regs = h.regs
    <3>1. row.pc = h.pc /\ row.inst = h.inst /\ row.regs = h.regs
      BY <1>3, <1>4, <1>10
    <3>2. row.next_pc = h.next_pc
      BY <1>1, <1>3, <1>10
    <3>3. row.rs1_val = h.rs1_val /\ row.rs2_val = h.rs2_val
      BY <1>6, <1>10
    <3>4. row.rd_val_new = h.rd_val_new /\ row.mem_addr = h.mem_addr /\ row.mem_val = h.mem_val
      BY <1>1, <1>7, <1>8, <1>10
    <3> QED BY <3>1, <3>2, <3>3, <3>4
  <2>2. row.is_mem_write = h.is_mem_write
    BY <1>1, <1>7, <1>10, Zenon
  <2> QED BY <1>11, <2>1, <2>2, RowsRepeat
<1> QED BY <1>1, <1>10, <1>11, <1>12

\* The run does not move while rows are claimed.
LEMMA MachineStays ==
    ASSUME MachineInv, UNCHANGED vmVars
    PROVE  MachineInv'
<1>1. UNCHANGED <<program, initial_regs, pc, registers, memory, trace, gas_used, outcome>>
  BY DEF vmVars
<1>2. PICK t : t = trace
  OBVIOUS
<1>3. \A i \in 1 .. Len(t) : MachineRow(t, i)'
  BY <1>1, <1>2, SameRules DEF MachineInv
<1>4. Reached'
  <2>1. FileBefore(t, Len(t) + 1)' = FileBefore(t, Len(t) + 1)
    BY <1>1, SameRules
  <2>2. MemoryBefore(t, Len(t) + 1)' = MemoryBefore(t, Len(t) + 1)
    BY DEF MemoryBefore
  <2> QED BY <1>1, <1>2, <2>1, <2>2 DEF MachineInv, Reached
<1>5. Refusal'
  BY <1>1 DEF MachineInv, Refusal, Inst, Rs1, Addressable, Address, TouchesMemory
<1> QED BY <1>1, <1>2, <1>3, <1>4, <1>5 DEF MachineInv

\* A claim the circuit takes keeps the invariant.
LEMMA ClaimKeeps ==
    ASSUME LaneInv, ClaimToCircuit
    PROVE  LaneInv'
<1>1. PICK n : n = Len(claims)
  OBVIOUS
<1>2. /\ outcome # "running" /\ n < LANE_STEPS /\ n \in Nat /\ UNCHANGED vmVars
      /\ claims \in Seq(LaneRows) /\ Len(trace) \in Nat
      /\ UNCHANGED <<program, initial_regs, pc, registers, memory, trace, gas_used, outcome>>
  BY <1>1 DEF ClaimToCircuit, MayClaim, LaneInv, LaneTypeOK, vmVars
<1>3. PICK row : /\ claims' = Append(claims, row) /\ row \in LaneRows
                 /\ n < Len(trace) => Alike(row, trace[n + 1])
                 /\ ~(n < Len(trace)) => outcome = "ok" /\ row = [trace[Len(trace)] EXCEPT !.clk = n]
  <2>1. PICK file : file = FileBefore(claims, n + 1)
    OBVIOUS
  <2>2. PICK slot \in Slots, a \in Words, b \in Words, inst \in Instructions :
          /\ inst = program[slot]
          /\ PcChain(claims, n + 1, slot) /\ inst.op \in Opcodes /\ HaltPattern(claims, n + 1, inst)
          /\ InsideFile(inst) /\ Reads(inst, file, a, b) /\ AssertHolds(inst, a)
          /\ \E addr \in Cells, val \in Words, write \in BOOLEAN :
             /\ MemoryEvent(inst, MemoryBefore(claims, n + 1), a, b, addr, val, write)
             /\ \E result \in -Modulus .. Modulus * Modulus :
                /\ InRange(result) /\ ResultTerm(inst, a, b, val, result)
                /\ claims' = Append(claims,
                     ClaimedRow(n + 1, slot, a, b, result, NextPc(inst, slot, a), addr, val, write,
                                RegsNext(inst, file, result)))
    BY <1>1, <2>1 DEF ClaimToCircuit, Encodable, LaneInv, LaneTypeOK
  <2>3. /\ inst = program[slot] /\ PcChain(claims, n + 1, slot) /\ inst.op \in Opcodes
         /\ HaltPattern(claims, n + 1, inst) /\ InsideFile(inst) /\ Reads(inst, file, a, b) /\ AssertHolds(inst, a)
    BY <2>2
  <2>4. PICK addr \in Cells, val \in Words, write \in BOOLEAN,
            result \in -Modulus .. Modulus * Modulus :
             /\ MemoryEvent(inst, MemoryBefore(claims, n + 1), a, b, addr, val, write)
             /\ InRange(result) /\ ResultTerm(inst, a, b, val, result)
             /\ claims' = Append(claims,
                  ClaimedRow(n + 1, slot, a, b, result, NextPc(inst, slot, a), addr, val, write,
                             RegsNext(inst, file, result)))
    BY <2>2
  <2>5. PICK row : row = ClaimedRow(n + 1, slot, a, b, result, NextPc(inst, slot, a), addr, val, write,
                                    RegsNext(inst, file, result))
    OBVIOUS
  <2>6. CASE n < Len(trace)
    <3>1. row \in LaneRows /\ Alike(row, trace[n + 1])
      BY <1>1, <1>2, <2>1, <2>3, <2>4, <2>5, <2>6, ClaimIsRow
    <3> QED BY <2>4, <2>5, <2>6, <3>1
  <2>7. CASE ~(n < Len(trace)) /\ outcome = "ok"
    <3>1. row \in LaneRows /\ row = [trace[Len(trace)] EXCEPT !.clk = n]
      <4>1. n >= Len(trace) /\ outcome = "ok" /\ n \in Nat /\ n = Len(claims)
        BY <1>1, <1>2, <2>7
      <4>2. /\ MemoryEvent(inst, MemoryBefore(claims, n + 1), a, b, addr, val, write)
            /\ InRange(result) /\ ResultTerm(inst, a, b, val, result)
        BY <2>4
      <4> QED BY <2>1, <2>3, <2>5, <4>1, <4>2, ClaimIsHalt
    <3> QED BY <2>4, <2>5, <2>7, <3>1
  <2>8. CASE ~(n < Len(trace)) /\ outcome # "ok"
    <3>1. n = Len(trace)
      <4>1. ASSUME n > Len(trace) PROVE FALSE
        <5>1. n \in 1 .. Len(claims)
          BY <1>1, <1>2, <4>1
        <5> QED BY <2>8, <4>1, <5>1 DEF LaneInv, ClaimInv
      <4> QED BY <1>2, <2>8, <4>1
    <3> QED BY <1>1, <1>2, <2>1, <2>3, <2>4, <2>8, <3>1, NoClaim
  <2> QED BY <2>6, <2>7, <2>8
<1>4. PICK c : c = claims'
  OBVIOUS
<1>5. /\ c \in Seq(LaneRows) /\ Len(c) = n + 1 /\ c[n + 1] = row /\ \A t \in 1 .. n : c[t] = claims[t]
  BY <1>1, <1>2, <1>3, <1>4
<1>6. LaneTypeOK'
  <2>1. Len(c) <= LANE_STEPS
    BY <1>2, <1>5, LaneSizes
  <2> QED BY <1>2, <1>4, <1>5, <2>1 DEF LaneInv, LaneTypeOK
<1>7. MachineInv'
  BY <1>2, MachineStays DEF LaneInv
<1>8. ASSUME NEW t \in 1 .. n + 1
      PROVE  /\ t <= Len(trace) => Alike(c[t], trace[t])
             /\ t > Len(trace) => outcome = "ok" /\ c[t] = [trace[Len(trace)] EXCEPT !.clk = t - 1]
  <2>1. CASE t = n + 1
    <3>1. t - 1 = n /\ (t <= Len(trace) <=> n < Len(trace)) /\ (t > Len(trace) <=> ~(n < Len(trace)))
      BY <1>2, <2>1
    <3> QED BY <1>3, <1>5, <2>1, <3>1
  <2>2. CASE t # n + 1
    <3>1. t \in 1 .. n /\ t \in 1 .. Len(claims)
      BY <1>1, <1>2, <2>2
    <3> QED BY <1>5, <3>1 DEF LaneInv, ClaimInv
  <2> QED BY <2>1, <2>2
<1>9. ClaimInv'
  BY <1>2, <1>4, <1>5, <1>8 DEF ClaimInv
<1> QED BY <1>6, <1>7, <1>9 DEF LaneInv

\* Where the run starts.
LEMMA LaneStarts == LaneInit => LaneInv
<1> SUFFICES ASSUME LaneInit PROVE LaneInv
  OBVIOUS
<1>1. /\ program \in [Slots -> Instructions] /\ initial_regs \in Files /\ registers = initial_regs
      /\ pc = 0 /\ trace = <<>> /\ claims = <<>> /\ outcome = "running" /\ gas_used = 0
      /\ memory = [a \in Cells |-> 0]
  BY ProgramsAssumption, EntryFilesAssumption DEF LaneInit, VmInit
<1>2. LaneTypeOK
  BY <1>1, LaneSizes DEF LaneTypeOK
<1>3. FileBefore(<<>>, 1) = initial_regs /\ MemoryBefore(<<>>, 1) = [a \in Cells |-> 0]
  <2>1. \A a : StoresTo(<<>>, 1, a) = {}
    BY DEF StoresTo
  <2> QED BY <2>1 DEF FileBefore, MemoryBefore
<1>4. GasOf(<<>>) = 0
  BY SumEmpty DEF GasOf
<1>5. MachineInv
  BY <1>1, <1>3, <1>4 DEF MachineInv, Reached, Refusal
<1>6. ClaimInv
  BY <1>1 DEF ClaimInv
<1> QED BY <1>2, <1>5, <1>6 DEF LaneInv

\* Every step of machine and prover keeps the invariant.
LEMMA LaneStepKeeps == LaneInv /\ [LaneNext]_laneVars => LaneInv'
<1> SUFFICES ASSUME LaneInv, [LaneNext]_laneVars PROVE LaneInv'
  OBVIOUS
<1>1. CASE LaneStep
  <2>1. claims = <<>> /\ claims' = claims
    <3>1. outcome = "running" /\ claims' = claims
      BY <1>1 DEF LaneStep, VmNext, Halt, Alu, LoadImmediate, LoadWord, Store, Jump, Assert,
         AssertionFailed, InvalidMemoryAccess, InvalidPc, InvalidOpcode, StepLimitExceeded, Fetches
    <3> QED BY <3>1 DEF LaneInv, ClaimInv
  <2>2. ClaimInv'
    BY <2>1 DEF ClaimInv
  <2>3. CASE Halt \/ Alu \/ LoadImmediate \/ LoadWord \/ Store \/ Jump \/ Assert
    <3>1. PICK result, next, addr, val : \E write \in BOOLEAN : Ran(result, next, addr, val, write)
      BY <2>3, Executes DEF LaneInv
    <3>2. PICK write \in BOOLEAN : Ran(result, next, addr, val, write)
      BY <3>1
    <3>3. LaneTypeOK' /\ MachineInv'
      BY <2>1, <3>2, RanKeeps DEF LaneInv
    <3> QED BY <2>2, <3>3 DEF LaneInv
  <2>4. CASE AssertionFailed \/ InvalidMemoryAccess \/ InvalidPc \/ InvalidOpcode \/ StepLimitExceeded
    <3>1. LaneTypeOK' /\ MachineInv'
      BY <2>1, <2>4, RefusedKeeps DEF LaneInv
    <3> QED BY <2>2, <3>1 DEF LaneInv
  <2> QED BY <1>1, <2>3, <2>4 DEF LaneStep, VmNext
<1>2. CASE ClaimToCircuit
  BY <1>2, ClaimKeeps
<1>3. CASE UNCHANGED laneVars
  <2>1. UNCHANGED vmVars /\ UNCHANGED claims
    BY <1>3 DEF laneVars
  <2>2. MachineInv'
    BY <2>1, MachineStays DEF LaneInv
  <2>3. LaneTypeOK' /\ ClaimInv'
    BY <2>1 DEF LaneInv, LaneTypeOK, ClaimInv, vmVars
  <2> QED BY <2>2, <2>3 DEF LaneInv
<1> QED BY <1>1, <1>2, <1>3 DEF LaneNext

-----------------------------------------------------------------------------
(* What is proved of a run.                                                *)

\* The circuit takes a row the checker takes, if the machine wrote it and the next
\* one stands inside the program.
LEMMA CircuitAccepts ==
    ASSUME NEW rows \in Seq(LaneRows), NEW i \in 1 .. Len(rows), initial_regs \in Files,
           MachineRow(rows, i), rows[i].next_pc \in Slots, HaltPattern(rows, i, rows[i].inst),
           Encodable(rows[i].inst)
    PROVE  CircuitRow(rows, i)
<1>1. PICK row \in LaneRows : row = rows[i]
  OBVIOUS
<1>2. PICK file \in Files : file = FileBefore(rows, i)
  BY FileTyped
<1>3. PICK mem : mem = MemoryBefore(rows, i)
  OBVIOUS
<1>4. /\ row.clk = i - 1 /\ row.inst = program[row.pc] /\ row.inst.op \in Opcodes
      /\ MachineReads(row.inst, file, row.rs1_val, row.rs2_val) /\ AssertHolds(row.inst, row.rs1_val)
      /\ CheckedEvent(row.inst, mem, row.rs1_val, row.rs2_val, row.mem_addr, row.mem_val, row.is_mem_write)
      /\ row.rd_val_new = ExpectedResult(row.inst, row.rs1_val, row.rs2_val, row.mem_val)
      /\ row.next_pc = ExpectedNext(row.inst, row.pc, row.rs1_val)
      /\ row.regs = MachineFile(row.inst, file, row.rd_val_new)
      /\ PcChain(rows, i, row.pc)
  BY <1>1, <1>2, <1>3 DEF MachineRow, RanRow
<1>5. /\ row.inst \in Instructions /\ row.pc \in Slots /\ row.rs1_val \in Words /\ row.rs2_val \in Words
      /\ row.mem_val \in Words /\ row.is_mem_write \in BOOLEAN /\ row.rd_val_new \in Words
  BY <1>1 DEF LaneRows
<1>6. MemoryEvent(row.inst, mem, row.rs1_val, row.rs2_val, row.mem_addr, row.mem_val, row.is_mem_write)
  BY <1>4, <1>5, EventsAgree
<1>7. /\ InRange(row.rd_val_new)
      /\ ResultTerm(row.inst, row.rs1_val, row.rs2_val, row.mem_val, row.rd_val_new)
  BY <1>4, <1>5, ResultSettled
<1>8. row.next_pc = NextPc(row.inst, row.pc, row.rs1_val)
  BY <1>1, <1>4, <1>5, TargetsAgree
<1>9. row.regs = RegsNext(row.inst, file, row.rd_val_new)
  BY <1>1, <1>4, <1>5, FilesAgree DEF Encodable
<1>10. HaltPattern(rows, i, row.inst) /\ Encodable(row.inst)
  BY <1>1
<1>11. Reads(row.inst, file, row.rs1_val, row.rs2_val)
  BY <1>4, <1>5, <1>10, InsideAgree DEF Encodable
<1> QED BY <1>1, <1>2, <1>3, <1>4, <1>6, <1>7, <1>8, <1>9, <1>10, <1>11 DEF CircuitRow

\* The halt with the clock going on.
LEMMA ClockSet ==
    ASSUME NEW h \in LaneRows, NEW k \in Nat
    PROVE  /\ [h EXCEPT !.clk = k] \in LaneRows
           /\ \E r : /\ r = [h EXCEPT !.clk = k]
                    /\ r.clk = k /\ r.pc = h.pc /\ r.inst = h.inst /\ r.rs1_val = h.rs1_val
                    /\ r.rs2_val = h.rs2_val /\ r.rd_val_new = h.rd_val_new /\ r.next_pc = h.next_pc
                    /\ r.mem_addr = h.mem_addr /\ r.mem_val = h.mem_val
                    /\ r.is_mem_write = h.is_mem_write /\ r.regs = h.regs
<1>1. [h EXCEPT !.clk = k] \in LaneRows
  BY DEF LaneRows
<1>2. PICK r : r = [h EXCEPT !.clk = k]
  OBVIOUS
<1>3. /\ r.clk = k /\ r.pc = h.pc /\ r.inst = h.inst /\ r.rs1_val = h.rs1_val
      /\ r.rs2_val = h.rs2_val /\ r.rd_val_new = h.rd_val_new /\ r.next_pc = h.next_pc
      /\ r.mem_addr = h.mem_addr /\ r.mem_val = h.mem_val
      /\ r.is_mem_write = h.is_mem_write /\ r.regs = h.regs
  BY <1>2 DEF LaneRows
<1> QED BY <1>1, <1>2, <1>3

\* A run that ended well, padded: its rows, and its halt from there on.
LEMMA Padded ==
    ASSUME LaneTypeOK, MachineInv, outcome = "ok", NEW h, h = trace[Len(trace)]
    PROVE  /\ PadTo(trace, LANE_STEPS) \in Seq(LaneRows)
           /\ Len(PadTo(trace, LANE_STEPS)) = LANE_STEPS
           /\ \A i \in 1 .. Len(trace) : PadTo(trace, LANE_STEPS)[i] = trace[i]
           /\ \A i \in Len(trace) .. LANE_STEPS :
                PadTo(trace, LANE_STEPS)[i] = [h EXCEPT !.clk = i - 1]
<1>1. /\ Len(trace) \in 1 .. LANE_STEPS /\ h \in LaneRows /\ LANE_STEPS \in Nat
      /\ trace \in Seq(LaneRows) /\ Len(trace) \in 1 .. Len(trace)
  <2>1. Len(trace) \in 1 .. LANE_STEPS /\ trace \in Seq(LaneRows) /\ LANE_STEPS \in Nat
    BY HaltRow, LaneSizes DEF LaneTypeOK
  <2>2. Len(trace) \in 1 .. Len(trace)
    BY <2>1
  <2> QED BY <2>1, <2>2
<1>2. h.clk = Len(trace) - 1
  BY <1>1 DEF MachineInv, MachineRow, RanRow
<1>3. \A i \in 1 .. LANE_STEPS : [h EXCEPT !.clk = i - 1] \in LaneRows
  <2>1. \A i \in 1 .. LANE_STEPS : i - 1 \in Nat
    BY <1>1
  <2> QED BY <1>1, <2>1, ClockSet
<1>4. h = [h EXCEPT !.clk = Len(trace) - 1]
  BY <1>1, <1>2 DEF LaneRows
<1>5. PadTo(trace, LANE_STEPS) \in [1 .. LANE_STEPS -> LaneRows]
  BY <1>1, <1>3 DEF PadTo
<1>6. /\ \A i \in 1 .. Len(trace) : PadTo(trace, LANE_STEPS)[i] = trace[i]
      /\ \A i \in Len(trace) + 1 .. LANE_STEPS : PadTo(trace, LANE_STEPS)[i] = [h EXCEPT !.clk = i - 1]
  BY <1>1 DEF PadTo
<1>7. PadTo(trace, LANE_STEPS)[Len(trace)] = [h EXCEPT !.clk = Len(trace) - 1]
  BY <1>1, <1>4, <1>6
<1>8. \A i \in Len(trace) .. LANE_STEPS : PadTo(trace, LANE_STEPS)[i] = [h EXCEPT !.clk = i - 1]
  BY <1>1, <1>6, <1>7
<1> QED BY <1>1, <1>5, <1>6, <1>8

\* The halt costs nothing: padding does not change the gas.
LEMMA PaddingIsFree ==
    ASSUME LaneTypeOK, MachineInv, outcome = "ok"
    PROVE  GasOf(PadTo(trace, LANE_STEPS)) = GasOf(trace)
<1> DEFINE padded == PadTo(trace, LANE_STEPS)
           n == Len(trace)
           f == [i \in DOMAIN trace |-> Gas(trace[i].inst.op)]
           g == [i \in DOMAIN padded |-> Gas(padded[i].inst.op)]
<1>1. PICK h \in LaneRows : h = trace[n] /\ h.inst.op = "Halt"
  BY HaltRow
<1>2. n \in 1 .. LANE_STEPS /\ trace \in Seq(LaneRows) /\ LANE_STEPS \in Nat
  BY HaltRow, LaneSizes DEF LaneTypeOK
<1>3. /\ padded \in Seq(LaneRows) /\ Len(padded) = LANE_STEPS
      /\ \A i \in 1 .. n : padded[i] = trace[i]
      /\ \A i \in n .. LANE_STEPS : padded[i] = [h EXCEPT !.clk = i - 1]
  BY <1>1, Padded
<1> HIDE DEF padded, n
<1>4. DOMAIN trace = 1 .. n /\ DOMAIN padded = 1 .. LANE_STEPS
  BY <1>2, <1>3 DEF n
<1>5. \A op : Gas(op) \in Int
  BY DEF Gas
<1>6. /\ \A i \in 1 .. n : f[i] = g[i]
      /\ \A i \in 1 .. LANE_STEPS : g[i] \in Int
  BY <1>2, <1>3, <1>4, <1>5
<1>7. \A i \in n + 1 .. LANE_STEPS : g[i] = 0
  <2> SUFFICES ASSUME NEW i \in n + 1 .. LANE_STEPS PROVE g[i] = 0
    OBVIOUS
  <2>1. i \in n .. LANE_STEPS /\ i \in 1 .. LANE_STEPS
    BY <1>2
  <2>2. padded[i].inst.op = "Halt"
    BY <1>1, <1>3, <2>1 DEF LaneRows
  <2> QED BY <1>4, <2>1, <2>2 DEF Gas
<1> HIDE DEF f, g
<1>8. /\ IsFiniteSet(1 .. n) /\ IsFiniteSet(n + 1 .. LANE_STEPS)
      /\ (1 .. n) \cap (n + 1 .. LANE_STEPS) = {}
      /\ (1 .. n) \cup (n + 1 .. LANE_STEPS) = 1 .. LANE_STEPS
  BY <1>2, FS_Interval
<1>9. SumOf(g, 1 .. LANE_STEPS) = SumOf(g, 1 .. n) + SumOf(g, n + 1 .. LANE_STEPS)
  <2>1. \A i \in (1 .. n) \cup (n + 1 .. LANE_STEPS) : g[i] \in Int
    BY <1>6, <1>8
  <2>2. SumOf(g, (1 .. n) \cup (n + 1 .. LANE_STEPS)) = SumOf(g, 1 .. n) + SumOf(g, n + 1 .. LANE_STEPS)
    BY <1>8, <2>1, SumUnion
  <2> QED BY <1>8, <2>2, Zenon
<1>10. SumOf(g, n + 1 .. LANE_STEPS) = 0
  BY <1>7, <1>8, SumZero
<1>11. SumOf(f, 1 .. n) = SumOf(g, 1 .. n) /\ SumOf(g, 1 .. n) \in Int
  <2>1. \A i \in 1 .. n : g[i] \in Int
    BY <1>2, <1>6
  <2> QED BY <1>6, <1>8, <2>1, SumSame, SumType
<1> QED BY <1>4, <1>9, <1>10, <1>11 DEF GasOf, f, g, padded

\* A run that ended well is provable.
LEMMA LaneProvable == LaneTypeOK /\ MachineInv => RunsAreProvable
<1> SUFFICES ASSUME LaneTypeOK, MachineInv, outcome = "ok" PROVE RunsAreProvable
  BY DEF RunsAreProvable
<1> DEFINE executed == {trace[i].inst : i \in DOMAIN trace}
<1>1. PICK h \in LaneRows :
        /\ h = trace[Len(trace)] /\ h.inst.op = "Halt" /\ h.inst = program[h.pc]
        /\ h.next_pc = h.pc /\ pc = h.pc
        /\ MachineReads(h.inst, h.regs, h.rs1_val, h.rs2_val)
        /\ h.mem_addr = 0 /\ h.mem_val = 0 /\ h.is_mem_write = FALSE /\ h.rd_val_new = 0
        /\ MachineFile(h.inst, h.regs, 0) = h.regs
  BY HaltRow
<1>2. PICK p, n : p = PadTo(trace, LANE_STEPS) /\ n = Len(trace)
  OBVIOUS
<1>3. /\ n \in 1 .. LANE_STEPS /\ trace \in Seq(LaneRows) /\ LANE_STEPS \in Nat \ {0}
      /\ initial_regs \in Files
  BY <1>2, HaltRow, LaneSizes DEF LaneTypeOK
<1>4. /\ p \in Seq(LaneRows) /\ Len(p) = LANE_STEPS
      /\ \A i \in 1 .. n : p[i] = trace[i]
      /\ \A i \in n .. LANE_STEPS : p[i] = [h EXCEPT !.clk = i - 1]
  BY <1>1, <1>2, Padded
<1>5. \A i \in n .. LANE_STEPS :
        /\ p[i].clk = i - 1 /\ p[i].pc = h.pc /\ p[i].inst = h.inst /\ p[i].rs1_val = h.rs1_val
        /\ p[i].rs2_val = h.rs2_val /\ p[i].rd_val_new = 0 /\ p[i].next_pc = h.pc
        /\ p[i].mem_addr = 0 /\ p[i].mem_val = 0 /\ p[i].is_mem_write = FALSE /\ p[i].regs = h.regs
  <2> SUFFICES ASSUME NEW i \in n .. LANE_STEPS
               PROVE  /\ p[i].clk = i - 1 /\ p[i].pc = h.pc /\ p[i].inst = h.inst
                      /\ p[i].rs1_val = h.rs1_val /\ p[i].rs2_val = h.rs2_val
                      /\ p[i].rd_val_new = 0 /\ p[i].next_pc = h.pc
                      /\ p[i].mem_addr = 0 /\ p[i].mem_val = 0 /\ p[i].is_mem_write = FALSE
                      /\ p[i].regs = h.regs
    OBVIOUS
  <2>1. i - 1 \in Nat /\ p[i] = [h EXCEPT !.clk = i - 1]
    BY <1>3, <1>4
  <2> QED BY <1>1, <2>1, ClockSet
<1>6. h.pc \in Slots /\ h.inst.op \in Opcodes /\ h.inst.op \notin Writing
  BY <1>1 DEF LaneRows, Opcodes, Writing
<1>7. ASSUME NEW i \in 1 .. LANE_STEPS
      PROVE  MachineRow(p, i) /\ p[i].next_pc \in Slots
  <2>1. CASE i <= n
    <3>1. i \in 1 .. n /\ i \in 1 .. Len(trace) /\ Len(trace) <= Len(p)
      BY <1>2, <1>3, <1>4, <2>1
    <3>2. MachineRow(trace, i)
      BY <3>1 DEF MachineInv
    <3>3. MachineRow(p, i)
      BY <1>2, <1>3, <1>4, <3>1, <3>2, SameVerdict
    <3>4. p[i].next_pc \in Slots
      BY <1>1, <1>2, <1>3, <1>4, <1>6, <3>1, NextStands
    <3> QED BY <3>3, <3>4
  <2>2. CASE ~(i <= n)
    <3>1. i \in n .. LANE_STEPS /\ i - 1 \in n .. LANE_STEPS /\ i # 1 /\ i > 1
      BY <1>3, <2>2
    <3>2. FileBefore(p, i) = h.regs
      BY <1>5, <3>1 DEF FileBefore
    <3>3. p[i] = [h EXCEPT !.clk = i - 1] /\ p[i - 1].next_pc = h.pc
      BY <1>4, <1>5, <3>1
    <3>4. /\ p[i].clk = i - 1 /\ p[i].pc = h.pc /\ p[i].inst = h.inst /\ p[i].rs1_val = h.rs1_val
          /\ p[i].rs2_val = h.rs2_val /\ p[i].rd_val_new = 0 /\ p[i].next_pc = h.pc
          /\ p[i].mem_addr = 0 /\ p[i].mem_val = 0 /\ p[i].is_mem_write = FALSE /\ p[i].regs = h.regs
      BY <1>5, <3>1
    <3>5. CheckedEvent(h.inst, MemoryBefore(p, i), h.rs1_val, h.rs2_val, 0, 0, FALSE)
      BY <1>1 DEF CheckedEvent, TouchesMemory
    <3>6. 0 = ExpectedResult(h.inst, h.rs1_val, h.rs2_val, 0) /\ h.pc = ExpectedNext(h.inst, h.pc, h.rs1_val)
      BY <1>1, <1>6 DEF ExpectedResult, ExpectedNext, Jumps, Writing
    <3>7. CheckedPc(p, i, h.pc) /\ PcChain(p, i, h.pc) /\ AssertHolds(h.inst, h.rs1_val)
      BY <1>1, <1>6, <3>1, <3>3 DEF CheckedPc, PcChain, AssertHolds
    <3>8. RanRow(p, i)
      BY <1>1, <1>6, <3>2, <3>4, <3>5, <3>6, <3>7 DEF RanRow
    <3> QED BY <1>6, <3>4, <3>7, <3>8 DEF MachineRow
  <2> QED BY <2>1, <2>2
<1>8. \A i \in 1 .. LANE_STEPS : p[i].inst.op = "Halt" <=> i >= n
  <2> SUFFICES ASSUME NEW i \in 1 .. LANE_STEPS PROVE p[i].inst.op = "Halt" <=> i >= n
    OBVIOUS
  <2>1. CASE i >= n
    <3>1. i \in n .. LANE_STEPS
      BY <1>3, <2>1
    <3> QED BY <1>1, <1>5, <2>1, <3>1
  <2>2. CASE ~(i >= n)
    <3>1. i \in 1 .. n /\ i \in 1 .. Len(trace) /\ i # n
      BY <1>2, <1>3, <2>2
    <3> QED BY <1>2, <1>4, <2>2, <3>1 DEF MachineInv
  <2> QED BY <2>1, <2>2
<1>9. GasOf(p) = gas_used
  BY <1>2, PaddingIsFree DEF MachineInv
<1>10. LANE_STEPS \in n .. LANE_STEPS /\ LANE_STEPS \in 1 .. LANE_STEPS
  BY <1>3
<1>11. HaltsFrom(p, n)
  BY <1>4, <1>8 DEF HaltsFrom
<1>12. CircuitEnd(p, n, gas_used, pc)
  BY <1>1, <1>3, <1>4, <1>5, <1>9, <1>10, <1>11 DEF CircuitEnd
<1>13. {p[i].inst : i \in 1 .. LANE_STEPS} = executed /\ \A i \in 1 .. LANE_STEPS : p[i].inst \in Instructions
  <2>1. \A i \in 1 .. LANE_STEPS : \E k \in 1 .. n : p[i].inst = trace[k].inst
    <3> SUFFICES ASSUME NEW i \in 1 .. LANE_STEPS
                 PROVE  \E k \in 1 .. n : p[i].inst = trace[k].inst
      OBVIOUS
    <3>1. CASE i <= n
      BY <1>3, <1>4, <3>1
    <3>2. CASE ~(i <= n)
      BY <1>1, <1>2, <1>3, <1>5, <3>2
    <3> QED BY <3>1, <3>2
  <2>2. DOMAIN trace = 1 .. n /\ \A k \in 1 .. n : k \in 1 .. LANE_STEPS /\ p[k] = trace[k]
    BY <1>2, <1>3, <1>4
  <2>3. \A i \in 1 .. LANE_STEPS : p[i] \in LaneRows
    BY <1>3, <1>4
  <2> QED BY <2>1, <2>2, <2>3 DEF LaneRows
<1>14. CheckTrace(p) <=> \A inst \in executed : InsideFile(inst)
  <2>1. p # <<>> /\ p[Len(p)].inst.op = "Halt"
    BY <1>3, <1>4, <1>8, <1>10
  <2>2. \A i \in 1 .. LANE_STEPS : CheckedRow(p, i) <=> InsideFile(p[i].inst)
    BY <1>7, <1>13, CheckedIsRan DEF MachineRow
  <2> QED BY <1>4, <1>13, <2>1, <2>2 DEF CheckTrace
<1>15. (\A i \in 1 .. LANE_STEPS : CircuitRow(p, i)) <=> \A inst \in executed : Encodable(inst)
  <2>1. ASSUME NEW i \in 1 .. LANE_STEPS
        PROVE  CircuitRow(p, i) <=> Encodable(p[i].inst)
    <3>1. HaltPattern(p, i, p[i].inst)
      <4>1. i > 1 => i - 1 \in 1 .. LANE_STEPS /\ (i - 1 >= n => i >= n)
        BY <1>3
      <4> QED BY <1>8, <4>1 DEF HaltPattern
    <3>2. Encodable(p[i].inst) => CircuitRow(p, i)
      BY <1>3, <1>4, <1>7, <3>1, CircuitAccepts
    <3>3. CircuitRow(p, i) => Encodable(p[i].inst)
      BY DEF CircuitRow
    <3> QED BY <3>2, <3>3
  <2> QED BY <1>13, <2>1
<1>16. CheckLaneTrace(p, n, gas_used, pc)
         <=> CheckTrace(p) /\ \A slot \in Slots : ~program[slot].spare
  <2>1. n \in n .. LANE_STEPS
    BY <1>3
  <2>2. \A i \in n .. LANE_STEPS : \A halt \in {p[n]} :
          p[i].pc = halt.pc /\ p[i].regs = halt.regs /\ p[i].next_pc = halt.next_pc
    BY <1>5, <2>1
  <2>3. p[LANE_STEPS].next_pc = pc
    BY <1>1, <1>5, <1>10
  <2> QED BY <1>3, <1>4, <1>9, <1>11, <2>2, <2>3 DEF CheckLaneTrace
<1> QED BY <1>2, <1>12, <1>14, <1>15, <1>16 DEF RunsAreProvable

\* Rows the circuit takes to the end are the run's.
LEMMA LaneProves == LaneInv => ProofsAreRuns
<1> SUFFICES ASSUME LaneInv, NEW n \in 1 .. LANE_STEPS, NEW final_pc \in Slots,
                    CircuitEnd(claims, n, GasOf(claims), final_pc)
             PROVE  /\ outcome = "ok" /\ claims = PadTo(trace, LANE_STEPS)
                    /\ n = Len(trace) /\ GasOf(claims) = gas_used /\ final_pc = pc
  BY DEF ProofsAreRuns
<1>1. /\ Len(claims) = LANE_STEPS /\ LANE_STEPS \in Nat \ {0} /\ claims \in Seq(LaneRows)
      /\ trace \in Seq(LaneRows) /\ Len(trace) \in Nat /\ Len(trace) <= LANE_STEPS
      /\ LaneTypeOK /\ MachineInv /\ ClaimInv
      /\ claims[LANE_STEPS].next_pc = final_pc
      /\ \A i \in 1 .. LANE_STEPS : claims[i].inst.op = "Halt" <=> i >= n
      /\ LANE_STEPS \in 1 .. LANE_STEPS
  BY LaneSizes DEF LaneInv, LaneTypeOK, CircuitEnd, HaltsFrom
<1>2. outcome = "ok"
  <2> SUFFICES ASSUME outcome # "ok" PROVE FALSE
    OBVIOUS
  <2>1. LANE_STEPS \in 1 .. Len(trace)
    BY <1>1 DEF ClaimInv
  <2>2. Alike(claims[LANE_STEPS], trace[LANE_STEPS])
    BY <1>1, <2>1 DEF ClaimInv
  <2>3. claims[LANE_STEPS] \in LaneRows /\ trace[LANE_STEPS] \in LaneRows
    BY <1>1, <2>1
  <2>4. claims[LANE_STEPS].inst = trace[LANE_STEPS].inst
    BY <2>2, <2>3 DEF Alike, LaneRows
  <2>5. trace[LANE_STEPS].inst.op # "Halt"
    BY <1>1, <2>1 DEF MachineInv
  <2> QED BY <1>1, <2>4, <2>5
<1>3. PICK h \in LaneRows : h = trace[Len(trace)] /\ h.inst.op = "Halt" /\ h.next_pc = h.pc /\ pc = h.pc
  BY <1>1, <1>2, HaltRow
<1>4. PICK p, m : p = PadTo(trace, LANE_STEPS) /\ m = Len(trace)
  OBVIOUS
<1>5. /\ m \in 1 .. LANE_STEPS /\ p \in Seq(LaneRows) /\ Len(p) = LANE_STEPS
      /\ \A i \in 1 .. m : p[i] = trace[i]
      /\ \A i \in m .. LANE_STEPS : p[i] = [h EXCEPT !.clk = i - 1]
  BY <1>1, <1>2, <1>3, <1>4, HaltRow, Padded
<1>6. ASSUME NEW i \in 1 .. LANE_STEPS PROVE claims[i] = p[i]
  <2>1. CASE i <= m
    <3>1. i \in 1 .. m /\ i \in 1 .. Len(trace) /\ i \in 1 .. Len(claims) /\ i <= Len(trace)
      BY <1>1, <1>4, <1>5, <2>1
    <3>2. Alike(claims[i], trace[i]) /\ claims[i] \in LaneRows /\ trace[i] \in LaneRows
      BY <1>1, <3>1 DEF ClaimInv
    <3>3. trace[i].next_pc \in Slots
      <4>1. h.pc \in Slots
        BY <1>3 DEF LaneRows
      <4> QED BY <1>1, <1>3, <3>1, <4>1, NextStands
    <3>4. claims[i] = trace[i]
      BY <3>2, <3>3 DEF Alike, LaneRows
    <3> QED BY <1>5, <3>1, <3>4
  <2>2. CASE ~(i <= m)
    <3>1. i \in m .. LANE_STEPS /\ i \in 1 .. Len(claims) /\ i > Len(trace)
      BY <1>1, <1>4, <1>5, <2>2
    <3>2. claims[i] = [h EXCEPT !.clk = i - 1]
      BY <1>1, <1>3, <3>1 DEF ClaimInv
    <3> QED BY <1>5, <3>1, <3>2
  <2> QED BY <2>1, <2>2
<1>7. claims = p
  BY <1>1, <1>5, <1>6
<1>8. n = m
  <2>1. \A i \in 1 .. LANE_STEPS : claims[i].inst.op = "Halt" => i >= m
    <3> SUFFICES ASSUME NEW i \in 1 .. LANE_STEPS, claims[i].inst.op = "Halt" PROVE i >= m
      OBVIOUS
    <3>1. ASSUME ~(i >= m) PROVE FALSE
      <4>1. i \in 1 .. m /\ i \in 1 .. Len(trace) /\ i # m
        BY <1>4, <1>5, <3>1
      <4> QED BY <1>1, <1>4, <1>5, <1>7, <4>1 DEF MachineInv
    <3> QED BY <1>5, <3>1
  <2>2. claims[m].inst.op = "Halt"
    <3>1. m \in 1 .. m
      BY <1>5
    <3> QED BY <1>3, <1>4, <1>5, <1>7, <3>1
  <2> QED BY <1>1, <1>5, <2>1, <2>2
<1>9. GasOf(claims) = gas_used
  BY <1>1, <1>2, <1>4, <1>7, PaddingIsFree DEF MachineInv
<1>10. final_pc = pc
  <2>1. LANE_STEPS \in m .. LANE_STEPS
    BY <1>1, <1>5
  <2> QED BY <1>1, <1>3, <1>5, <1>7, <2>1 DEF LaneRows
<1> QED BY <1>2, <1>4, <1>7, <1>8, <1>9, <1>10

\* For any program, word size, memory and length of the lane, whatever its words hold
\* in their fields and above their immediates: a run that halts passes the checker,
\* padded and under the statement it publishes, exactly when its executed words stay
\* inside the register file and no word of the program has a bit above the immediate,
\* and the circuit exactly when its executed words do both.
THEOREM LaneProvesRunsOfTheFile == LaneSpec => []RunsAreProvable
<1>1. LaneInv => RunsAreProvable
  BY LaneProvable DEF LaneInv
<1> QED BY <1>1, LaneStarts, LaneStepKeeps, PTL DEF LaneSpec

\* For any of them: rows that satisfy the circuit to the end are those of a run
\* that halted, whatever carries and quotients a prover chooses.
THEOREM LaneProvesOnlyRuns == LaneSpec => []ProofsAreRuns
  BY LaneStarts, LaneStepKeeps, LaneProves, PTL DEF LaneSpec

-----------------------------------------------------------------------------
(* The zk machine's rows.  A residue is the only one, so an equation in    *)
(* the field fixes the value it is about; a quotient in the field is the   *)
(* only one; a word below the modulus has one spelling; and two spellings  *)
(* are compared from the highest bit down.                                 *)

\* A division with remainder has one answer.
LEMMA Quotient ==
    ASSUME NEW x \in Int, NEW m \in Nat, m > 0, NEW q \in Int, NEW r \in 0 .. m - 1, x = m * q + r
    PROVE  x \div m = q /\ x % m = r
<1> DEFINE d == x \div m
           e == x % m
<1>1. d \in Int /\ e \in 0 .. m - 1 /\ x = m * d + e
  OBVIOUS
<1> HIDE DEF d, e
<1>2. m * (d - q) = r - e /\ m * (q - d) = e - r
  BY <1>1
<1>3. \A k \in Int : k >= 1 => m * k >= m
  OBVIOUS
<1>4. ~(d - q >= 1)
  BY <1>1, <1>2, <1>3
<1>5. ~(q - d >= 1)
  BY <1>1, <1>2, <1>3
<1>6. d = q
  BY <1>1, <1>4, <1>5
<1>7. e = r
  BY <1>1, <1>6
<1> QED BY <1>6, <1>7 DEF d, e

\* The sizes.
LEMMA Sizes == HALF \in Nat /\ HALF > 1 /\ BITS \in Nat /\ Wide \in Nat /\ P \in Nat /\ P > HALF /\ P < Wide
<1>1. HALF \in Nat /\ HALF > 1 /\ BITS \in Nat /\ Wide = HALF * HALF /\ P = Wide - HALF + 1
  BY MachineAssumption
<1>2. HALF * HALF >= 2 * HALF
  BY <1>1
<1> QED BY <1>1, <1>2

\* A residue lies in the field, a multiple of the modulus away.
LEMMA Residue ==
    ASSUME NEW x \in Int
    PROVE  F(x) \in 0 .. P - 1 /\ \E q \in Int : x = P * q + F(x)
<1>1. P \in Nat /\ P > 0
  BY Sizes
<1>2. x % P \in 0 .. P - 1 /\ x \div P \in Int /\ x = P * (x \div P) + (x % P)
  BY <1>1
<1> QED BY <1>2 DEF F

\* And is the only one there.
LEMMA OnlyResidue ==
    ASSUME NEW q \in Int, NEW r \in 0 .. P - 1
    PROVE  F(P * q + r) = r
<1>1. P \in Nat /\ P > 0
  BY Sizes
<1>2. P * q + r \in Int
  BY <1>1
<1> QED BY <1>1, <1>2, Quotient DEF F

\* A field element is its own residue.
LEMMA OwnResidue ==
    ASSUME NEW r \in 0 .. P - 1
    PROVE  F(r) = r
<1>1. P \in Nat /\ r \in Int /\ P * 0 + r = r
  BY Sizes
<1>2. F(P * 0 + r) = r
  BY OnlyResidue
<1> QED BY <1>1, <1>2

\* What the field cannot tell from a value is its residue.
LEMMA Solves ==
    ASSUME NEW r \in 0 .. P - 1, NEW x \in Int, F(r - x) = 0
    PROVE  r = F(x)
<1>1. P \in Nat /\ r \in Int
  BY Sizes
<1>2. PICK q \in Int : r - x = P * q + 0
  <2>1. r - x \in Int
    BY <1>1
  <2>2. PICK q \in Int : r - x = P * q + F(r - x)
    BY <2>1, Residue
  <2> QED BY <2>2
<1>3. x = P * (-q) + r
  <2>1. P * (-q) = -(P * q)
    BY <1>1
  <2> QED BY <1>1, <1>2, <2>1
<1> QED BY <1>3, OnlyResidue

\* The test for zero answers no exactly when there is something to test.
LEMMA Tested ==
    ASSUME NEW d \in Int, NEW inv \in Int, TestsZero(d, inv)
    PROVE  F(d * inv) = IF F(d) = 0 THEN 0 ELSE 1
<1>1. P \in Nat /\ d * inv \in Int
  BY Sizes
<1>2. CASE F(d) = 0
  <2>1. PICK q \in Int : d = P * q + 0
    BY <1>2, Residue
  <2>2. d * inv = P * (q * inv) + 0
    BY <1>1, <2>1
  <2>3. 0 \in 0 .. P - 1
    BY Sizes
  <2> QED BY <1>2, <2>2, <2>3, OnlyResidue
<1>3. CASE F(d) # 0
  <2>1. F(d * inv) \in {0, 1}
    BY DEF TestsZero, Boolean
  <2>2. F(d * inv) # 0
    <3>1. SUFFICES ASSUME F(d * inv) = 0 PROVE FALSE
      OBVIOUS
    <3>2. F(d * (1 - 0)) = 0
      BY <3>1 DEF TestsZero, Zero
    <3> QED BY <1>3, <3>2
  <2> QED BY <1>3, <2>1, <2>2
<1> QED BY <1>2, <1>3

\* Counting once around the field changes nothing.
LEMMA Around ==
    ASSUME NEW x \in Int
    PROVE  F(x + P) = F(x)
<1>1. P \in Nat
  BY Sizes
<1>2. PICK q \in Int : x = P * q + F(x)
  BY Residue
<1>3. F(x) \in 0 .. P - 1
  BY Residue
<1> DEFINE r == F(x)
<1>4. r \in 0 .. P - 1 /\ x = P * q + r
  BY <1>2, <1>3
<1> HIDE DEF r
<1>5. x + P = P * (q + 1) + r
  BY <1>1, <1>4
<1>6. F(P * (q + 1) + r) = r
  BY <1>4, OnlyResidue
<1> QED BY <1>5, <1>6 DEF r

\* The inverse of an element that is not zero.
LEMMA InverseOf ==
    ASSUME NEW b \in 1 .. P - 1
    PROVE  FieldInverse(b) \in 1 .. P - 1 /\ F(b * FieldInverse(b)) = 1
<1>1. b \in 0 .. P - 1 /\ b # 0
  BY Sizes
<1>2. F(b) # 0
  BY <1>1, OwnResidue
<1>3. \E y \in 1 .. P - 1 : F(b * y) = 1
  BY MachineAssumption
<1>4. FieldInverse(b) = CHOOSE y \in 1 .. P - 1 : F(b * y) = 1
  BY <1>2 DEF FieldInverse
<1> QED BY <1>3, <1>4

\* A quotient in the field is the only one.
LEMMA OneFieldQuotient ==
    ASSUME NEW b \in 1 .. P - 1, NEW x \in Int, NEW r \in 0 .. P - 1, F(r * b - x) = 0
    PROVE  r = F(x * FieldInverse(b))
<1> DEFINE y == FieldInverse(b)
<1>1. y \in 1 .. P - 1 /\ F(b * y) = 1
  BY InverseOf
<1> HIDE DEF y
<1>2. P \in Nat /\ b \in Int /\ r \in Int /\ y \in Int /\ b * y \in Int /\ r * b \in Int
  BY <1>1, Sizes
<1>3. PICK m \in Int : b * y = P * m + 1
  BY <1>1, <1>2, Residue
<1>4. r * b - x \in Int
  BY <1>2
<1>5. PICK k \in Int : r * b - x = P * k + 0
  BY <1>4, Residue
<1>6. x = r * b - P * k
  BY <1>2, <1>5
<1>7. x * y = (r * b) * y - (P * k) * y
  BY <1>2, <1>6
<1>8. (r * b) * y = r * (b * y) /\ (P * k) * y = P * (k * y)
  BY <1>2
<1>9. r * (b * y) = P * (r * m) + r
  BY <1>2, <1>3
<1>10. x * y = P * (r * m - k * y) + r
  <2>1. P * (r * m - k * y) = P * (r * m) - P * (k * y)
    BY <1>2
  <2> QED BY <1>2, <1>7, <1>8, <1>9, <2>1
<1>11. r * m - k * y \in Int
  BY <1>2
<1> QED BY <1>10, <1>11, OnlyResidue DEF y

\* What the columns of a division leave of the result.
Quotes(a, b, r, inv, zero) ==
    F(b * zero) = 0 /\ F(b * inv + zero - 1) = 0 /\ F(r * b - a * (1 - zero)) = 0 /\ F(zero * r) = 0
\* Those columns leave the quotient of the field, and zero for a divisor of zero.
LEMMA Divides ==
    ASSUME NEW a \in 0 .. P - 1, NEW b \in 0 .. P - 1, NEW r \in 0 .. P - 1, NEW inv \in Int, NEW zero \in 0 .. 1,
           Quotes(a, b, r, inv, zero)
    PROVE  r = F(a * FieldInverse(b))
<1> USE DEF Quotes
<1>0. P \in Nat /\ P > 2 /\ a \in Int /\ b \in Int /\ r \in Int
  BY Sizes
<1>1. CASE b = 0
  <2>1. zero = 1
    <3>1. SUFFICES ASSUME zero = 0 PROVE FALSE
      OBVIOUS
    <3>2. F(-1) = 0
      BY <1>1, <3>1
    <3>3. -1 = P * (-1) + (P - 1) /\ P - 1 \in 0 .. P - 1
      BY <1>0
    <3>4. F(P * (-1) + (P - 1)) = P - 1
      BY <3>3, OnlyResidue
    <3> QED BY <1>0, <3>2, <3>3, <3>4
  <2>2. r = 0
    BY <1>0, <2>1, OwnResidue
  <2>3. F(b) = 0
    BY <1>1, OwnResidue
  <2>4. FieldInverse(b) = 0
    BY <2>3 DEF FieldInverse
  <2>5. a * FieldInverse(b) = 0
    BY <1>0, <2>4
  <2> QED BY <1>1, <2>2, <2>5, OwnResidue
<1>2. CASE b # 0
  <2>1. zero = 0
    <3>1. SUFFICES ASSUME zero = 1 PROVE FALSE
      OBVIOUS
    <3>2. F(b) = 0
      BY <1>0, <3>1
    <3> QED BY <1>2, <3>2, OwnResidue
  <2>2. b \in 1 .. P - 1 /\ r * b - a * (1 - zero) = r * b - a
    BY <1>0, <1>2, <2>1
  <2> QED BY <1>0, <2>2, OneFieldQuotient
<1> QED BY <1>1, <1>2

\* And of an inversion.
LEMMA Inverts ==
    ASSUME NEW a \in 0 .. P - 1, NEW r \in 0 .. P - 1, NEW zero \in 0 .. 1,
           F(a * zero) = 0, F(a * r + zero - 1) = 0, F(zero * r) = 0
    PROVE  r = FieldInverse(a)
<1>0. P \in Nat /\ P > 2 /\ a \in Int /\ r \in Int /\ 1 \in 0 .. P - 1
  BY Sizes
<1>1. r * a - 1 * (1 - zero) = a * r + zero - 1
  BY <1>0
<1>2. r = F(1 * FieldInverse(a))
  <2>1. Quotes(1, a, r, r, zero)
    BY <1>0, <1>1 DEF Quotes
  <2> QED BY <1>0, <2>1, Divides
<1>3. FieldInverse(a) \in 0 .. P - 1
  <2>1. CASE a = 0
    <3>1. F(a) = 0
      BY <2>1, OwnResidue
    <3> QED BY <1>0, <3>1 DEF FieldInverse
  <2>2. CASE a # 0
    <3>1. a \in 1 .. P - 1
      BY <1>0, <2>2
    <3>2. FieldInverse(a) \in 1 .. P - 1
      BY <3>1, InverseOf
    <3> QED BY <1>0, <3>2
  <2> QED BY <2>1, <2>2
<1>4. 1 * FieldInverse(a) = FieldInverse(a)
  BY <1>0, <1>3
<1> QED BY <1>2, <1>3, <1>4, OwnResidue

\* The bits of a value below the modulus are its own: no other word spells it.
LEMMA BitsAreOwn ==
    ASSUME NEW v \in 0 .. P - 1, NEW bits \in 0 .. Wide - 1, NEW hi \in Int, F(bits) = v, CanonicalBits(bits, hi)
    PROVE  bits = v
<1>1. CASE bits < P
  BY <1>1, OwnResidue, Sizes
<1>2. CASE ~(bits < P)
  <2>0. HALF \in Nat /\ HALF > 1 /\ Wide = HALF * HALF /\ P = Wide - HALF + 1 /\ bits \in Int
    <3>1. HALF \in Nat /\ HALF > 1 /\ Wide = HALF * HALF /\ P = Wide - HALF + 1
      BY MachineAssumption
    <3> QED BY <3>1, Sizes
  <2> DEFINE l == bits - HALF * (HALF - 1)
  <2>1. l \in 1 .. HALF - 1 /\ bits = HALF * (HALF - 1) + l
    <3>1. HALF * (HALF - 1) = HALF * HALF - HALF
      BY <2>0
    <3> QED BY <1>2, <2>0, <3>1
  <2> HIDE DEF l
  <2>2. bits \div HALF = HALF - 1 /\ bits % HALF = l
    <3>1. HALF - 1 \in Int /\ l \in 0 .. HALF - 1 /\ HALF > 0
      BY <2>0, <2>1
    <3> QED BY <2>0, <2>1, <3>1, Quotient
  <2>3. l \in 0 .. P - 1 /\ l # 0 /\ 0 \in 0 .. P - 1
    BY <2>0, <2>1, Sizes
  <2> DEFINE d == bits \div HALF - (HALF - 1)
  <2>4. d = 0
    BY <2>0, <2>2
  <2>5. F(d * hi) = 0
    <3>1. d * hi = 0
      BY <2>4
    <3> QED BY <2>3, <3>1, OwnResidue
  <2>6. F((1 - F(d * hi)) * (bits % HALF)) = 0
    BY DEF CanonicalBits, Zero
  <2>7. F((1 - 0) * l) = 0
    BY <2>2, <2>5, <2>6
  <2>8. (1 - 0) * l = l
    BY <2>1
  <2> QED BY <2>3, <2>7, <2>8, OwnResidue
<1> QED BY <1>1, <1>2

\* Counting from nought.
LEMMA UpTo ==
    ASSUME NEW n \in Nat, NEW S, 0 \in S, \A i \in 1 .. n : i - 1 \in S => i \in S
    PROVE  0 .. n \subseteq S
<1> SUFFICES ASSUME ~(0 .. n \subseteq S) PROVE FALSE
  OBVIOUS
<1> DEFINE T == {i \in 0 .. n : i \notin S}
<1>1. PICK i \in T : \A y \in T : ~(y < i)
  <2>1. T \subseteq Nat /\ T # {}
    OBVIOUS
  <2> HIDE DEF T
  <2> QED BY <2>1, SmallestNat
<1>2. i \in 1 .. n /\ i - 1 \in 0 .. n /\ i - 1 < i
  BY <1>1
<1>3. i - 1 \in S
  BY <1>1, <1>2
<1> QED BY <1>1, <1>2, <1>3

\* A value made in so many steps, each from the one before, exists.
MadeBy(f, n, a, s) == f = [i \in 0 .. n |-> IF i = 0 THEN a ELSE s[i][f[i - 1]]]
\* By the least number of steps for which there were none.
LEMMA StepsExist ==
    ASSUME NEW n \in Nat, NEW a, NEW s
    PROVE  \E f : MadeBy(f, n, a, s)
<1> SUFFICES ASSUME ~ \E f : MadeBy(f, n, a, s) PROVE FALSE
  OBVIOUS
<1> DEFINE T == {m \in Nat : ~ \E f : MadeBy(f, m, a, s)}
<1>1. PICK m \in T : \A y \in T : ~(y < m)
  <2>1. n \in T /\ T \subseteq Nat
    OBVIOUS
  <2> HIDE DEF T
  <2> QED BY <2>1, SmallestNat
<1>2. m \in Nat /\ ~ \E f : MadeBy(f, m, a, s)
  BY <1>1
<1>3. m # 0
  <2> DEFINE f == [i \in 0 .. 0 |-> a]
  <2>1. MadeBy(f, 0, a, s)
    BY DEF MadeBy
  <2> QED BY <1>2, <2>1
<1>4. PICK g : MadeBy(g, m - 1, a, s)
  <2>1. m - 1 \in Nat /\ m - 1 < m
    BY <1>2, <1>3
  <2>2. m - 1 \notin T
    BY <1>1, <2>1
  <2> QED BY <2>1, <2>2
<1> DEFINE f == [i \in 0 .. m |-> IF i = 0 THEN a ELSE s[i][g[i - 1]]]
<1>5. \A i \in 0 .. m - 1 : i \in 0 .. m /\ f[i] = g[i]
  BY <1>2, <1>4, SMTT(30) DEF MadeBy
<1>6. \A i \in 0 .. m : i # 0 => i - 1 \in 0 .. m - 1
  BY <1>2
<1>7. \A i \in 0 .. m : i # 0 => g[i - 1] = f[i - 1]
  BY <1>5, <1>6
<1>8. f = [i \in 0 .. m |-> IF i = 0 THEN a ELSE s[i][f[i - 1]]]
  <2> DEFINE h == [i \in 0 .. m |-> IF i = 0 THEN a ELSE s[i][f[i - 1]]]
  <2>1. \A i \in 0 .. m : f[i] = h[i]
    BY <1>7
  <2> QED BY <2>1
<1>9. MadeBy(f, m, a, s)
  BY <1>8 DEF MadeBy
<1> QED BY <1>2, <1>9

\* The powers of two.
LEMMA Powers ==
    /\ Pow2(0) = 1 /\ \A i \in 1 .. BITS : Pow2(i) = 2 * Pow2(i - 1)
<1> DEFINE IsPow(f) == f = [j \in 0 .. BITS |-> IF j = 0 THEN 1 ELSE 2 * f[j - 1]]
           pow == CHOOSE f : IsPow(f)
<1>1. \A i : Pow2(i) = pow[i]
  BY DEF Pow2
<1>2. \E f : IsPow(f)
  <2> DEFINE s == [i \in 1 .. BITS |-> [v \in Int |-> 2 * v]]
  <2>1. PICK f : MadeBy(f, BITS, 1, s)
    BY StepsExist, Sizes
  <2>2. f = [i \in 0 .. BITS |-> IF i = 0 THEN 1 ELSE s[i][f[i - 1]]]
    BY <2>1 DEF MadeBy
  <2>3. \A i \in 0 .. BITS : f[i] \in Int
    <3> DEFINE S == {i \in 0 .. BITS : f[i] \in Int}
    <3>1. 0 \in S
      BY <2>2, Sizes
    <3>2. ASSUME NEW i \in 1 .. BITS, i - 1 \in S PROVE i \in S
      <4>1. i \in 0 .. BITS /\ i # 0 /\ f[i - 1] \in Int
        BY <3>2, Sizes
      <4>2. f[i] = s[i][f[i - 1]]
        BY <2>2, <4>1
      <4> QED BY <4>1, <4>2
    <3> HIDE DEF S
    <3>3. 0 .. BITS \subseteq S
      BY <3>1, <3>2, UpTo, Sizes
    <3> QED BY <3>3 DEF S
  <2>4. \A i \in 0 .. BITS : i # 0 => i \in 1 .. BITS /\ f[i - 1] \in Int
    <3>1. \A i \in 0 .. BITS : i # 0 => i \in 1 .. BITS /\ i - 1 \in 0 .. BITS
      BY Sizes
    <3> QED BY <2>3, <3>1
  <2>5. \A i \in 0 .. BITS : f[i] = IF i = 0 THEN 1 ELSE 2 * f[i - 1]
    BY <2>2, <2>4
  <2>6. f = [i \in 0 .. BITS |-> f[i]]
    BY <2>2
  <2>7. IsPow(f)
    BY <2>5, <2>6
  <2> QED BY <2>7
<1>3. IsPow(pow)
  BY <1>2
<1> HIDE DEF pow
<1>4. BITS \in Nat /\ 0 \in 0 .. BITS /\ \A i \in 1 .. BITS : i \in 0 .. BITS /\ i # 0
  BY Sizes
<1>5. pow[0] = 1 /\ \A i \in 1 .. BITS : pow[i] = 2 * pow[i - 1]
  BY <1>3, <1>4
<1> QED BY <1>1, <1>5

\* They are positive.
LEMMA PowerType ==
    ASSUME NEW k \in 0 .. BITS
    PROVE  Pow2(k) \in Nat /\ Pow2(k) > 0
<1> DEFINE S == {i \in 0 .. BITS : Pow2(i) \in Nat /\ Pow2(i) > 0}
<1>1. 0 \in S
  BY Powers, Sizes
<1>2. ASSUME NEW i \in 1 .. BITS, i - 1 \in S PROVE i \in S
  <2>1. Pow2(i) = 2 * Pow2(i - 1) /\ i \in 0 .. BITS
    BY Powers, Sizes
  <2> QED BY <1>2, <2>1
<1> HIDE DEF S
<1>3. 0 .. BITS \subseteq S
  BY <1>1, <1>2, UpTo, Sizes
<1> QED BY <1>3 DEF S

\* What is left of a word above bit k is what is left above the next, twice, and the bit.
LEMMA Shifted ==
    ASSUME NEW x \in Nat, NEW k \in 1 .. BITS
    PROVE  /\ x \div Pow2(k) \in Nat /\ x \div Pow2(k - 1) \in Nat /\ BitOf(x, k - 1) \in {0, 1}
           /\ x \div Pow2(k - 1) = 2 * (x \div Pow2(k)) + BitOf(x, k - 1)
<1>1. k \in 0 .. BITS /\ k - 1 \in 0 .. BITS
  BY Sizes
<1> DEFINE m == Pow2(k - 1)
           q == x \div m
           r == x % m
           h == q \div 2
           b == q % 2
<1>2. m \in Nat /\ m > 0 /\ Pow2(k) = 2 * m
  BY <1>1, PowerType, Powers
<1> HIDE DEF m
<1>3. q \in Nat /\ r \in 0 .. m - 1 /\ x = m * q + r
  BY <1>2
<1> HIDE DEF q, r
<1>4. h \in Nat /\ b \in {0, 1} /\ q = 2 * h + b
  BY <1>3
<1> HIDE DEF h, b
<1>5. x = (2 * m) * h + (m * b + r)
  <2>1. m * q = m * (2 * h) + m * b
    BY <1>2, <1>4
  <2>2. m * (2 * h) = (2 * m) * h
    BY <1>2, <1>4
  <2> QED BY <1>2, <1>3, <1>4, <2>1, <2>2
<1>6. m * b + r \in 0 .. 2 * m - 1
  <2>1. CASE b = 0
    BY <1>2, <1>3, <2>1
  <2>2. CASE b = 1
    BY <1>2, <1>3, <2>2
  <2> QED BY <1>4, <2>1, <2>2
<1>7. x \div (2 * m) = h
  BY <1>2, <1>4, <1>5, <1>6, Quotient
<1>8. BitOf(x, k - 1) = b
  BY DEF BitOf, b, q, m
<1>9. x \div Pow2(k - 1) = q
  BY DEF q, m
<1> QED BY <1>2, <1>3, <1>4, <1>7, <1>8, <1>9

\* Nothing is left above the highest bit, and everything above none.
LEMMA ShiftEnds ==
    ASSUME NEW x \in 0 .. Wide - 1
    PROVE  x \div Pow2(BITS) = 0 /\ x \div Pow2(0) = x
<1>1. Pow2(BITS) = Wide /\ Pow2(0) = 1
  BY MachineAssumption, Powers
<1>2. Wide \in Nat /\ x \in Nat /\ Wide > 0
  BY Sizes
<1>3. x \div Wide = 0
  <2>1. x = Wide * 0 + x
    BY <1>2
  <2> QED BY <1>2, <2>1, Quotient
<1>4. x \div 1 = x
  BY <1>2
<1> QED BY <1>1, <1>3, <1>4

\* Two words agree in their highest bits when what is left above the others agrees.
LEMMA AgreeAbove ==
    ASSUME NEW x \in 0 .. Wide - 1, NEW y \in 0 .. Wide - 1, NEW n \in 0 .. BITS
    PROVE  EqualFrom(x, y)[n] = Flag(x \div Pow2(BITS - n) = y \div Pow2(BITS - n))
<1> DEFINE Digit(z, i) == BitOf(z, BITS - i)
           Term(i) == 1 - Digit(x, i) - Digit(y, i) + 2 * Digit(x, i) * Digit(y, i)
           IsEq(f) == f = [i \in 0 .. BITS |-> IF i = 0 THEN 1 ELSE f[i - 1] * Term(i)]
           g == [i \in 0 .. BITS |-> Flag(x \div Pow2(BITS - i) = y \div Pow2(BITS - i))]
           eq == CHOOSE f : IsEq(f)
<1>0. BITS \in Nat /\ x \in Nat /\ y \in Nat
  BY Sizes
<1>1. EqualFrom(x, y) = eq
  BY DEF EqualFrom
<1>2. g[0] = 1
  BY <1>0, ShiftEnds DEF Flag
<1>3. ASSUME NEW i \in 1 .. BITS
      PROVE  g[i] = g[i - 1] * Term(i)
  <2> DEFINE k == BITS - i + 1
  <2>1. k \in 1 .. BITS /\ k - 1 = BITS - i /\ k = BITS - (i - 1) /\ i \in 0 .. BITS /\ i - 1 \in 0 .. BITS
    BY <1>0
  <2>2. g[i] = Flag(x \div Pow2(k - 1) = y \div Pow2(k - 1)) /\ g[i - 1] = Flag(x \div Pow2(k) = y \div Pow2(k))
    BY <2>1
  <2>3. Digit(x, i) = BitOf(x, k - 1) /\ Digit(y, i) = BitOf(y, k - 1)
    BY <2>1
  <2> HIDE DEF k, g, Digit
  <2> DEFINE p == BitOf(x, k - 1)
             q == BitOf(y, k - 1)
             u == x \div Pow2(k)
             v == y \div Pow2(k)
  <2>4. /\ u \in Nat /\ p \in {0, 1} /\ x \div Pow2(k - 1) = 2 * u + p
        /\ v \in Nat /\ q \in {0, 1} /\ y \div Pow2(k - 1) = 2 * v + q
    BY <1>0, <2>1, Shifted
  <2> HIDE DEF p, q, u, v
  <2>5. 2 * u + p = 2 * v + q <=> u = v /\ p = q
    BY <2>4
  <2>6. g[i] = Flag(u = v /\ p = q) /\ g[i - 1] = Flag(u = v)
    BY <2>2, <2>4, <2>5 DEF u, v
  <2>7. Term(i) = 1 - p - q + 2 * p * q
    BY <2>3 DEF p, q
  <2>8. 1 - p - q + 2 * p * q = Flag(p = q)
    BY <2>4 DEF Flag
  <2> QED BY <2>6, <2>7, <2>8 DEF Flag
<1>4. IsEq(g)
  <2>1. \A i \in 0 .. BITS : i # 0 => i \in 1 .. BITS
    BY <1>0
  <2>2. \A i \in 0 .. BITS : g[i] = IF i = 0 THEN 1 ELSE g[i - 1] * Term(i)
    BY <1>2, <1>3, <2>1
  <2>3. g = [i \in 0 .. BITS |-> g[i]]
    OBVIOUS
  <2> HIDE DEF g, Term
  <2> QED BY <2>2, <2>3
<1>5. IsEq(eq)
  <2> HIDE DEF IsEq, g
  <2> QED BY <1>4
<1> DEFINE S == {i \in 0 .. BITS : eq[i] = g[i]}
<1> HIDE DEF eq, g, Term
<1>6. 0 \in S
  BY <1>0, <1>2, <1>5
<1>7. ASSUME NEW i \in 1 .. BITS, i - 1 \in S PROVE i \in S
  <2>1. i \in 0 .. BITS /\ i # 0 /\ eq[i - 1] = g[i - 1]
    BY <1>0, <1>7
  <2>2. eq[i] = eq[i - 1] * Term(i)
    BY <1>5, <2>1
  <2> QED BY <1>3, <2>1, <2>2
<1> HIDE DEF S
<1>8. n \in S
  BY <1>0, <1>6, <1>7, UpTo
<1> QED BY <1>1, <1>8 DEF S, g

\* And the first is smaller in them when what is left of it is.
LEMMA LessAbove ==
    ASSUME NEW x \in 0 .. Wide - 1, NEW y \in 0 .. Wide - 1
    PROVE  LessRaw(x, y) = Flag(x < y)
<1> DEFINE Digit(z, i) == BitOf(z, BITS - i)
           Term(i) == EqualFrom(x, y)[i - 1] * (1 - Digit(x, i)) * Digit(y, i)
           IsSum(f) == f = [i \in 0 .. BITS |-> IF i = 0 THEN 0 ELSE f[i - 1] + Term(i)]
           g == [i \in 0 .. BITS |-> Flag(x \div Pow2(BITS - i) < y \div Pow2(BITS - i))]
           sum == CHOOSE f : IsSum(f)
<1>0. BITS \in Nat /\ x \in Nat /\ y \in Nat /\ BITS \in 0 .. BITS
  BY Sizes
<1>1. LessRaw(x, y) = sum[BITS]
  BY DEF LessRaw
<1>2. g[0] = 0
  BY <1>0, ShiftEnds DEF Flag
<1>3. ASSUME NEW i \in 1 .. BITS
      PROVE  g[i] = g[i - 1] + Term(i)
  <2> DEFINE k == BITS - i + 1
  <2>1. k \in 1 .. BITS /\ k - 1 = BITS - i /\ k = BITS - (i - 1) /\ i \in 0 .. BITS /\ i - 1 \in 0 .. BITS
    BY <1>0
  <2>2. g[i] = Flag(x \div Pow2(k - 1) < y \div Pow2(k - 1)) /\ g[i - 1] = Flag(x \div Pow2(k) < y \div Pow2(k))
    BY <2>1
  <2>3. Digit(x, i) = BitOf(x, k - 1) /\ Digit(y, i) = BitOf(y, k - 1)
    BY <2>1
  <2>4. EqualFrom(x, y)[i - 1] = Flag(x \div Pow2(k) = y \div Pow2(k))
    BY <2>1, AgreeAbove
  <2> HIDE DEF k, g, Digit
  <2> DEFINE p == BitOf(x, k - 1)
             q == BitOf(y, k - 1)
             u == x \div Pow2(k)
             v == y \div Pow2(k)
  <2>5. /\ u \in Nat /\ p \in {0, 1} /\ x \div Pow2(k - 1) = 2 * u + p
        /\ v \in Nat /\ q \in {0, 1} /\ y \div Pow2(k - 1) = 2 * v + q
    BY <1>0, <2>1, Shifted
  <2>6. Term(i) = Flag(u = v) * (1 - p) * q
    BY <2>3, <2>4
  <2>7. g[i] = Flag(2 * u + p < 2 * v + q) /\ g[i - 1] = Flag(u < v)
    BY <2>2, <2>5
  <2> HIDE DEF p, q, u, v, Term
  <2>8. Flag(2 * u + p < 2 * v + q) = Flag(u < v) + Flag(u = v) * (1 - p) * q
    <3>1. CASE u < v
      BY <2>5, <3>1 DEF Flag
    <3>2. CASE u = v
      BY <2>5, <3>2 DEF Flag
    <3>3. CASE u > v
      BY <2>5, <3>3 DEF Flag
    <3> QED BY <2>5, <3>1, <3>2, <3>3
  <2> QED BY <2>6, <2>7, <2>8
<1>4. IsSum(g)
  <2>1. \A i \in 0 .. BITS : i # 0 => i \in 1 .. BITS
    BY <1>0
  <2>2. \A i \in 0 .. BITS : g[i] = IF i = 0 THEN 0 ELSE g[i - 1] + Term(i)
    BY <1>2, <1>3, <2>1
  <2>3. g = [i \in 0 .. BITS |-> g[i]]
    OBVIOUS
  <2> HIDE DEF g, Term
  <2> QED BY <2>2, <2>3
<1>5. IsSum(sum)
  <2> HIDE DEF IsSum, g
  <2> QED BY <1>4
<1> DEFINE S == {i \in 0 .. BITS : sum[i] = g[i]}
<1>6. 0 \in S
  <2> HIDE DEF sum, g, Term
  <2> QED BY <1>0, <1>2, <1>5
<1>7. ASSUME NEW i \in 1 .. BITS, i - 1 \in S PROVE i \in S
  <2> HIDE DEF sum, g, Term
  <2>1. i \in 0 .. BITS /\ i # 0 /\ sum[i - 1] = g[i - 1]
    BY <1>0, <1>7
  <2>2. sum[i] = sum[i - 1] + Term(i)
    BY <1>5, <2>1
  <2> QED BY <1>3, <2>1, <2>2
<1>8. BITS \in S
  <2> HIDE DEF S
  <2> QED BY <1>0, <1>6, <1>7, UpTo
<1>9. g[BITS] = Flag(x < y)
  <2>1. BITS - BITS = 0
    BY <1>0
  <2> QED BY <1>0, <2>1, ShiftEnds
<1> QED BY <1>1, <1>8, <1>9

\* Every bit of two words agrees when the words do.
LEMMA SameWords ==
    ASSUME NEW x \in 0 .. Wide - 1, NEW y \in 0 .. Wide - 1
    PROVE  EqualFrom(x, y)[BITS] = Flag(x = y)
<1>1. BITS \in 0 .. BITS /\ BITS - BITS = 0
  BY Sizes
<1> QED BY <1>1, AgreeAbove, ShiftEnds

\* What two words have in common is a number.
LEMMA CommonBits ==
    ASSUME NEW x \in Nat, NEW y \in Nat
    PROVE  BitAnd(x, y) \in Nat
<1> DEFINE Term(i) == BitOf(x, i - 1) * BitOf(y, i - 1) * Pow2(i - 1)
           IsAnd(f) == f = [i \in 0 .. BITS |-> IF i = 0 THEN 0 ELSE f[i - 1] + Term(i)]
           and == CHOOSE f : IsAnd(f)
<1>0. BITS \in Nat
  BY Sizes
<1>1. BitAnd(x, y) = and[BITS]
  BY DEF BitAnd
<1>2. ASSUME NEW i \in 1 .. BITS PROVE Term(i) \in Nat
  <2>1. i - 1 \in 0 .. BITS
    BY <1>0
  <2>2. Pow2(i - 1) \in Nat /\ BitOf(x, i - 1) \in {0, 1} /\ BitOf(y, i - 1) \in {0, 1}
    BY <2>1, PowerType, Shifted
  <2> QED BY <2>2
<1>3. \E f : IsAnd(f)
  <2> DEFINE s == [i \in 1 .. BITS |-> [v \in Int |-> v + Term(i)]]
  <2>1. PICK f : MadeBy(f, BITS, 0, s)
    BY StepsExist, Sizes
  <2>2. f = [i \in 0 .. BITS |-> IF i = 0 THEN 0 ELSE s[i][f[i - 1]]]
    BY <2>1 DEF MadeBy
  <2> HIDE DEF Term
  <2>3. \A i \in 0 .. BITS : f[i] \in Int
    <3> DEFINE S == {i \in 0 .. BITS : f[i] \in Int}
    <3>1. 0 \in S
      BY <2>2, <1>0
    <3>2. ASSUME NEW i \in 1 .. BITS, i - 1 \in S PROVE i \in S
      <4>1. i \in 0 .. BITS /\ i # 0 /\ f[i - 1] \in Int /\ Term(i) \in Nat
        BY <1>0, <1>2, <3>2
      <4>2. f[i] = s[i][f[i - 1]]
        BY <2>2, <4>1
      <4> QED BY <4>1, <4>2
    <3> HIDE DEF S
    <3>3. 0 .. BITS \subseteq S
      BY <3>1, <3>2, UpTo, <1>0
    <3> QED BY <3>3 DEF S
  <2>4. \A i \in 0 .. BITS : i # 0 => i \in 1 .. BITS /\ f[i - 1] \in Int
    <3>1. \A i \in 0 .. BITS : i # 0 => i \in 1 .. BITS /\ i - 1 \in 0 .. BITS
      BY <1>0
    <3> QED BY <2>3, <3>1
  <2>5. \A i \in 0 .. BITS : f[i] = IF i = 0 THEN 0 ELSE f[i - 1] + Term(i)
    BY <2>2, <2>4
  <2>6. f = [i \in 0 .. BITS |-> f[i]]
    BY <2>2
  <2>7. IsAnd(f)
    BY <2>5, <2>6
  <2> QED BY <2>7
<1>4. IsAnd(and)
  <2> HIDE DEF IsAnd
  <2> QED BY <1>3
<1> DEFINE S == {i \in 0 .. BITS : and[i] \in Nat}
<1>5. 0 \in S
  <2> HIDE DEF and, Term
  <2> QED BY <1>0, <1>4
<1>6. ASSUME NEW i \in 1 .. BITS, i - 1 \in S PROVE i \in S
  <2> HIDE DEF and, Term
  <2>1. i \in 0 .. BITS /\ i # 0 /\ and[i - 1] \in Nat /\ Term(i) \in Nat
    BY <1>0, <1>2, <1>6
  <2>2. and[i] = and[i - 1] + Term(i)
    BY <1>4, <2>1
  <2> QED BY <2>1, <2>2
<1>7. BITS \in S
  <2> HIDE DEF S
  <2>1. BITS \in 0 .. BITS
    BY <1>0
  <2> QED BY <1>0, <1>5, <1>6, <2>1, UpTo
<1> QED BY <1>1, <1>7

\* Two field elements differ by nothing when they are one.
LEMMA SameElement ==
    ASSUME NEW x \in 0 .. P - 1, NEW y \in 0 .. P - 1
    PROVE  F(x - y) = 0 <=> x = y
<1>1. P \in Nat /\ 0 \in 0 .. P - 1 /\ x \in Int /\ y \in Int
  BY Sizes
<1>2. F(x - y) = 0 => x = y
  BY <1>1, Solves, OwnResidue
<1>3. x = y => F(x - y) = 0
  BY <1>1, OwnResidue
<1> QED BY <1>2, <1>3

\* The complement of a test.
LEMMA Complement ==
    ASSUME NEW r \in 0 .. P - 1, NEW e \in Int, F(e) \in {0, 1}, F(r - 1 + e) = 0
    PROVE  r = 1 - F(e)
<1>1. P \in Nat /\ P > 2 /\ r \in Int
  BY Sizes
<1>2. r - 1 + e = r - (1 - e)
  BY <1>1
<1>3. r = F(1 - e)
  BY <1>1, <1>2, Solves
<1>4. PICK q \in Int : e = P * q + F(e)
  BY Residue
<1> DEFINE f == F(e)
<1>5. f \in {0, 1} /\ e = P * q + f
  BY <1>4
<1> HIDE DEF f
<1>6. 1 - e = P * (-q) + (1 - f) /\ 1 - f \in 0 .. P - 1
  <2>1. P * (-q) = -(P * q)
    BY <1>1
  <2> QED BY <1>1, <1>5, <2>1
<1> QED BY <1>3, <1>6, OnlyResidue DEF f

\* The test for zero and its complement, on field elements.
LEMMA TestAnswers ==
    ASSUME NEW x \in 0 .. P - 1, NEW y \in 0 .. P - 1, NEW inv \in Int, TestsZero(x - y, inv)
    PROVE  /\ F((x - y) * inv) = Flag(x # y) /\ F(1 - F((x - y) * inv)) = Flag(x = y)
           /\ \A r \in 0 .. P - 1 : Zero(r - 1 + (x - y) * inv) => r = Flag(x = y)
<1>1. P \in Nat /\ P > 2 /\ x - y \in Int /\ (x - y) * inv \in Int /\ 0 \in 0 .. P - 1 /\ 1 \in 0 .. P - 1
  BY Sizes
<1>2. F((x - y) * inv) = IF F(x - y) = 0 THEN 0 ELSE 1
  BY <1>1, Tested
<1>3. F((x - y) * inv) = Flag(x # y)
  BY <1>2, SameElement DEF Flag
<1>4. F(1 - F((x - y) * inv)) = Flag(x = y)
  <2>1. 1 - Flag(x # y) = Flag(x = y) /\ Flag(x = y) \in 0 .. P - 1
    BY <1>1 DEF Flag
  <2> QED BY <1>3, <2>1, OwnResidue
<1>5. ASSUME NEW r \in 0 .. P - 1, Zero(r - 1 + (x - y) * inv) PROVE r = Flag(x = y)
  <2>1. F((x - y) * inv) \in {0, 1}
    BY <1>3 DEF Flag
  <2>2. F(r - 1 + (x - y) * inv) = 0
    BY <1>5 DEF Zero
  <2>3. r = 1 - F((x - y) * inv)
    BY <1>1, <2>1, <2>2, Complement
  <2> QED BY <1>3, <2>3 DEF Flag
<1> QED BY <1>3, <1>4, <1>5

\* What a row may say besides its operands and its result.
HintsFit(c) ==
    IF c.op \in Compares \union {"And"}
    THEN /\ c.h.bits1 \in 0 .. Wide - 1 /\ c.h.hi1 \in Int /\ F(c.h.bits1) = c.a /\ CanonicalBits(c.h.bits1, c.h.hi1)
         /\ c.h.bits2 \in 0 .. Wide - 1 /\ c.h.hi2 \in Int /\ F(c.h.bits2) = c.b /\ CanonicalBits(c.h.bits2, c.h.hi2)
    ELSE c.h.inv \in Int /\ c.h.zero \in 0 .. 1
Fits(c, a, b, imm) == c.a = a /\ c.b = b /\ c.imm = F(imm) /\ HintsFit(c) /\ RowRules(c)

\* Sums, differences and products.
LEMMA ArithmeticForces ==
    ASSUME NEW a \in 0 .. P - 1, NEW b \in 0 .. P - 1, NEW imm \in Int,
           NEW c, c.rd \in 0 .. P - 1, Fits(c, a, b, imm), c.op \in {"Add", "Sub", "Mul"}
    PROVE  c.rd = F(OpValue(c.op, a, b, imm))
<1>1. P \in Nat /\ P > 2 /\ a \in Int /\ b \in Int /\ c.rd \in Int /\ a + b \in Int /\ a - b \in Int /\ a * b \in Int
  BY Sizes
<1>2. ArithmeticRow(c) /\ c.a = a /\ c.b = b
  BY DEF Fits, RowRules
<1>3. \A x \in Int : F(F(x)) = F(x)
  BY Residue, OwnResidue
<1>4. CASE c.op = "Add"
  <2>1. c.rd - a - b = c.rd - (a + b) /\ F(c.rd - a - b) = 0
    BY <1>1, <1>2, <1>4 DEF ArithmeticRow, Zero
  <2>2. c.rd = F(a + b)
    BY <1>1, <2>1, Solves
  <2> QED BY <1>1, <1>3, <1>4, <2>2 DEF OpValue
<1>5. CASE c.op = "Sub"
  <2>1. c.rd - a + b = c.rd - (a - b) /\ F(c.rd - a + b) = 0
    BY <1>1, <1>2, <1>5 DEF ArithmeticRow, Zero
  <2>2. c.rd = F(a - b)
    BY <1>1, <2>1, Solves
  <2>3. F(b) = b /\ a + P - b = (a - b) + P
    BY <1>1, OwnResidue
  <2>4. F(a + P - F(b)) = F(a - b)
    BY <1>1, <2>3, Around
  <2> QED BY <1>1, <1>3, <1>5, <2>2, <2>4 DEF OpValue
<1>6. CASE c.op = "Mul"
  <2>1. F(c.rd - a * b) = 0
    BY <1>2, <1>6 DEF ArithmeticRow, Zero
  <2>2. c.rd = F(a * b)
    BY <1>1, <2>1, Solves
  <2> QED BY <1>1, <1>3, <1>6, <2>2 DEF OpValue
<1> QED BY <1>4, <1>5, <1>6

\* Quotients and inverses.
LEMMA DivisionForces ==
    ASSUME NEW a \in 0 .. P - 1, NEW b \in 0 .. P - 1, NEW imm \in Int,
           NEW c, c.rd \in 0 .. P - 1, Fits(c, a, b, imm), c.op \in {"Div", "Inv"}
    PROVE  c.rd = F(OpValue(c.op, a, b, imm))
<1>1. c.a = a /\ c.b = b /\ DivisionRow(c) /\ InversionRow(c) /\ HintsFit(c)
  BY DEF Fits, RowRules
<1>2. c.h.inv \in Int /\ c.h.zero \in 0 .. 1
  <2>1. c.op \notin Compares \union {"And"}
    BY DEF Compares
  <2> QED BY <1>1, <2>1 DEF HintsFit
<1>3. CASE c.op = "Div"
  <2>1. Quotes(a, b, c.rd, c.h.inv, c.h.zero)
    BY <1>1, <1>3 DEF DivisionRow, Zero, Quotes
  <2>2. c.rd = F(a * FieldInverse(b))
    BY <1>2, <2>1, Divides
  <2> QED BY <1>3, <2>2, OwnResidue DEF OpValue
<1>4. CASE c.op = "Inv"
  <2>1. F(a * c.h.zero) = 0 /\ F(a * c.rd + c.h.zero - 1) = 0 /\ F(c.h.zero * c.rd) = 0
    BY <1>1, <1>4 DEF InversionRow, Zero
  <2>2. c.rd = FieldInverse(a)
    BY <1>2, <2>1, Inverts
  <2> QED BY <1>4, <2>2, OwnResidue DEF OpValue
<1> QED BY <1>3, <1>4

\* The tests for equality.
LEMMA EqualityForces ==
    ASSUME NEW a \in 0 .. P - 1, NEW b \in 0 .. P - 1, NEW imm \in Int,
           NEW c, c.rd \in 0 .. P - 1, Fits(c, a, b, imm), c.op \in {"Not", "Eq", "Neq", "SumConservation", "NullifierCheck"}
    PROVE  c.rd = F(OpValue(c.op, a, b, imm))
<1>1. c.a = a /\ c.b = b /\ NotRow(c) /\ EqualityRow(c) /\ HashRow(c) /\ HintsFit(c)
  BY DEF Fits, RowRules
<1>2. c.h.inv \in Int
  <2>1. c.op \notin Compares \union {"And"}
    BY DEF Compares
  <2> QED BY <1>1, <2>1 DEF HintsFit
<1>3. P \in Nat /\ P > 2 /\ 0 \in 0 .. P - 1 /\ a < P /\ b < P /\ a - 0 = a
  BY Sizes
<1>4. CASE c.op = "Not"
  <2>1. TestsZero(a - 0, c.h.inv) /\ Zero(c.rd - 1 + (a - 0) * c.h.inv)
    BY <1>1, <1>3, <1>4 DEF NotRow
  <2>2. c.rd = Flag(a = 0)
    BY <1>2, <1>3, <2>1, TestAnswers
  <2> QED BY <1>4, <2>2, OwnResidue DEF OpValue
<1>5. CASE c.op \in {"Eq", "Neq", "SumConservation"}
  <2>1. TestsZero(a - b, c.h.inv) /\ c.rd = IF c.op = "Neq" THEN F((a - b) * c.h.inv) ELSE F(1 - F((a - b) * c.h.inv))
    BY <1>1, <1>5 DEF EqualityRow
  <2>2. c.rd = IF c.op = "Neq" THEN Flag(a # b) ELSE Flag(a = b)
    BY <1>2, <2>1, TestAnswers
  <2>3. (a < P /\ b < P /\ a = b) = (a = b)
    BY <1>3
  <2>4. OpValue(c.op, a, b, imm) = c.rd
    <3>1. CASE c.op = "Eq"
      BY <2>2, <3>1 DEF OpValue
    <3>2. CASE c.op = "Neq"
      BY <2>2, <3>2 DEF OpValue
    <3>3. CASE c.op = "SumConservation"
      BY <2>2, <2>3, <3>3 DEF OpValue
    <3> QED BY <1>5, <3>1, <3>2, <3>3
  <2> QED BY <2>4, OwnResidue
<1>6. CASE c.op = "NullifierCheck"
  <2> DEFINE x == Hash2(b, DOMAIN_NULLIFIER)
  <2>1. x \in 0 .. P - 1
    <3>1. DOMAIN_NULLIFIER \in Int /\ b \in Int
      BY HostAssumption, <1>3
    <3>2. F(b) \in 0 .. P - 1 /\ F(DOMAIN_NULLIFIER) \in 0 .. P - 1
      BY <3>1, Residue
    <3> QED BY <1>3, <3>2, MachineAssumption DEF Hash2
  <2>2. TestsZero(x - a, c.h.inv) /\ Zero(c.rd - 1 + (x - a) * c.h.inv)
    BY <1>1, <1>6 DEF HashRow
  <2> HIDE DEF x
  <2>3. c.rd = Flag(x = a)
    BY <1>2, <2>1, <2>2, TestAnswers
  <2> QED BY <1>6, <2>3, OwnResidue DEF OpValue, x
<1> QED BY <1>4, <1>5, <1>6

\* The hashes.
LEMMA HashForces ==
    ASSUME NEW a \in 0 .. P - 1, NEW b \in 0 .. P - 1, NEW imm \in Int,
           NEW c, c.rd \in 0 .. P - 1, Fits(c, a, b, imm), c.op \in {"Poseidon", "PrivacyCommit"}
    PROVE  c.rd = F(OpValue(c.op, a, b, imm))
<1>1. c.a = a /\ c.b = b /\ c.imm = F(imm) /\ HashRow(c)
  BY DEF Fits, RowRules
<1>2. F(F(imm)) = F(imm)
  BY Residue, OwnResidue
<1>3. OpValue(c.op, a, b, imm) = c.rd
  <2>1. CASE c.op = "Poseidon"
    BY <1>1, <2>1 DEF HashRow, OpValue
  <2>2. CASE c.op = "PrivacyCommit"
    BY <1>1, <1>2, <2>2 DEF HashRow, OpValue, Hash3
  <2> QED BY <2>1, <2>2
<1> QED BY <1>3, OwnResidue

\* The comparisons and the bits in common.
LEMMA BitsForce ==
    ASSUME NEW a \in 0 .. P - 1, NEW b \in 0 .. P - 1, NEW imm \in Int,
           NEW c, c.rd \in 0 .. P - 1, Fits(c, a, b, imm), c.op \in Compares \union {"And"}
    PROVE  c.rd = F(OpValue(c.op, a, b, imm))
<1>1. c.a = a /\ c.b = b /\ BitsRow(c) /\ CompareRow(c) /\ HintsFit(c)
  BY DEF Fits, RowRules
<1>2. c.h.bits1 = a /\ c.h.bits2 = b
  BY <1>1, BitsAreOwn DEF HintsFit
<1>3. a \in 0 .. Wide - 1 /\ b \in 0 .. Wide - 1 /\ a \in Int /\ b \in Int /\ P \in Nat /\ P > 2
  BY Sizes
<1> DEFINE less == LessRaw(a, b)
           same == EqualFrom(a, b)[BITS]
<1>4. less = Flag(a < b) /\ same = Flag(a = b)
  BY <1>3, LessAbove, SameWords
<1>5. /\ c.op = "Lt" => c.rd = F(less)
      /\ c.op = "Gt" => c.rd = F(1 - same - less)
      /\ c.op = "Lte" => c.rd = F(same + less)
      /\ c.op = "Gte" => c.rd = F(1 - less)
  BY <1>1, <1>2 DEF CompareRow
<1>6. c.op = "And" => c.rd = F(BitAnd(a, b))
  BY <1>1, <1>2 DEF BitsRow
<1> HIDE DEF less, same
<1>7. /\ less = Flag(a < b) /\ 1 - same - less = Flag(a > b)
      /\ same + less = Flag(a <= b) /\ 1 - less = Flag(a >= b)
  BY <1>3, <1>4 DEF Flag
<1> QED BY <1>5, <1>6, <1>7 DEF OpValue, Compares

\* A row with the operands and the instruction of a step says what the step computed.
LEMMA RowForces ==
    ASSUME NEW a \in 0 .. P - 1, NEW b \in 0 .. P - 1, NEW imm \in Int,
           NEW c, c.rd \in 0 .. P - 1, Fits(c, a, b, imm), c.op \in Pure
    PROVE  c.rd = F(OpValue(c.op, a, b, imm))
BY ArithmeticForces, DivisionForces, EqualityForces, HashForces, BitsForce DEF Pure, Compares

-----------------------------------------------------------------------------
(* The machine that leaves the rows.                                       *)

\* A row of a computing instruction holds the value of its operands.
RowComputed(rows) ==
    LET s == rows[Len(rows)]
    IN rows # <<>> /\ s.inst.op \in Pure =>
         s.src1 \in Nat /\ s.src2 \in Nat /\ s.inst.imm \in Int /\ s.dst = OpValue(s.inst.op, s.src1, s.src2, s.inst.imm)
Traced(rows) == (\E S : rows \in Seq(S)) /\ RowComputed(rows)

VmFields == {"pc", "registers", "stack", "memory", "storage", "events", "trace", "halted", "gas_used", "error", "state_writes"}
Sound(m, regs) ==
    /\ DOMAIN m = VmFields /\ m.pc \in Nat /\ m.registers \in [regs -> Nat] /\ m.stack \in Seq(Nat)
    /\ m.memory \in Seq(Nat) /\ m.storage \in [-HALF .. HALF -> Nat] /\ Traced(m.trace)
ZkInv == code \in ZkPrograms /\ entry.registers \in Seeds /\ Sound(vm, DOMAIN entry.registers)

\* A trace that ends in rows of other instructions.
LEMMA TraceGrows ==
    ASSUME NEW t, NEW S, t \in Seq(S), NEW T, NEW rows \in Seq(T), rows # <<>>, rows[Len(rows)].inst.op \notin Pure
    PROVE  Traced(t \o rows) /\ t \o rows # <<>> /\ (t \o rows)[Len(t \o rows)] = rows[Len(rows)]
<1> DEFINE U == S \union T
<1>1. t \in Seq(U) /\ rows \in Seq(U)
  OBVIOUS
<1> HIDE DEF U
<1>2. t \o rows \in Seq(U) /\ Len(t \o rows) = Len(t) + Len(rows) /\ Len(rows) \in Nat /\ Len(rows) > 0 /\ Len(t) \in Nat
  BY <1>1
<1>3. (t \o rows)[Len(t \o rows)] = rows[Len(rows)]
  BY <1>1, <1>2
<1>4. t \o rows # <<>>
  BY <1>2
<1> QED BY <1>2, <1>3, <1>4 DEF Traced, RowComputed

\* A last row that is filled in stays a row of its instruction.
LEMMA TraceTouched ==
    ASSUME NEW t, NEW S, t \in Seq(S), t # <<>>, NEW row, row.inst.op \notin Pure
    PROVE  Traced([t EXCEPT ![Len(t)] = row])
<1> DEFINE U == S \union {row}
           u == [t EXCEPT ![Len(t)] = row]
<1>1. t \in Seq(U) /\ row \in U /\ Len(t) \in Nat /\ Len(t) \in DOMAIN t
  OBVIOUS
<1> HIDE DEF U
<1>2. u \in Seq(U) /\ Len(u) = Len(t)
  BY <1>1
<1>3. u[Len(u)] = row
  BY <1>1, <1>2
<1> HIDE DEF u
<1>4. Traced(u)
  BY <1>2, <1>3 DEF Traced, RowComputed
<1> QED BY <1>4 DEF u

\* The instruction of a step and what it reads.
LEMMA ZkFetched ==
    ASSUME ZkInv, Decoded
    PROVE  /\ Op \in ZkInstructions(DOMAIN entry.registers) /\ Src1 \in Nat /\ Src2 \in Nat
           /\ Op.op \in {"SRead", "SWrite"} => Op.imm \in -HALF .. HALF
<1>1. code \in Seq(ZkInstructions(DOMAIN entry.registers)) /\ vm.pc \in Nat /\ vm.pc < Len(code)
  BY HostAssumption DEF ZkInv, Sound, Decoded
<1>2. vm.pc + 1 \in DOMAIN code
  BY <1>1
<1>3. Op \in ZkInstructions(DOMAIN entry.registers)
  BY <1>1, <1>2 DEF Op
<1>4. vm.registers \in [DOMAIN entry.registers -> Nat]
  BY DEF ZkInv, Sound
<1>5. Op.rs1 \in DOMAIN entry.registers /\ Op.rs2 \in DOMAIN entry.registers
  BY <1>3 DEF ZkInstructions
<1>6. Op.op \in {"SRead", "SWrite"} => Op.imm \in -HALF .. HALF
  BY <1>2, HostAssumption DEF ZkInv, Op
<1> QED BY <1>3, <1>4, <1>5, <1>6 DEF Src1, Src2

\* What a step without a destination leaves.
LEMMA KeepsSound ==
    ASSUME ZkInv, Decoded, NEW next \in Nat, NEW rows, Traced(vm.trace \o rows)
    PROVE  Sound(Keeps(rows, next), DOMAIN entry.registers)
BY DEF ZkInv, Sound, Keeps, VmFields

\* And one with a destination.
LEMMA YieldsSound ==
    ASSUME ZkInv, Decoded, NEW v \in Nat, NEW rows, Traced(vm.trace \o rows)
    PROVE  Sound(Yields(rows, v), DOMAIN entry.registers)
<1>1. Sound(Keeps(rows, vm.pc + 1), DOMAIN entry.registers)
  <2>1. vm.pc + 1 \in Nat
    BY DEF ZkInv, Sound
  <2> QED BY <2>1, KeepsSound
<1> DEFINE k == Keeps(rows, vm.pc + 1)
           g == [k.registers EXCEPT ![Op.rd] = v, ![0] = 0]
<1> HIDE DEF k
<1>2. g \in [DOMAIN entry.registers -> Nat]
  BY <1>1 DEF Sound, k
<1> HIDE DEF g
<1>3. Yields(rows, v) = [k EXCEPT !.registers = g]
  BY DEF Yields, k, g
<1> QED BY <1>1, <1>2, <1>3 DEF Sound, VmFields, k

\* The row of an instruction that computes nothing.
LEMMA OwnRow ==
    ASSUME ZkInv, Decoded, Op.op \notin Pure, NEW next, NEW dst, NEW sp
    PROVE  /\ Traced(vm.trace \o <<Own(next, dst, sp)>>) /\ vm.trace \o <<Own(next, dst, sp)>> # <<>>
           /\ (vm.trace \o <<Own(next, dst, sp)>>)[Len(vm.trace \o <<Own(next, dst, sp)>>)] = Own(next, dst, sp)
           /\ \E S : vm.trace \o <<Own(next, dst, sp)>> \in Seq(S)
<1>1. PICK S : vm.trace \in Seq(S)
  BY DEF ZkInv, Sound, Traced
<1> DEFINE row == Own(next, dst, sp)
<1>2. row.inst.op \notin Pure
  BY DEF Own, ZkRow
<1> HIDE DEF row
<1>3. <<row>> \in Seq({row}) /\ <<row>> # <<>> /\ <<row>>[Len(<<row>>)] = row
  OBVIOUS
<1>4. Traced(vm.trace \o <<row>>) /\ vm.trace \o <<row>> # <<>> /\ (vm.trace \o <<row>>)[Len(vm.trace \o <<row>>)] = row
  BY <1>1, <1>2, <1>3, TraceGrows
<1> QED BY <1>4 DEF row, Traced

\* A row that only moves on keeps the invariant.
LEMMA QuietSound ==
    ASSUME ZkInv, Decoded, Op.op \notin Pure, NEW next \in Nat
    PROVE  Sound(Quiet(next), DOMAIN entry.registers)
BY OwnRow, KeepsSound DEF Quiet

\* A row that leaves a number in its register keeps the invariant.
LEMMA ResultSound ==
    ASSUME ZkInv, Decoded, Op.op \notin Pure, NEW v \in Nat
    PROVE  Sound(Result(v), DOMAIN entry.registers)
BY OwnRow, YieldsSound DEF Result

\* The inverse of a word, which need not be below the modulus.
LEMMA InverseType ==
    ASSUME NEW x \in Nat
    PROVE  FieldInverse(x) \in Nat
<1>1. P \in Nat /\ P > 2 /\ 1 \in 0 .. P - 1
  BY Sizes
<1> DEFINE r == F(x)
<1>2. r \in 0 .. P - 1
  BY Residue
<1>3. PICK q \in Int : x = P * q + r
  BY Residue
<1>4. CASE r = 0
  BY <1>4 DEF FieldInverse
<1>5. CASE r # 0
  <2>1. r \in 1 .. P - 1
    BY <1>1, <1>2, <1>5
  <2> HIDE DEF r
  <2>2. PICK y \in 1 .. P - 1 : F(r * y) = 1
    BY <2>1, MachineAssumption
  <2>3. r \in Int /\ y \in Int /\ r * y \in Int
    BY <1>1, <2>1
  <2>4. PICK k \in Int : r * y = P * k + 1
    BY <2>2, <2>3, Residue
  <2>5. x * y = P * (q * y + k) + 1 /\ q * y + k \in Int
    <3>1. x * y = (P * q) * y + r * y
      BY <1>1, <1>3, <2>3
    <3>2. (P * q) * y = P * (q * y) /\ P * (q * y + k) = P * (q * y) + P * k
      BY <1>1, <2>3
    <3> QED BY <1>1, <2>3, <2>4, <3>1, <3>2
  <2>6. F(x * y) = 1
    BY <1>1, <2>5, OnlyResidue
  <2>7. FieldInverse(x) \in 1 .. P - 1
    BY <1>5, <2>6 DEF FieldInverse, r
  <2> QED BY <1>1, <2>7
<1> QED BY <1>4, <1>5

\* A hash of numbers is one.
LEMMA HashType ==
    ASSUME NEW x \in Int, NEW y \in Int, NEW z \in Int
    PROVE  Hash2(x, y) \in Nat /\ Hash3(x, y, z) \in Nat
<1>1. P \in Nat /\ P > 2 /\ 0 \in 0 .. P - 1
  BY Sizes
<1>2. F(x) \in 0 .. P - 1 /\ F(y) \in 0 .. P - 1 /\ F(z) \in 0 .. P - 1
  BY Residue
<1>3. Poseidon(F(x), F(y), 0) \in 0 .. P - 1 /\ Poseidon(F(x), F(y), F(z)) \in 0 .. P - 1
  BY <1>1, <1>2, MachineAssumption
<1> QED BY <1>1, <1>3 DEF Hash2, Hash3

\* So is every value the machine computes.
LEMMA ValueType ==
    ASSUME NEW op \in Pure, NEW a \in Nat, NEW b \in Nat, NEW imm \in Int
    PROVE  OpValue(op, a, b, imm) \in Nat
<1>1. P \in Nat /\ P > 2 /\ DOMAIN_NULLIFIER \in Int
  BY Sizes, HostAssumption
<1>2. \A x \in Int : F(x) \in Nat
  <2>1. ASSUME NEW x \in Int PROVE F(x) \in Nat
    <3>1. F(x) \in 0 .. P - 1
      BY Residue
    <3> QED BY <1>1, <3>1
  <2> QED BY <2>1
<1>3. FieldInverse(a) \in Nat /\ FieldInverse(b) \in Nat /\ BitAnd(a, b) \in Nat /\ Hash2(a, b) \in Nat /\ Hash3(a, b, imm) \in Nat
  BY InverseType, CommonBits, HashType
<1>4. F(a + b) \in Nat /\ F(a + P - F(b)) \in Nat /\ F(a * b) \in Nat /\ F(a * FieldInverse(b)) \in Nat
  BY <1>1, <1>2, <1>3
<1>6. CASE op \in {"Add", "Sub", "Mul", "Div", "Inv", "And"}
  BY <1>3, <1>4, <1>6 DEF OpValue
<1>7. CASE op \in {"Not", "Eq", "Neq", "Lt", "Gt", "Lte", "Gte"}
  BY <1>7 DEF OpValue, Flag
<1>8. CASE op \in {"Poseidon", "PrivacyCommit"}
  BY <1>3, <1>8 DEF OpValue
<1>9. CASE op = "NullifierCheck"
  BY <1>9 DEF OpValue, Flag
<1>10. CASE op = "SumConservation"
  BY <1>10 DEF OpValue, Flag
<1> QED BY <1>6, <1>7, <1>8, <1>9, <1>10 DEF Pure

\* A word of memory is a number.
LEMMA CellType ==
    ASSUME NEW mem \in Seq(Nat), NEW a \in Int, InMemory(mem, a, 1)
    PROVE  ZkCell(mem, a) \in Nat
<1>1. a \in 0 .. Len(mem) - 1 /\ a + 1 \in 0 .. Len(mem) - 1 /\ Len(mem) \in Nat /\ HALF \in Nat
  BY Sizes DEF InMemory
<1>2. mem[a + 1] \in Nat /\ mem[a + 2] \in Nat /\ (a + 1) + 1 = a + 2
  BY <1>1
<1>3. ZkCell(mem, a) = mem[a + 1] + HALF * mem[a + 2]
  BY <1>1, <1>2 DEF ZkCell, WordAt
<1> QED BY <1>1, <1>2, <1>3

\* Writing one leaves a memory.
LEMMA PutType ==
    ASSUME NEW mem \in Seq(Nat), NEW a \in Int, NEW v \in Nat
    PROVE  PutWord(mem, a, v) \in Seq(Nat)
<1>1. v % HALF \in Nat /\ v \div HALF \in Nat
  BY Sizes
<1>2. ASSUME NEW m \in Seq(Nat), NEW i \in Int, NEW d \in Nat PROVE [m EXCEPT ![i] = d] \in Seq(Nat)
  <2>1. CASE i \in DOMAIN m
    BY <2>1
  <2>2. CASE i \notin DOMAIN m
    <3>1. [m EXCEPT ![i] = d] = m
      BY <2>2
    <3> QED BY <3>1
  <2> QED BY <2>1, <2>2
<1> DEFINE first == [mem EXCEPT ![a + 1] = v % HALF]
<1>3. first \in Seq(Nat) /\ a + 1 \in Int /\ a + 2 \in Int
  BY <1>1, <1>2
<1> HIDE DEF first
<1>4. [first EXCEPT ![a + 2] = v \div HALF] \in Seq(Nat)
  BY <1>1, <1>2, <1>3
<1>5. PutWord(mem, a, v) = [first EXCEPT ![a + 2] = v \div HALF]
  BY DEF PutWord, first
<1> QED BY <1>4, <1>5

\* A run that stops on an error ends in a halting row.
LEMMA StopsSound ==
    ASSUME ZkInv, NEW error, NEW gas, Stops(error, gas)
    PROVE  ZkInv'
<1> DEFINE row == ZkRow(vm.pc, vm.pc, [op |-> "Halt", rd |-> 0, rs1 |-> 0, rs2 |-> 0, imm |-> 0], 0, 0, 0, Len(vm.stack))
<1>1. row.inst.op \notin Pure
  BY DEF ZkRow, Pure
<1> HIDE DEF row
<1>2. PICK S : vm.trace \in Seq(S)
  BY DEF ZkInv, Sound, Traced
<1>3. <<row>> \in Seq({row}) /\ <<row>> # <<>> /\ <<row>>[Len(<<row>>)] = row
  OBVIOUS
<1>4. Traced(vm.trace \o <<row>>)
  BY <1>1, <1>2, <1>3, TraceGrows
<1>5. Append(vm.trace, row) = vm.trace \o <<row>>
  BY <1>2
<1>6. vm' = [vm EXCEPT !.halted = TRUE, !.error = error, !.gas_used = gas,
                       !.registers = [vm.registers EXCEPT ![0] = 0], !.trace = Append(vm.trace, row)]
  BY DEF Stops, row
<1>7. [vm.registers EXCEPT ![0] = 0] \in [DOMAIN entry.registers -> Nat]
  BY DEF ZkInv, Sound
<1>8. Sound(vm', DOMAIN entry.registers)
  BY <1>4, <1>5, <1>6, <1>7 DEF ZkInv, Sound, VmFields
<1> QED BY <1>8 DEF ZkInv, Stops

\* The machine starts sound.
LEMMA ZkStartsSound == ZkInit => ZkInv
<1> SUFFICES ASSUME ZkInit PROVE ZkInv
  OBVIOUS
<1>1. entry.registers \in Seeds /\ entry.memory \in Seq(Nat)
  BY HostAssumption DEF ZkInit
<1>2. entry.registers \in [DOMAIN entry.registers -> Nat]
  BY <1>1, HostAssumption
<1>3. Traced(<<>>)
  <2>1. <<>> \in Seq({})
    OBVIOUS
  <2> QED BY <2>1 DEF Traced, RowComputed
<1>4. [s \in -HALF .. HALF |-> 0] \in [-HALF .. HALF -> Nat] /\ <<>> \in Seq(Nat)
  OBVIOUS
<1>5. Sound(Started(entry), DOMAIN entry.registers)
  BY <1>1, <1>2, <1>3, <1>4 DEF Sound, Started, VmFields
<1> QED BY <1>1, <1>5 DEF ZkInit, ZkInv

\* What a sound machine may become.
LEMMA Becoming ==
    ASSUME ZkInv, NEW m, Becomes(m), Sound(m, DOMAIN entry.registers)
    PROVE  ZkInv'
BY DEF ZkInv, Becomes

\* The pure instructions, whose rows hold what they computed.
LEMMA ComputeSound ==
    ASSUME ZkInv, Compute
    PROVE  ZkInv'
<1>1. Decoded /\ Op.op \in Pure
  BY DEF Compute, Runs
<1>2. Op \in ZkInstructions(DOMAIN entry.registers) /\ Src1 \in Nat /\ Src2 \in Nat
  BY <1>1, ZkFetched
<1> DEFINE v == OpValue(Op.op, Src1, Src2, Op.imm)
           row == Own(vm.pc + 1, v, Len(vm.stack))
<1>3. v \in Nat /\ Op.imm \in Int
  BY <1>1, <1>2, ValueType DEF ZkInstructions
<1>4. row.inst = Op /\ row.src1 = Src1 /\ row.src2 = Src2 /\ row.dst = v
  BY DEF Own, ZkRow
<1>5. PICK S : vm.trace \in Seq(S)
  BY DEF ZkInv, Sound, Traced
<1>6. Becomes(Yields(<<row>>, v))
  BY DEF Compute, Result
<1> HIDE DEF row
<1>7. Traced(vm.trace \o <<row>>)
  <2> DEFINE U == S \union {row}
  <2>1. vm.trace \in Seq(U) /\ row \in U /\ vm.trace \o <<row>> = Append(vm.trace, row)
    BY <1>5
  <2> HIDE DEF U
  <2>2. Append(vm.trace, row) \in Seq(U) /\ Append(vm.trace, row)[Len(Append(vm.trace, row))] = row
    BY <2>1
  <2> QED BY <1>2, <1>3, <1>4, <2>1, <2>2 DEF Traced, RowComputed
<1>8. Sound(Yields(<<row>>, v), DOMAIN entry.registers)
  BY <1>1, <1>3, <1>7, YieldsSound
<1> QED BY <1>6, <1>8, Becoming

\* An instruction that computes nothing, in its own row.
LEMMA PlainSound ==
    ASSUME ZkInv, Decoded, Op.op \notin Pure
    PROVE  /\ \A v \in Nat : Becomes(Result(v)) => ZkInv'
           /\ \A next \in Nat : Becomes(Quiet(next)) => ZkInv'
<1>1. ASSUME NEW v \in Nat, Becomes(Result(v)) PROVE ZkInv'
  BY <1>1, ResultSound, Becoming
<1>2. ASSUME NEW next \in Nat, Becomes(Quiet(next)) PROVE ZkInv'
  BY <1>2, QuietSound, Becoming
<1> QED BY <1>1, <1>2

\* Constants, jumps and assertions.
LEMMA ControlSound ==
    ASSUME ZkInv, HaltOp \/ LoadImm \/ JumpOp \/ AssertOp
    PROVE  ZkInv'
<1>1. vm.pc \in Nat /\ vm.pc + 1 \in Nat /\ Wide \in Nat /\ Wide > 0
  BY Sizes DEF ZkInv, Sound
<1>2. CASE HaltOp
  <2>1. Decoded /\ Op.op \notin Pure
    BY <1>2 DEF HaltOp, Runs, Pure
  <2>2. Sound(Quiet(vm.pc), DOMAIN entry.registers)
    BY <1>1, <2>1, QuietSound
  <2>3. Sound([Quiet(vm.pc) EXCEPT !.halted = TRUE], DOMAIN entry.registers)
    BY <2>2 DEF Sound, VmFields
  <2> QED BY <1>2, <2>3, Becoming DEF HaltOp
<1>3. CASE LoadImm
  <2>1. Decoded /\ Op.op \notin Pure
    BY <1>3 DEF LoadImm, Runs, Pure
  <2>2. Op.imm % Wide \in Nat
    BY <1>1, <2>1, ZkFetched DEF ZkInstructions
  <2> QED BY <1>3, <2>1, <2>2, PlainSound DEF LoadImm
<1>4. CASE JumpOp
  <2>1. Decoded /\ Op.op \notin Pure
    BY <1>4 DEF JumpOp, Runs, Pure
  <2>2. Aim \in Nat
    BY <1>1, <2>1, ZkFetched DEF ZkInstructions, Aim
  <2> DEFINE next == IF Op.op = "Jmp" \/ Src1 # 0 THEN Aim ELSE vm.pc + 1
  <2>3. next \in Nat
    BY <1>1, <2>2
  <2>4. Becomes(Quiet(next))
    BY <1>4 DEF JumpOp
  <2> HIDE DEF next
  <2> QED BY <2>1, <2>3, <2>4, PlainSound
<1>5. CASE AssertOp
  <2>1. CASE Runs({"Assert"}) /\ Src1 # 0 /\ Becomes(Quiet(vm.pc + 1))
    <3>1. Decoded /\ Op.op \notin Pure
      BY <2>1 DEF Runs, Pure
    <3> QED BY <1>1, <2>1, <3>1, PlainSound
  <2> QED BY <1>5, <2>1, StopsSound DEF AssertOp
<1> QED BY <1>2, <1>3, <1>4, <1>5

\* A row that is filled in with what the instruction touched.
LEMMA FilledIn ==
    ASSUME ZkInv, Decoded, Op.op \notin Pure, NEW next, NEW dst, NEW sp, NEW row, row.inst = Op
    PROVE  LET t == vm.trace \o <<Own(next, dst, sp)>> IN Traced([t EXCEPT ![Len(t)] = row])
<1> DEFINE t == vm.trace \o <<Own(next, dst, sp)>>
<1>1. t # <<>> /\ \E S : t \in Seq(S)
  BY OwnRow
<1> HIDE DEF t
<1>2. Traced([t EXCEPT ![Len(t)] = row])
  BY <1>1, TraceTouched
<1> QED BY <1>2 DEF t

\* A machine whose last row is filled in is as sound as it was.
LEMMA TouchesSound ==
    ASSUME NEW m, NEW regs, Sound(m, regs), NEW a, NEW v, NEW w, NEW row,
           row = [m.trace[Len(m.trace)] EXCEPT !.addr = a, !.val = v, !.write = w],
           Traced([m.trace EXCEPT ![Len(m.trace)] = row])
    PROVE  Sound(Touches(m, a, v, w), regs)
<1> DEFINE u == [m.trace EXCEPT ![Len(m.trace)] = row]
<1>1. Touches(m, a, v, w) = [m EXCEPT !.trace = u]
  BY DEF Touches
<1> HIDE DEF u
<1>2. Traced(u)
  BY DEF u
<1> QED BY <1>1, <1>2 DEF Sound, VmFields

\* Loads and stores.
LEMMA MemorySound ==
    ASSUME ZkInv, LoadMem \/ StoreMem
    PROVE  ZkInv'
<1>1. vm.pc \in Nat /\ vm.pc + 1 \in Nat /\ vm.memory \in Seq(Nat) /\ DOMAIN vm = VmFields
  BY DEF ZkInv, Sound
<1>2. Decoded /\ Op.op \notin Pure
  BY DEF LoadMem, StoreMem, Runs, Pure
<1>3. Src1 \in Nat /\ Src2 \in Nat /\ Op.imm \in Int /\ Src1 + Op.imm \in Int
  BY <1>2, ZkFetched DEF ZkInstructions
<1> DEFINE a == Src1 + Op.imm
<1>4. ASSUME NEW m, NEW dst, NEW v, NEW w, m.trace = vm.trace \o <<Own(vm.pc + 1, dst, Len(vm.stack))>>,
             Sound(m, DOMAIN entry.registers)
      PROVE  Sound(Touches(m, a, v, w), DOMAIN entry.registers)
  <2> DEFINE own == Own(vm.pc + 1, dst, Len(vm.stack))
             row == [own EXCEPT !.addr = a, !.val = v, !.write = w]
  <2>1. row.inst = Op
    BY DEF Own, ZkRow
  <2>2. m.trace[Len(m.trace)] = own
    BY <1>2, <1>4, OwnRow
  <2> HIDE DEF row, own, a
  <2>3. Traced([m.trace EXCEPT ![Len(m.trace)] = row])
    BY <1>2, <1>4, <2>1, FilledIn
  <2>4. row = [m.trace[Len(m.trace)] EXCEPT !.addr = a, !.val = v, !.write = w]
    BY <2>2 DEF row
  <2> QED BY <1>4, <2>3, <2>4, TouchesSound
<1>5. CASE LoadMem
  <2> DEFINE v == ZkCell(vm.memory, a)
  <2>1. Becomes(Touches(Result(v), a, v, FALSE)) /\ InMemory(vm.memory, a, 1)
    BY <1>5 DEF LoadMem
  <2>2. v \in Nat
    BY <1>1, <1>3, <2>1, CellType
  <2> HIDE DEF v
  <2>3. Sound(Result(v), DOMAIN entry.registers)
    BY <1>2, <2>2, ResultSound
  <2>4. Result(v).trace = vm.trace \o <<Own(vm.pc + 1, v, Len(vm.stack))>>
    BY <1>1 DEF Result, Yields, Keeps, VmFields
  <2>5. Sound(Touches(Result(v), a, v, FALSE), DOMAIN entry.registers)
    BY <1>4, <2>3, <2>4
  <2> QED BY <2>1, <2>5, Becoming
<1>6. CASE StoreMem
  <2> DEFINE q == Quiet(vm.pc + 1)
             t == Touches(q, a, Src2, TRUE)
             mem == PutWord(t.memory, a, Src2)
  <2>1. Becomes([t EXCEPT !.memory = mem])
    BY <1>6 DEF StoreMem
  <2>2. Sound(q, DOMAIN entry.registers)
    BY <1>1, <1>2, QuietSound
  <2>3. q.trace = vm.trace \o <<Own(vm.pc + 1, 0, Len(vm.stack))>>
    BY <1>1 DEF Quiet, Keeps, VmFields
  <2> HIDE DEF q
  <2>4. Sound(t, DOMAIN entry.registers)
    BY <1>4, <2>2, <2>3
  <2> HIDE DEF t
  <2>5. t.memory \in Seq(Nat)
    BY <2>4 DEF Sound
  <2>6. mem \in Seq(Nat)
    BY <1>3, <2>5, PutType
  <2> HIDE DEF mem
  <2>7. Sound([t EXCEPT !.memory = mem], DOMAIN entry.registers)
    BY <2>4, <2>6 DEF Sound, VmFields
  <2> QED BY <2>1, <2>7, Becoming
<1> QED BY <1>5, <1>6

\* Calls and pushes.
LEMMA GrowsSound ==
    ASSUME ZkInv, CallOp \/ PushOp
    PROVE  ZkInv'
<1>1. vm.pc \in Nat /\ vm.pc + 1 \in Nat /\ vm.stack \in Seq(Nat) /\ DOMAIN vm = VmFields /\ Wide \in Nat /\ Wide > 0
  BY Sizes DEF ZkInv, Sound
<1>2. Decoded /\ Op.op \notin Pure
  BY DEF CallOp, PushOp, Runs, Pure
<1>3. Src1 \in Nat /\ Aim \in Nat
  BY <1>1, <1>2, ZkFetched DEF ZkInstructions, Aim
<1>4. ASSUME NEW v \in Nat, NEW next \in Nat, NEW dst, Becomes(Grown(v, next, dst)) PROVE ZkInv'
  <2> DEFINE row == Own(next, dst, Len(vm.stack) + 1)
             k == Keeps(<<row>>, next)
  <2>1. Traced(vm.trace \o <<row>>)
    BY <1>2, OwnRow
  <2>2. Sound(k, DOMAIN entry.registers)
    BY <1>2, <2>1, KeepsSound
  <2>3. k.stack \in Seq(Nat)
    BY <2>2 DEF Sound
  <2> HIDE DEF k
  <2>4. Append(k.stack, v) \in Seq(Nat)
    BY <2>3
  <2>5. Sound([k EXCEPT !.stack = Append(k.stack, v)], DOMAIN entry.registers)
    BY <2>2, <2>4 DEF Sound, VmFields
  <2>6. Grown(v, next, dst) = [k EXCEPT !.stack = Append(k.stack, v)]
    BY DEF Grown, k
  <2> QED BY <1>4, <2>5, <2>6, Becoming
<1>5. CASE CallOp
  BY <1>1, <1>3, <1>4, <1>5 DEF CallOp
<1>6. CASE PushOp
  BY <1>1, <1>3, <1>4, <1>6 DEF PushOp
<1> QED BY <1>5, <1>6

\* Returns and pops.
LEMMA ShrinksSound ==
    ASSUME ZkInv, RetOp \/ PopOp
    PROVE  ZkInv'
<1>1. vm.pc \in Nat /\ vm.pc + 1 \in Nat /\ vm.stack \in Seq(Nat) /\ DOMAIN vm = VmFields
  BY DEF ZkInv, Sound
<1>2. Decoded /\ Op.op \notin Pure /\ vm.stack # <<>>
  BY DEF RetOp, PopOp, Runs, Pure
<1>3. StackTop \in Nat
  <2>1. Len(vm.stack) \in DOMAIN vm.stack
    BY <1>1, <1>2
  <2> QED BY <1>1, <2>1 DEF StackTop
<1>4. ASSUME NEW m, NEW next, NEW dst, NEW sp, m.trace = vm.trace \o <<Own(next, dst, sp)>>,
             Sound(m, DOMAIN entry.registers), Becomes(Shrunk(m))
      PROVE  ZkInv'
  <2> DEFINE own == Own(next, dst, sp)
             row == [own EXCEPT !.sp = Len(vm.stack) - 1]
             t == m.trace
             u == [t EXCEPT ![Len(t)] = row]
             s == SubSeq(m.stack, 1, Len(m.stack) - 1)
  <2>1. row.inst = Op
    BY DEF Own, ZkRow
  <2>2. t[Len(t)] = own
    BY <1>2, <1>4, OwnRow
  <2> HIDE DEF row, own
  <2>3. Traced(u)
    BY <1>2, <1>4, <2>1, FilledIn
  <2>4. m.stack \in Seq(Nat)
    BY <1>4 DEF Sound
  <2>5. s \in Seq(Nat)
    BY <2>4
  <2>6. Shrunk(m) = [m EXCEPT !.stack = s, !.trace = u]
    BY <2>2 DEF Shrunk, row
  <2> HIDE DEF s, u
  <2>7. Sound([m EXCEPT !.stack = s, !.trace = u], DOMAIN entry.registers)
    BY <1>4, <2>3, <2>5 DEF Sound, VmFields
  <2> QED BY <1>4, <2>6, <2>7, Becoming
<1>5. CASE RetOp
  <2> DEFINE m == Keeps(<<Own(StackTop, StackTop, 0)>>, StackTop)
  <2>1. Becomes(Shrunk(m))
    BY <1>5 DEF RetOp
  <2>2. Traced(vm.trace \o <<Own(StackTop, StackTop, 0)>>)
    BY <1>2, OwnRow
  <2>3. Sound(m, DOMAIN entry.registers)
    BY <1>2, <1>3, <2>2, KeepsSound
  <2>4. m.trace = vm.trace \o <<Own(StackTop, StackTop, 0)>>
    BY <1>1 DEF Keeps, VmFields
  <2> HIDE DEF m
  <2> QED BY <1>4, <2>1, <2>3, <2>4
<1>6. CASE PopOp
  <2> DEFINE m == Result(StackTop)
  <2>1. Becomes(Shrunk(m))
    BY <1>6 DEF PopOp
  <2>2. Sound(m, DOMAIN entry.registers)
    BY <1>2, <1>3, ResultSound
  <2>3. m.trace = vm.trace \o <<Own(vm.pc + 1, StackTop, Len(vm.stack))>>
    BY <1>1 DEF Result, Yields, Keeps, VmFields
  <2> HIDE DEF m
  <2> QED BY <1>4, <2>1, <2>2, <2>3
<1> QED BY <1>5, <1>6

\* Storage slots.
LEMMA StorageSound ==
    ASSUME ZkInv, StorageOp
    PROVE  ZkInv'
<1>1. vm.pc \in Nat /\ vm.pc + 1 \in Nat /\ DOMAIN vm = VmFields /\ vm.storage \in [-HALF .. HALF -> Nat] /\ HALF \in Nat /\ HALF > 0
  BY Sizes DEF ZkInv, Sound
<1>2. Decoded /\ Op.op \notin Pure /\ Op.op \in {"SRead", "SWrite"}
  BY DEF StorageOp, Runs, Pure
<1>3. Src1 \in Nat /\ Src2 \in Nat /\ Op.imm \in -HALF .. HALF
  BY <1>2, ZkFetched
<1> DEFINE slot == SlotOf(Op, Src2)
<1>4. slot \in -HALF .. HALF
  <2>1. Signed(Src2) \in -HALF .. HALF
    <3> DEFINE low == Src2 % HALF
    <3>1. low \in 0 .. HALF - 1
      BY <1>1, <1>3
    <3> HIDE DEF low
    <3>2. low \in -HALF .. HALF /\ low - HALF \in -HALF .. HALF
      BY <1>1, <3>1
    <3>3. Signed(Src2) = low \/ Signed(Src2) = low - HALF
      BY DEF Signed, low
    <3> QED BY <3>2, <3>3
  <2> QED BY <1>3, <2>1 DEF SlotOf
<1>5. \/ Becomes(Result(vm.storage[slot]))
      \/ Becomes([Quiet(vm.pc + 1) EXCEPT !.storage[slot] = Src1,
                                         !.state_writes = Append(Quiet(vm.pc + 1).state_writes, <<slot, Src1>>)])
  BY DEF StorageOp
<1> HIDE DEF slot
<1>6. CASE Becomes(Result(vm.storage[slot]))
  <2>1. vm.storage[slot] \in Nat
    BY <1>1, <1>4
  <2> QED BY <1>2, <1>6, <2>1, PlainSound
<1>7. ASSUME NEW w, Becomes([Quiet(vm.pc + 1) EXCEPT !.storage[slot] = Src1, !.state_writes = w]) PROVE ZkInv'
  <2> DEFINE q == Quiet(vm.pc + 1)
             s == [q.storage EXCEPT ![slot] = Src1]
  <2>1. Sound(q, DOMAIN entry.registers)
    BY <1>1, <1>2, QuietSound
  <2> HIDE DEF q
  <2>2. s \in [-HALF .. HALF -> Nat]
    BY <1>3, <2>1 DEF Sound
  <2>3. [q EXCEPT !.storage[slot] = Src1, !.state_writes = w] = [q EXCEPT !.storage = s, !.state_writes = w]
    OBVIOUS
  <2> HIDE DEF s
  <2>4. Sound([q EXCEPT !.storage = s, !.state_writes = w], DOMAIN entry.registers)
    BY <2>1, <2>2 DEF Sound, VmFields
  <2> QED BY <1>7, <2>3, <2>4, Becoming DEF q
<1> QED BY <1>5, <1>6, <1>7

\* Logs and system calls.
LEMMA HostSound ==
    ASSUME ZkInv, LogOp \/ SyscallOp
    PROVE  ZkInv'
<1>1. vm.pc \in Nat /\ vm.pc + 1 \in Nat /\ DOMAIN vm = VmFields
  BY DEF ZkInv, Sound
<1>2. Decoded /\ Op.op \notin Pure
  BY DEF LogOp, SyscallOp, Runs, Pure
<1>3. Src1 \in Nat /\ Later \in Nat /\ Context.sender \in Nat /\ Context.height \in Nat /\ Context.nonce \in Nat
  <2>1. Src1 \in Nat /\ Context.height \in Nat /\ Context.sender \in Nat /\ Context.nonce \in Nat /\ Wide \in Nat /\ Wide > 0
    BY <1>2, ZkFetched, HostAssumption, Sizes
  <2> QED BY <2>1 DEF Later
<1>4. ASSUME NEW m, Sound(m, DOMAIN entry.registers), NEW e, Becomes([m EXCEPT !.events = e]) PROVE ZkInv'
  <2>1. Sound([m EXCEPT !.events = e], DOMAIN entry.registers)
    BY <1>4 DEF Sound, VmFields
  <2> QED BY <1>4, <2>1, Becoming
<1>5. CASE LogOp
  <2> DEFINE q == Quiet(vm.pc + 1)
  <2>1. Becomes([q EXCEPT !.events = Append(q.events, Src1)])
    BY <1>5 DEF LogOp
  <2>2. Sound(q, DOMAIN entry.registers)
    BY <1>1, <1>2, QuietSound
  <2> HIDE DEF q
  <2> QED BY <1>4, <2>1, <2>2
<1>6. CASE SyscallOp
  <2>1. CASE Op.imm = 6
    <3> DEFINE q == Result(Later)
    <3>1. Becomes([q EXCEPT !.events = q.events \o <<INFERENCE_MARKER, Src1>>])
      BY <1>6, <2>1 DEF SyscallOp
    <3>2. Sound(q, DOMAIN entry.registers)
      BY <1>2, <1>3, ResultSound
    <3> HIDE DEF q
    <3> QED BY <1>4, <3>1, <3>2
  <2>2. CASE Op.imm # 6
    <3> DEFINE v == CASE Op.imm = 1 -> Context.sender
                      [] Op.imm = 2 -> Context.height
                      [] Op.imm = 3 -> Context.nonce
                      [] OTHER -> 0
    <3>1. Becomes(Result(v))
      BY <1>6, <2>2 DEF SyscallOp
    <3>2. v \in Nat
      BY <1>3
    <3> HIDE DEF v
    <3> QED BY <1>2, <3>1, <3>2, PlainSound
  <2> QED BY <2>1, <2>2
<1> QED BY <1>5, <1>6

\* A row followed by rows that repeat it, none of them of a pure instruction.
LEMMA RowsFollow ==
    ASSUME ZkInv, NEW row, row.inst.op \notin Pure, NEW n \in Nat, NEW more, DOMAIN more = 1 .. n, more = [i \in 1 .. n |-> more[i]],
           \A i \in 1 .. n : more[i].inst.op \notin Pure
    PROVE  Traced(vm.trace \o (<<row>> \o more))
<1>1. PICK S : vm.trace \in Seq(S)
  BY DEF ZkInv, Sound, Traced
<1> DEFINE T == {row} \union {more[i] : i \in 1 .. n}
           rows == <<row>> \o more
<1>2. <<row>> \in Seq(T) /\ Len(<<row>>) = 1 /\ <<row>>[1] = row
  OBVIOUS
<1>3. more \in Seq(T) /\ Len(more) = n
  <2>1. more \in [1 .. n -> T]
    OBVIOUS
  <2> HIDE DEF T
  <2> QED BY <2>1
<1>4. \A t \in T : t.inst.op \notin Pure
  OBVIOUS
<1> HIDE DEF T
<1>5. rows \in Seq(T) /\ Len(rows) = 1 + n
  BY <1>2, <1>3
<1> HIDE DEF rows
<1>6. rows # <<>> /\ rows[Len(rows)] \in T
  BY <1>5
<1>7. Traced(vm.trace \o rows)
  BY <1>1, <1>4, <1>5, <1>6, TraceGrows
<1> QED BY <1>7 DEF rows

\* The two checks that leave several rows.
LEMMA ChecksSound ==
    ASSUME ZkInv, VerifyMerkle \/ VerifyInference
    PROVE  ZkInv'
<1>1. Decoded /\ Op.op \in {"VerifyMerkle", "VerifyInference"}
  BY DEF VerifyMerkle, VerifyInference, Runs
<1>2. Op.op \notin Pure /\ "VerifyMerkle" \notin Pure /\ "VerifyInference" \notin Pure /\ BITS \in Nat
  BY <1>1, Sizes DEF Pure
<1>3. ASSUME Becomes(Result(0)) PROVE ZkInv'
  BY <1>1, <1>2, <1>3, PlainSound
<1>4. \A c : Flag(c) \in Nat
  BY DEF Flag
<1>5. CASE VerifyMerkle /\ PathFits
  <2> DEFINE dst == Flag(PathFold(vm.memory, Op.imm, Src2)[BITS] = Src1)
             fold == PathFold(vm.memory, Op.imm, Src2)
             key == ZkCell(vm.memory, Op.imm)
             level(i) == [ZkRow(vm.pc, IF i = BITS - 1 THEN vm.pc + 1 ELSE vm.pc,
                                [op |-> "VerifyMerkle", rd |-> 0, rs1 |-> 0, rs2 |-> 0, imm |-> Op.imm],
                                0, 0, 0, Len(vm.stack))
                          EXCEPT !.addr = Op.imm + 2 + 2 * i, !.val = Sibling(vm.memory, Op.imm, i),
                                 !.key = key, !.current = fold[i], !.round = i, !.expand = "merkle",
                                 !.sibling = Sibling(vm.memory, Op.imm, i)]
             row == [Own(vm.pc, dst, Len(vm.stack)) EXCEPT !.addr = Op.imm, !.val = key, !.key = key, !.current = fold[BITS]]
             more == [i \in 1 .. BITS |-> level(i - 1)]
  <2>1. Becomes(Yields(PathRows(dst), dst))
    BY <1>5 DEF VerifyMerkle
  <2>2. PathRows(dst) = <<row>> \o more
    BY DEF PathRows
  <2>3. row.inst = Op
    BY DEF Own, ZkRow
  <2>4. \A i : level(i).inst.op = "VerifyMerkle"
    BY DEF ZkRow
  <2>5. dst \in Nat
    BY <1>4
  <2> HIDE DEF dst, row, level
  <2>6. DOMAIN more = 1 .. BITS /\ more = [i \in 1 .. BITS |-> more[i]] /\ \A i \in 1 .. BITS : more[i].inst.op \notin Pure
    BY <1>2, <2>4
  <2> HIDE DEF more
  <2>7. Traced(vm.trace \o (<<row>> \o more))
    BY <1>2, <2>3, <2>6, RowsFollow
  <2>8. Sound(Yields(PathRows(dst), dst), DOMAIN entry.registers)
    BY <1>1, <2>2, <2>5, <2>7, YieldsSound
  <2> QED BY <2>1, <2>8, Becoming
<1>6. CASE VerifyMerkle /\ ~PathFits
  BY <1>3, <1>6 DEF VerifyMerkle
<1>7. CASE VerifyInference /\ InMemory(vm.memory, Src1, 4)
  <2> DEFINE coms == [i \in 1 .. 3 |-> ZkCell(vm.memory, Src1 + 2 * (i - 1))]
             dst == Flag(coms[3] = Hash2(coms[1], coms[2]))
             again(i) == [ZkRow(vm.pc, IF i = 7 THEN vm.pc + 1 ELSE vm.pc,
                                [Op EXCEPT !.rd = 0, !.imm = i], Src1, Src2, 0, Len(vm.stack))
                          EXCEPT !.commitments = coms, !.round = i, !.expand = "inference"]
             row == [Own(vm.pc, dst, Len(vm.stack)) EXCEPT !.commitments = coms]
             more == [i \in 1 .. 8 |-> again(i - 1)]
  <2>1. Becomes(Yields(<<row>> \o more, dst))
    BY <1>7 DEF VerifyInference
  <2>2. row.inst = Op
    BY DEF Own, ZkRow
  <2>3. \A i : again(i).inst.op = Op.op
    <3>1. Op \in ZkInstructions(DOMAIN entry.registers)
      BY <1>1, ZkFetched
    <3>2. \A i : [Op EXCEPT !.rd = 0, !.imm = i].op = Op.op
      BY <3>1 DEF ZkInstructions
    <3> QED BY <3>2 DEF ZkRow
  <2>4. dst \in Nat
    BY <1>4
  <2> HIDE DEF dst, row, again
  <2>5. DOMAIN more = 1 .. 8 /\ more = [i \in 1 .. 8 |-> more[i]] /\ \A i \in 1 .. 8 : more[i].inst.op \notin Pure
    BY <1>2, <2>3
  <2> HIDE DEF more
  <2>6. Traced(vm.trace \o (<<row>> \o more))
    BY <1>2, <2>2, <2>5, RowsFollow
  <2>7. Sound(Yields(<<row>> \o more, dst), DOMAIN entry.registers)
    BY <1>1, <2>4, <2>6, YieldsSound
  <2> QED BY <2>1, <2>7, Becoming
<1>8. CASE VerifyInference /\ ~InMemory(vm.memory, Src1, 4)
  BY <1>3, <1>8 DEF VerifyInference
<1> QED BY <1>5, <1>6, <1>7, <1>8

\* Every step of the machine leaves it sound.
LEMMA ZkStepsSound == ZkInv /\ [ZkNext]_zkVars => ZkInv'
<1> SUFFICES ASSUME ZkInv, [ZkNext]_zkVars PROVE ZkInv'
  OBVIOUS
<1>1. CASE BadPc \/ BadOpcode \/ OutOfGas \/ BadAddress \/ StackOverflow \/ StackUnderflow
  BY <1>1, StopsSound DEF BadPc, BadOpcode, OutOfGas, BadAddress, StackOverflow, StackUnderflow
<1>2. CASE UNCHANGED zkVars
  BY <1>2 DEF zkVars, ZkInv
<1>3. CASE HaltOp \/ LoadImm \/ JumpOp \/ AssertOp
  BY <1>3, ControlSound
<1>4. CASE CallOp \/ PushOp \/ RetOp \/ PopOp
  BY <1>4, GrowsSound, ShrinksSound
<1>5. CASE LoadMem \/ StoreMem \/ StorageOp
  BY <1>5, MemorySound, StorageSound
<1>6. CASE LogOp \/ SyscallOp \/ VerifyMerkle \/ VerifyInference
  BY <1>6, HostSound, ChecksSound
<1>7. CASE Compute
  BY <1>7, ComputeSound
<1> QED BY <1>1, <1>2, <1>3, <1>4, <1>5, <1>6, <1>7 DEF ZkNext

\* The row a sound machine has just left forces its result.
LEMMA LastRowForced == ZkInv => RowsDetermineResults
<1> SUFFICES ASSUME ZkInv PROVE RowsDetermineResults
  OBVIOUS
<1>0. Len(vm.trace) > 0 => vm.trace # <<>>
  <2>1. PICK S : vm.trace \in Seq(S)
    BY DEF ZkInv, Sound, Traced
  <2> QED BY <2>1
<1> SUFFICES ASSUME vm.trace # <<>>, vm.trace[Len(vm.trace)].inst.op \in Pure, ~Uncarried(vm.trace[Len(vm.trace)]),
                    NEW r \in 0 .. P - 1, NEW h \in Hinted(Columns(vm.trace, Len(vm.trace))),
                    RowRules([Columns(vm.trace, Len(vm.trace)) EXCEPT !.rd = r, !.h = h])
             PROVE  r = Columns(vm.trace, Len(vm.trace)).rd
  BY <1>0 DEF RowsDetermineResults
<1> DEFINE s == vm.trace[Len(vm.trace)]
           c == Columns(vm.trace, Len(vm.trace))
           d == [c EXCEPT !.rd = r, !.h = h]
           a == s.src1
           b == s.src2
           imm == s.inst.imm
<1>1. a \in Nat /\ b \in Nat /\ imm \in Int /\ s.dst = OpValue(s.inst.op, a, b, imm)
  BY DEF ZkInv, Sound, Traced, RowComputed
<1>2. a \in 0 .. P - 1 /\ b \in 0 .. P - 1
  BY <1>1, Sizes DEF Uncarried
<1>3. c.a = F(a) /\ c.b = F(b) /\ c.imm = F(imm) /\ c.rd = F(s.dst) /\ c.op = s.inst.op /\ c.h = HintsOf(s)
  BY DEF Columns
<1>4. d.a = c.a /\ d.b = c.b /\ d.imm = c.imm /\ d.op = c.op /\ d.rd = r /\ d.h = h
  BY DEF Columns
<1>5. HintsFit(d)
  <2>1. DOMAIN c.h = {"inv", "zero", "bits1", "bits2", "hi1", "hi2", "syscall"}
    BY <1>3 DEF HintsOf
  <2> HIDE DEF c, d
  <2>2. CASE c.op \in Compares \union {"And"}
    <3> DEFINE spelled(v) == {u \in (0 .. Wide - 1) \X (0 .. P - 1) : F(u[1]) = v /\ CanonicalBits(u[1], u[2])}
    <3>1. PICK w \in spelled(c.a) \X spelled(c.b) :
            h = [c.h EXCEPT !.bits1 = w[1][1], !.hi1 = w[1][2], !.bits2 = w[2][1], !.hi2 = w[2][2]]
      BY <2>2 DEF Hinted, c
    <3>2. h.bits1 = w[1][1] /\ h.hi1 = w[1][2] /\ h.bits2 = w[2][1] /\ h.hi2 = w[2][2]
      BY <2>1, <3>1
    <3>3. /\ w[1][1] \in 0 .. Wide - 1 /\ w[1][2] \in Int /\ F(w[1][1]) = c.a /\ CanonicalBits(w[1][1], w[1][2])
          /\ w[2][1] \in 0 .. Wide - 1 /\ w[2][2] \in Int /\ F(w[2][1]) = c.b /\ CanonicalBits(w[2][1], w[2][2])
      BY Sizes
    <3> QED BY <1>4, <2>2, <3>2, <3>3 DEF HintsFit
  <2>3. CASE c.op \notin Compares \union {"And"}
    <3>1. PICK w \in (0 .. P - 1) \X (0 .. 1) : h = [c.h EXCEPT !.inv = w[1], !.zero = w[2]]
      BY <2>3 DEF Hinted, c
    <3>2. h.inv = w[1] /\ h.zero = w[2] /\ w[1] \in Int /\ w[2] \in 0 .. 1
      BY <2>1, <3>1, Sizes
    <3> QED BY <1>4, <2>3, <3>2 DEF HintsFit
  <2> QED BY <2>2, <2>3
<1>6. Fits(d, a, b, imm)
  BY <1>2, <1>3, <1>4, <1>5, OwnResidue DEF Fits
<1>7. d.op \in Pure /\ d.rd \in 0 .. P - 1
  BY <1>3, <1>4
<1> HIDE DEF c, d, s, a, b, imm
<1>8. d.rd = F(OpValue(d.op, a, b, imm))
  BY <1>1, <1>2, <1>6, <1>7, RowForces
<1>9. d.rd = F(s.dst)
  BY <1>1, <1>3, <1>4, <1>8
<1> QED BY <1>3, <1>4, <1>9 DEF c

\* The result of a computing instruction is forced: whatever hints a prover puts
\* on its row, the constraints of plonky3_air.rs accept only what the machine of
\* zk-vm computed, for every field, word size, program and first state.
THEOREM HintsForceResults == ZkSpec => []RowsDetermineResults
<1>1. ZkInit => ZkInv
  BY ZkStartsSound
<1>2. ZkInv /\ [ZkNext]_zkVars => ZkInv'
  BY ZkStepsSound
<1>3. ZkInv => RowsDetermineResults
  BY LastRowForced
<1> QED BY <1>1, <1>2, <1>3, PTL DEF ZkSpec
=============================================================================

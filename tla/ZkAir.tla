-------------------------------- MODULE ZkAir --------------------------------
(***************************************************************************)
(* How a finished run of the machine is proved (zk-proof: plonky3_prover   *)
(* lays the run out as tables, plonky3_air states the constraints on       *)
(* them).  A constraint is an equation in the field, read here row by row; *)
(* a LogUp argument is the equality of the two multisets it compares.      *)
(* Clocks, counters and addresses stay far below the modulus in the code   *)
(* and are integers here; values are field elements.  A column the         *)
(* constraints compute outright is the operator that computes it; a column *)
(* they only test, a hint, is a field of the row.                          *)
(***************************************************************************)
EXTENDS ZkVm, FiniteSetsExt
Seqs == INSTANCE SequencesExt

CONSTANTS STACK_BASE, STORAGE_BASE   \* where the memory table keeps stack and storage

(***************************************************************************)
(* The tables a run is laid out in.                                        *)
(***************************************************************************)
Access(clk, sub, idx, val, write) ==
    [clk |-> clk, sub |-> sub, idx |-> idx, val |-> val, write |-> write, init |-> FALSE]

\* Grouped by index, in the order of time; the first touch of an index is
\* marked when it reads something nobody wrote.
Table(accesses) ==
    LET indices == {a.idx : a \in Seqs!ToSet(accesses)}
        sorted == Seqs!FlattenSeq([k \in 1 .. Cardinality(indices) |->
                    LET idx == CHOOSE x \in indices : Cardinality({y \in indices : y < x}) = k - 1
                        AtIdx(a) == a.idx = idx
                    IN SelectSeq(accesses, AtIdx)])
        First(k) == k = 1 \/ sorted[k - 1].idx # sorted[k].idx
    IN [k \in DOMAIN sorted |->
          [sorted[k] EXCEPT !.init = First(k) /\ ~sorted[k].write /\ sorted[k].val # 0]]

RegisterEvents(trace) ==
    Table(Seqs!FlattenSeq([i \in DOMAIN trace |->
        LET s == trace[i]
        IN IF s.inst.op = "Halt" \/ s.expand # "no" THEN <<>>
           ELSE <<Access(i - 1, 1, s.inst.rs1, s.src1, FALSE), Access(i - 1, 2, s.inst.rs2, s.src2, FALSE),
                  Access(i - 1, 3, s.inst.rd, IF s.inst.rd = 0 THEN 0 ELSE s.dst, TRUE)>>]))

\* A row touches memory, the stack or the storage, or none of them.
MemoryEvents(trace) ==
    Table(Seqs!FlattenSeq([i \in DOMAIN trace |->
        LET s == trace[i]
            At(addr, val, write) == <<Access(i - 1, 0, addr, val, write)>>
            slot == STORAGE_BASE + SlotOf(s.inst, s.src2)
        IN (IF s.addr >= 0 THEN At(s.addr, s.val, s.write) ELSE <<>>) \o
           CASE s.inst.op = "Push"          -> At(STACK_BASE + s.sp - 1, s.src1, TRUE)
             [] s.inst.op = "Call"          -> At(STACK_BASE + s.sp - 1, s.pc + 1, TRUE)
             [] s.inst.op \in {"Pop", "Ret"} -> At(STACK_BASE + s.sp, s.dst, FALSE)
             [] s.inst.op = "SRead"         -> At(slot, s.dst, FALSE)
             [] s.inst.op = "SWrite"        -> At(slot, s.src1, TRUE)
             [] OTHER                       -> <<>>]))

\* What the table says of the state before the run, folded in its order.
InitialReads(table) ==
    LET Initial(a) == a.init IN [k \in DOMAIN SelectSeq(table, Initial) |->
        <<SelectSeq(table, Initial)[k].idx, F(SelectSeq(table, Initial)[k].val)>>]

ProgramMultiplicity(trace) ==
    [pc \in 0 .. Len(code) - 1 |->
        Cardinality({i \in DOMAIN trace : trace[i].expand = "no" /\ trace[i].pc = pc})]

(* The hints.  Differences of words are taken with wrapping_sub by Eq, Neq, *)
(* SumConservation and the Merkle root, and in the field by the others.    *)
WrappingDiff(a, b) == (a - b) % Wide
FieldDiff(a, b) == F(a - b)
DiffInverse(s) ==
    CASE s.inst.op \in {"Eq", "Neq", "SumConservation"} -> FieldInverse(WrappingDiff(s.src1, s.src2))
      [] s.inst.op = "NullifierCheck" -> FieldInverse(FieldDiff(Hash2(s.src2, DOMAIN_NULLIFIER), s.src1))
      [] s.inst.op = "VerifyInference" ->
           FieldInverse(FieldDiff(IF s.expand = "inference" THEN 0
                                  ELSE Hash2(s.commitments[1], s.commitments[2]), s.commitments[3]))
      [] s.inst.op = "VerifyMerkle" -> IF s.key = -1 THEN 0 ELSE FieldInverse(WrappingDiff(s.current, s.src1))
      [] OTHER -> 0
HighInverse(w) == FieldInverse(FieldDiff(w \div HALF, HALF - 1))
HintsOf(s) ==
    [inv |-> CASE s.inst.op = "Div" -> FieldInverse(s.src2)
               [] s.inst.op \in {"Not", "Assert", "Jnz"} -> FieldInverse(s.src1)
               [] OTHER -> DiffInverse(s),
     zero |-> CASE s.inst.op = "Div" -> Flag(s.src2 = 0)
                [] s.inst.op = "Inv" -> Flag(s.src1 = 0)
                [] OTHER -> 0,
     bits1 |-> s.src1, bits2 |-> s.src2, hi1 |-> HighInverse(s.src1), hi2 |-> HighInverse(s.src2),
     syscall |-> IF s.inst.op = "Syscall" /\ s.inst.imm \in {1, 2, 3, 6} THEN s.inst.imm ELSE 0]

\* The running columns: gas before a row, events up to it, writes before it.
Running(added) ==
    LET Sum[i \in 0 .. Len(added)] == IF i = 0 THEN 0 ELSE Sum[i - 1] + added[i] IN Sum
GasColumn(trace) ==
    Running([i \in 1 .. Len(trace) |-> IF trace[i].expand = "no" THEN GasCost(trace[i].inst.op) ELSE 0])
EventColumn(trace) ==
    LET sum == Running([i \in 1 .. Len(trace) |->
                  CASE trace[i].inst.op = "Log" -> trace[i].src1
                    [] trace[i].inst.op = "Syscall" /\ trace[i].inst.imm = 6 -> INFERENCE_MARKER + trace[i].src1
                    [] OTHER -> 0])
    IN [i \in DOMAIN sum |-> F(sum[i])]
\* A write hashes what its own row holds while the rows are filled: the digest
\* of a write just before it, or nothing.
WriteDigest(trace) ==
    LET Digest[i \in 0 .. Len(trace)] ==
            IF i > 0 /\ trace[i].inst.op = "SWrite"
            THEN <<F(SlotOf(trace[i].inst, trace[i].src2) % Wide), F(trace[i].src1), Digest[i - 1]>>
            ELSE <<>>
    IN Digest
\* The carry to the rows behind comes when all rows are filled.
WritesColumn(trace) ==
    LET Column[i \in 0 .. Len(trace)] ==
            IF i = 0 \/ trace[i].inst.op = "SWrite" THEN WriteDigest(trace)[i] ELSE Column[i - 1]
    IN Column

\* Mutant: the depth the row leaves behind.
StackAfter(s) == s.sp

\* The machine records the depth after the instruction, the table wants the one before.
StackBefore(s) ==
    CASE s.inst.op \in {"Push", "Call"} -> s.sp - 1
      [] s.inst.op \in {"Pop", "Ret"}   -> s.sp + 1
      [] OTHER                          -> s.sp

PathKey(s) == IF s.key = -1 THEN 0 ELSE s.key

\* The row before the path's levels carries the value the last of them reaches.
PathColumns(trace, i) ==
    LET s == trace[i]
    IN [key |-> F(PathKey(s)), rem |-> IF s.expand = "merkle" THEN F(PathKey(s) \div Pow2(s.round)) ELSE 0,
        bit |-> IF s.key = -1 THEN 0 ELSE BitOf(s.key, s.round), current |-> F(s.current), sibling |-> F(s.sibling),
        round |-> s.round,
        final |-> IF s.expand = "merkle" THEN F(trace[i - 1 - s.round].current) ELSE Flag(s.key # -1)]
Commitments(s) == [k \in 1 .. 3 |-> F(s.commitments[k])]

\* Row i of the processor's table, and the padding behind the last one.
Columns(trace, i) ==
    LET s == trace[i]
    IN [clk |-> i - 1, pc |-> s.pc, next_pc |-> s.next_pc, op |-> s.inst.op, inst |-> s.inst,
        imm |-> F(s.inst.imm), a |-> F(s.src1), b |-> F(s.src2), rd |-> F(s.dst), sp |-> StackBefore(s),
        active |-> 1, expand |-> s.expand, path |-> PathColumns(trace, i), coms |-> Commitments(s),
        h |-> HintsOf(s)]
Padding(trace) ==
    LET s == trace[Len(trace)]
        idle == ZkRow(s.next_pc, s.next_pc, [op |-> "Halt", rd |-> 0, rs1 |-> 0, rs2 |-> 0, imm |-> 0],
                      0, 0, 0, s.sp)
    IN [Columns(Append(trace, idle), Len(trace) + 1) EXCEPT !.active = 0]
Rows(trace) == [i \in 1 .. Len(trace) + 1 |-> IF i <= Len(trace) THEN Columns(trace, i) ELSE Padding(trace)]

(***************************************************************************)
(* The constraints on one row.                                             *)
(***************************************************************************)
Zero(x) == F(x) = 0
Boolean(x) == F(x) \in {0, 1}
\* The inverse witness: d * inv is one when d is not zero, and zero otherwise.
TestsZero(d, inv) == Boolean(d * inv) /\ Zero(d * (1 - F(d * inv)))

ArithmeticRow(c) ==
    /\ c.op = "Add" => Zero(c.rd - c.a - c.b)
    /\ c.op = "Sub" => Zero(c.rd - c.a + c.b)
    /\ c.op = "Mul" => Zero(c.rd - c.a * c.b)
DivisionRow(c) ==
    c.op = "Div" => /\ Boolean(c.h.zero) /\ Zero(c.b * c.h.zero)
                    /\ Zero(c.b * c.h.inv + c.h.zero - 1)
                    /\ Zero(c.rd * c.b - c.a * (1 - c.h.zero)) /\ Zero(c.h.zero * c.rd)
InversionRow(c) ==
    c.op = "Inv" => /\ Boolean(c.h.zero) /\ Zero(c.a * c.h.zero)
                    /\ Zero(c.a * c.rd + c.h.zero - 1) /\ Zero(c.h.zero * c.rd)
\* Neq answers the test itself, the others its complement.
EqualityRow(c) ==
    LET nonzero == F((c.a - c.b) * c.h.inv)
    IN c.op \in {"Eq", "Neq", "SumConservation"} =>
         /\ TestsZero(c.a - c.b, c.h.inv)
         /\ c.rd = IF c.op = "Neq" THEN nonzero ELSE F(1 - nonzero)
NotRow(c) == c.op = "Not" => TestsZero(c.a, c.h.inv) /\ Zero(c.rd - 1 + c.a * c.h.inv)
LoadImmediateRow(c) == c.op = "Load" /\ c.inst.rs1 = 0 => c.rd = c.imm
JumpRow(c) ==
    /\ c.op \in {"Jmp", "Call"} => c.next_pc = c.pc + c.inst.imm
    /\ c.op = "Jnz" => /\ TestsZero(c.a, c.h.inv)
                       /\ c.next_pc = c.pc + IF F(c.a * c.h.inv) = 1 THEN c.inst.imm ELSE 1
    /\ c.op \in {"Push", "Pop"} => c.next_pc = c.pc + 1
AssertRow(c) == c.op = "Assert" => TestsZero(c.a, c.h.inv) /\ F(c.a * c.h.inv) = 1

Compares == {"Lt", "Gt", "Lte", "Gte"}

\* Mutant: any bits that spell the value do.
AnyBits(bits, hi) == TRUE

(* Comparisons and And read the bits of their operands.  The bits have to  *)
(* spell the value, and to spell it below the modulus: a full high half    *)
(* leaves nothing for the low one.                                         *)
CanonicalBits(bits, hi) ==
    LET d == bits \div HALF - (HALF - 1)
    IN TestsZero(d, hi) /\ Zero((1 - F(d * hi)) * (bits % HALF))
BitsRow(c) ==
    c.op \in Compares \union {"And"} =>
        /\ F(c.h.bits1) = c.a /\ F(c.h.bits2) = c.b
        /\ CanonicalBits(c.h.bits1, c.h.hi1) /\ CanonicalBits(c.h.bits2, c.h.hi2)
        /\ c.op = "And" => c.rd = F(BitAnd(c.h.bits1, c.h.bits2))

\* Equal above bit i, and the sum over the bits where the first is smaller.
EqualFrom(x, y) ==
    LET Eq[i \in 0 .. BITS] ==     \* Eq[BITS - i]: equal in the i highest bits
            IF i = 0 THEN 1
            ELSE LET p == BitOf(x, BITS - i)
                     q == BitOf(y, BITS - i)
                 IN Eq[i - 1] * (1 - p - q + 2 * p * q)
    IN Eq
LessRaw(x, y) ==
    LET Sum[i \in 0 .. BITS] ==
            IF i = 0 THEN 0
            ELSE Sum[i - 1] + EqualFrom(x, y)[i - 1] * (1 - BitOf(x, BITS - i)) * BitOf(y, BITS - i)
    IN Sum[BITS]
CompareRow(c) ==
    LET less == LessRaw(c.h.bits1, c.h.bits2)
        same == EqualFrom(c.h.bits1, c.h.bits2)[BITS]
    IN /\ c.op = "Lt" => c.rd = F(less)
       /\ c.op = "Gt" => c.rd = F(1 - same - less)
       /\ c.op = "Lte" => c.rd = F(same + less)
       /\ c.op = "Gte" => c.rd = F(1 - less)

\* The four known numbers are told apart by flags; any other answers zero.
SyscallRow(c) ==
    /\ c.h.syscall # 0 => c.op = "Syscall" /\ c.h.syscall = c.inst.imm
    /\ c.op = "Syscall" =>
         c.rd = F(CASE c.h.syscall = 1 -> Context.sender
                    [] c.h.syscall = 2 -> Context.height
                    [] c.h.syscall = 3 -> Context.nonce
                    [] c.h.syscall = 6 -> Context.height + c.a
                    [] OTHER -> 0)

HashRow(c) ==
    /\ c.op = "Poseidon" => c.rd = Hash2(c.a, c.b)
    /\ c.op = "PrivacyCommit" => c.rd = Hash3(c.a, c.b, c.imm)
    /\ c.op = "NullifierCheck" =>
         LET d == Hash2(c.b, DOMAIN_NULLIFIER) - c.a
         IN TestsZero(d, c.h.inv) /\ Zero(c.rd - 1 + d * c.h.inv)
InferenceRow(c) ==
    LET d == (IF c.expand = "no" THEN Hash2(c.coms[1], c.coms[2]) ELSE 0) - c.coms[3]
    IN /\ c.op = "VerifyInference" => TestsZero(d, c.h.inv)
       /\ c.op = "VerifyInference" /\ c.expand = "no" => Zero(c.rd - 1 + d * c.h.inv) /\ c.imm \in {0, 1}
       /\ c.expand = "inference" => c.op = "VerifyInference"
RootRow(c) ==
    c.op = "VerifyMerkle" /\ c.expand = "no" =>
        LET d == c.path.current - c.a IN TestsZero(d, c.h.inv) /\ Zero(c.rd - 1 + d * c.h.inv)

RowRules(c) ==
    /\ ArithmeticRow(c) /\ DivisionRow(c) /\ InversionRow(c) /\ EqualityRow(c) /\ NotRow(c)
    /\ LoadImmediateRow(c) /\ JumpRow(c) /\ AssertRow(c) /\ BitsRow(c) /\ CompareRow(c)
    /\ SyscallRow(c) /\ HashRow(c) /\ InferenceRow(c) /\ RootRow(c)

(***************************************************************************)
(* The constraints on a row and the next.                                  *)
(***************************************************************************)
ChainStep(c, n) == n.clk = c.clk + 1 /\ n.pc = c.next_pc
HaltStep(c, n) ==
    /\ c.op = "Halt" => n.op = "Halt" /\ n.pc = c.pc /\ n.active = 0
    /\ c.active = 0 => c.op = "Halt" /\ n.active = 0
    /\ n.active = 0 => c.op = "Halt"
StackStep(c, n) ==
    n.sp = c.sp + CASE c.op \in {"Push", "Call"} -> 1
                    [] c.op \in {"Pop", "Ret"}   -> -1
                    [] OTHER                     -> 0

\* The path: the key is shifted out bit by bit, each level hashes the value
\* below with the sibling on the side the bit names, and the last level has
\* to reach what the first row compares with the root.
LevelOutput(c) == IF c.path.bit = 0 THEN MerkleRound(c.path.current, c.path.sibling) ELSE MerkleRound(c.path.sibling, c.path.current)
Opens(c) == c.op = "VerifyMerkle" /\ c.expand = "no"
KeyStep(c, n) ==
    LET inside == c.expand = "merkle"
        goes_on == n.expand = "merkle"
    IN /\ Opens(c) /\ goes_on => n.path.rem = n.path.key /\ n.path.key = c.path.key /\ n.path.round = 0
       /\ inside /\ goes_on => /\ Zero(c.path.rem - 2 * n.path.rem - c.path.bit) /\ n.path.key = c.path.key
                               /\ n.path.round = c.path.round + 1
       /\ inside /\ ~goes_on => c.path.rem = c.path.bit
ValueStep(c, n) ==
    LET inside == c.expand = "merkle"
        goes_on == n.expand = "merkle"
    IN /\ Opens(c) /\ goes_on => n.path.current = c.b /\ n.path.final = c.path.current
       /\ inside /\ goes_on => n.path.current = LevelOutput(c) /\ n.path.final = c.path.final
       /\ inside /\ ~goes_on => c.path.final = LevelOutput(c)
InferenceStep(c, n) == c.expand = "inference" /\ n.expand = "inference" => c.coms = n.coms

\* The prices the constraints charge, which have to be those of the machine.
AirGas(c) ==
    CASE c.op = "Halt" -> 0
      [] c.op \in {"Load", "Store"} -> 3
      [] c.op = "SRead" -> 8
      [] c.op = "SWrite" -> 12
      [] c.op \in {"VerifyMerkle", "VerifyInference"} -> IF c.expand = "no" THEN 10 ELSE 0
      [] c.op \in {"Poseidon", "PrivacyCommit", "NullifierCheck", "SumConservation", "Div"} -> 10
      [] c.op \in {"Call", "Ret", "Push", "Pop"} -> 2
      [] c.op = "Syscall" -> 5
      [] OTHER -> 1
EventTerm(c) ==
    CASE c.op = "Log" -> c.a
      [] c.h.syscall = 6 -> INFERENCE_MARKER + c.a
      [] OTHER -> 0

(***************************************************************************)
(* The arguments between the tables.                                       *)
(***************************************************************************)
Balanced(demand, supply) ==
    \A t \in Seqs!ToSet(demand) \union Seqs!ToSet(supply) :
        Cardinality({i \in DOMAIN demand : demand[i] = t}) = Cardinality({i \in DOMAIN supply : supply[i] = t})
Supplied(table) == [k \in DOMAIN table |-> <<4 * table[k].clk + table[k].sub, table[k].idx,
                                            F(table[k].val), table[k].write>>]

RegisterDemand(rows) ==
    Seqs!FlattenSeq([i \in DOMAIN rows |->
        LET c == rows[i]
        IN IF c.op = "Halt" \/ c.expand # "no" THEN <<>>
           ELSE <<<<4 * c.clk + 1, c.inst.rs1, c.a, FALSE>>, <<4 * c.clk + 2, c.inst.rs2, c.b, FALSE>>,
                  <<4 * c.clk + 3, c.inst.rd, IF c.inst.rd = 0 THEN 0 ELSE c.rd, TRUE>>>>])

MemoryDemand(rows) ==
    Seqs!FlattenSeq([i \in DOMAIN rows |->
        LET c == rows[i]
            At(addr, val, write) == <<<<4 * c.clk, addr, F(val), write>>>>
        IN CASE c.op = "Load" /\ c.inst.rs1 # 0  -> At(c.a + c.inst.imm, c.rd, FALSE)
             [] c.op = "Store" /\ c.inst.rs1 # 0 -> At(c.a + c.inst.imm, c.b, TRUE)
             [] c.op = "Push"   -> At(STACK_BASE + c.sp, c.a, TRUE)
             [] c.op = "Call"   -> At(STACK_BASE + c.sp, c.pc + 1, TRUE)
             [] c.op = "Pop"    -> At(STACK_BASE + c.sp - 1, c.rd, FALSE)
             [] c.op = "Ret"    -> At(STACK_BASE + c.sp - 1, c.next_pc, FALSE)
             [] c.op = "SRead"  -> At(STORAGE_BASE + c.inst.imm, c.rd, FALSE)
             [] c.op = "SWrite" -> At(STORAGE_BASE + c.inst.imm, c.a, TRUE)
             [] c.op = "VerifyMerkle" /\ c.expand = "no" -> At(c.inst.imm, c.path.key, FALSE)
             [] c.expand = "merkle" -> At(c.inst.imm + 2 + 2 * c.path.round, c.path.sibling, FALSE)
             [] OTHER -> <<>>])

\* The height of the tables bounds the slots the committed program can lend.
NumRows(n) == LET fits == {k \in 4 .. 12 : 2 ^ k >= 3 * n + 1} IN 2 ^ Min(fits)   \* runs here are shorter than 2^12 / 3
ProgramBus(trace, rows) ==
    \A pc \in {rows[i].pc : i \in 1 .. Len(trace)} :
        /\ pc < Len(code) /\ pc < NumRows(Len(trace)) - 1
        /\ LET fetched == {i \in 1 .. Len(trace) : rows[i].pc = pc /\ rows[i].expand = "no"}
           IN /\ \A i \in fetched : rows[i].inst = code[pc + 1]
              /\ Cardinality(fetched) = ProgramMultiplicity(trace)[pc]

\* A read returns what the table holds for its index: the last value, zero at
\* first, or a value of the committed image, which only a first read can be.
TableRules(t) ==
    \A k \in DOMAIN t :
        LET same == k > 1 /\ t[k - 1].idx = t[k].idx
        IN /\ t[k].init => ~t[k].write
           /\ same /\ ~t[k].write => F(t[k].val) = F(t[k - 1].val)
           /\ ~same /\ ~t[k].write /\ ~t[k].init => Zero(t[k].val)

(***************************************************************************)
(* What a verifier of a run checks, given what the run is said to be: the  *)
(* receipt, and the state the host left at the places the run reads first. *)
(***************************************************************************)
Claimed(trace) ==
    [registers |-> [k \in DOMAIN InitialReads(RegisterEvents(trace)) |->
                      LET idx == InitialReads(RegisterEvents(trace))[k][1]
                      IN <<idx, F(entry.registers[idx])>>],
     memory |-> [k \in DOMAIN InitialReads(MemoryEvents(trace)) |->
                   LET addr == InitialReads(MemoryEvents(trace))[k][1]
                   IN <<addr, IF InMemory(entry.memory, addr, 1) THEN F(ZkCell(entry.memory, addr)) ELSE 0>>],
     gas_used |-> RunReceipt.gas_used, trace_len |-> RunReceipt.trace_len, writes |-> RunReceipt.writes,
     events |-> LET Sum[i \in 0 .. Len(vm.events)] == IF i = 0 THEN 0 ELSE F(Sum[i - 1] + vm.events[i])
                IN Sum[Len(vm.events)]]

Accumulators(trace, rows, pub) ==
    LET last == Len(trace)
        gas == GasColumn(trace)
        events == EventColumn(trace)
        writes == WritesColumn(trace)
    IN /\ \A i \in 1 .. last :
            /\ gas[i] = gas[i - 1] + AirGas(rows[i])
            /\ events[i] = F(events[i - 1] + EventTerm(rows[i]))
            /\ writes[i] = IF rows[i].op = "SWrite" THEN <<rows[i].imm, rows[i].a, writes[i - 1]>>
                                                    ELSE writes[i - 1]
       /\ gas[last] = pub.gas_used /\ events[last] = pub.events
       /\ writes[last] = pub.writes /\ last = pub.trace_len

Provable ==
    LET trace == vm.trace
        rows == Rows(trace)
        regs == RegisterEvents(trace)
        mem == MemoryEvents(trace)
        pub == Claimed(trace)
    IN /\ \A i \in DOMAIN rows : RowRules(rows[i])
       /\ \A i \in DOMAIN trace :
            LET c == rows[i]
                n == rows[i + 1]
            IN ChainStep(c, n) /\ HaltStep(c, n) /\ StackStep(c, n) /\ KeyStep(c, n) /\ ValueStep(c, n) /\ InferenceStep(c, n)
       /\ rows[1].clk = 0 /\ rows[1].pc = 0 /\ rows[1].sp = 0 /\ rows[1].active = 1
       /\ Balanced(RegisterDemand(rows), Supplied(regs)) /\ Balanced(MemoryDemand(rows), Supplied(mem))
       /\ ProgramBus(trace, rows) /\ TableRules(regs) /\ TableRules(mem)
       /\ Accumulators(trace, rows, pub)
       /\ InitialReads(regs) = pub.registers /\ InitialReads(mem) = pub.memory

(* Runs the tables do not carry, instruction by instruction: differences   *)
(* that wrap, slots not written in the instruction, words past the modulus,*)
(* destinations of instructions that write none, paths outside memory,     *)
(* unknown proof types and stores through r0; and words that overlap, and  *)
(* writes with another instruction between them.                           *)
Wraps(s) ==
    \/ s.inst.op \in {"Eq", "Neq", "SumConservation"} /\ s.src1 < s.src2
    \/ s.inst.op = "VerifyMerkle" /\ s.expand = "no" /\ s.current < s.src1
Silent == {"Call", "Ret", "Push", "Store", "Jmp", "Jnz", "Assert", "Log", "SWrite"}
Uncarried(s) ==
    \/ s.inst.op \in {"SRead", "SWrite"} /\ s.inst.imm < 0
    \/ s.inst.op = "Load" /\ s.inst.rs1 = 0 /\ s.inst.imm < 0
    \/ s.src1 >= P \/ s.src2 >= P \/ s.dst >= P \/ s.commitments[3] >= P
    \/ s.inst.op \in Silent /\ s.inst.rd # 0
    \/ s.inst.op = "VerifyMerkle" /\ s.key = -1
    \/ s.inst.op = "VerifyInference" /\ s.expand = "no" /\ s.inst.imm \notin {0, 1}
    \/ s.inst.op = "Store" /\ s.inst.rs1 = 0
Overlap(trace) ==
    \E i, j \in DOMAIN trace :
        trace[i].addr >= 0 /\ trace[i].addr + 1 = trace[j].addr /\ (trace[i].write \/ trace[j].write)
Detached(trace) ==
    \E i, j \in DOMAIN trace :
        i + 1 < j /\ trace[i].inst.op = "SWrite" /\ trace[j].inst.op = "SWrite" /\ trace[j - 1].inst.op # "SWrite"
Carried ==
    /\ ~Overlap(vm.trace) /\ ~Detached(vm.trace)
    /\ \A i \in DOMAIN vm.trace : ~Wraps(vm.trace[i]) /\ ~Uncarried(vm.trace[i])

(* Completeness of the proof system: a run that halts well, and that uses  *)
(* nothing the tables do not carry, satisfies every constraint with the    *)
(* tables and hints the prover builds and the values its receipt states.   *)
ZkRunsAreProvable == vm.halted /\ vm.error = "none" /\ Carried => Provable

(* The result of a computing instruction is forced: whatever hints a row   *)
(* carries, the constraints accept only the value the machine computed.    *)
Hinted(c) ==
    LET spelled(v) == {s \in (0 .. Wide - 1) \X (0 .. P - 1) : F(s[1]) = v /\ CanonicalBits(s[1], s[2])}
    IN IF c.op \in Compares \union {"And"}
       THEN {[c.h EXCEPT !.bits1 = w[1][1], !.hi1 = w[1][2], !.bits2 = w[2][1], !.hi2 = w[2][2]] :
               w \in spelled(c.a) \X spelled(c.b)}
       ELSE {[c.h EXCEPT !.inv = w[1], !.zero = w[2]] : w \in (0 .. P - 1) \X (0 .. 1)}
RowsDetermineResults ==
    LET n == Len(vm.trace)
    IN n > 0 /\ vm.trace[n].inst.op \in Pure /\ ~Uncarried(vm.trace[n]) =>
         LET c == Columns(vm.trace, n)
         IN \A r \in 0 .. P - 1 : \A h \in Hinted(c) :
              RowRules([c EXCEPT !.rd = r, !.h = h]) => r = c.rd

(* An inverse witness is the inverse of the difference in the field, or    *)
(* the test for zero it serves fails on an honest row (plonky3_prover.rs,  *)
(* at the nullifier's witness).                                            *)
WitnessesAreFieldInverses ==
    \A i \in DOMAIN vm.trace :
        vm.trace[i].inst.op \in {"Eq", "Neq", "SumConservation"} =>
            LET c == Columns(vm.trace, i) IN TestsZero(c.a - c.b, c.h.inv)

ZkSpec == ZkInit /\ [][ZkNext]_zkVars
=============================================================================

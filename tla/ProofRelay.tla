------------------------------ MODULE ProofRelay ------------------------------
(***************************************************************************)
(* The relay of zk-proof: a host runs a program and proves the run; the    *)
(* relay checks the boot attestation of its tree, verifies the proof,      *)
(* re-executes the canonical transfer, asks whether its nullifier has been *)
(* spent, and signs what it found.  A program's hash is the program.  What *)
(* the proof system lets somebody prove is not assumed: a proof may have   *)
(* been made for any inputs, and is accepted for those and no others.      *)
(***************************************************************************)
EXTENDS Integers, Sequences, FiniteSetsExt, Functions

CONSTANTS
    R_HALF, R_BITS, R_GAS, R_STACK, R_MARKER, R_NULLIFIER, R_Poseidon(_, _, _),
    R_STACK_BASE, R_STORAGE_BASE,   \* the machine, see ZkVm
    R_MEMORY,                \* digits of memory
    HostContext, HostSeeds,  \* the context and the registers of the host
    Trees,                   \* builders, CANONICAL_* values and pins as they may be checked out
    Strangers,               \* programs outside every table
    MAX_TRACE_LEN

VARIABLES
    tree, boot_check,  \* the tree the relay runs from, and what its boot check said
    stage,
    r_code, r_entry, r_vm,   \* the host's machine, and then the relay's
    doc,               \* the envelope, the public inputs and the program
    entry_point, report,
    spent, answers     \* the spent nullifiers, and whether the oracle can be reached
relayVars == <<tree, boot_check, stage, r_code, r_entry, r_vm, doc, entry_point, report, spent, answers>>

RelayPrograms == UNION {{t.transfer, t.syscall, t.pins[3], t.pins[4]} : t \in Trees} \union Strangers
FILE == 32   \* registers
Zeros(from, to) == [i \in from .. to |-> 0]
Host == INSTANCE ZkAir WITH
    HALF <- R_HALF, BITS <- R_BITS, Wide <- R_HALF * R_HALF, P <- R_HALF * R_HALF - R_HALF + 1,
    GAS_LIMIT <- R_GAS, STACK_LIMIT <- R_STACK, INFERENCE_MARKER <- R_MARKER, DOMAIN_NULLIFIER <- R_NULLIFIER,
    Poseidon <- R_Poseidon, STACK_BASE <- R_STACK_BASE, STORAGE_BASE <- R_STORAGE_BASE,
    ZkPrograms <- RelayPrograms, Withheld <- {"VerifyMerkle"}, Images <- {Zeros(1, R_MEMORY)},
    Context <- HostContext, Seeds <- HostSeeds,
    code <- r_code, entry <- r_entry, vm <- r_vm
\* Vm::new(64)
Fresh == INSTANCE ZkAir WITH
    HALF <- R_HALF, BITS <- R_BITS, Wide <- R_HALF * R_HALF, P <- R_HALF * R_HALF - R_HALF + 1,
    GAS_LIMIT <- R_GAS, STACK_LIMIT <- R_STACK, INFERENCE_MARKER <- R_MARKER, DOMAIN_NULLIFIER <- R_NULLIFIER,
    Poseidon <- R_Poseidon, STACK_BASE <- R_STACK_BASE, STORAGE_BASE <- R_STORAGE_BASE,
    ZkPrograms <- RelayPrograms, Withheld <- {"VerifyMerkle"}, Images <- {Zeros(1, R_MEMORY)},
    Context <- [sender |-> 0, height |-> 0, nonce |-> 0], Seeds <- {Zeros(0, FILE - 1)},
    code <- r_code, entry <- r_entry, vm <- r_vm

(***************************************************************************)
(* The boot check: the two programs the machine's crate builds, against    *)
(* slots walked from the pinned values, and against the table of pins.     *)
(***************************************************************************)
Slot(op, rd, rs1, rs2, imm) == [op |-> op, rd |-> rd, rs1 |-> rs1, rs2 |-> rs2, imm |-> imm]
TransferSlots ==
    <<Slot("Load", 1, 0, 0, tree.values.amount), Slot("Load", 2, 0, 0, tree.values.blinding),
      Slot("PrivacyCommit", 4, 1, 2, tree.values.recipient), Slot("Load", 5, 0, 0, tree.values.sum_in),
      Slot("Load", 6, 0, 0, tree.values.sum_out), Slot("SumConservation", 7, 5, 6, 0),
      Slot("Load", 8, 0, 0, tree.values.claim), Slot("Load", 9, 0, 0, tree.values.secret),
      Slot("NullifierCheck", 10, 8, 9, 0), Slot("Log", 0, 7, 0, 0), Slot("Log", 0, 10, 0, 0),
      Slot("Halt", 0, 0, 0, 0)>>
SyscallSlots ==
    [i \in 1 .. 3 |-> Slot("Syscall", i, 0, 0, i)] \o [i \in 1 .. 3 |-> Slot("Log", 0, i, 0, 0)]
    \o <<Slot("Halt", 0, 0, 0, 0)>>

\* A strict majority of the sources there are, or nothing.
Holders(pins, hash) == {i \in DOMAIN pins : pins[i] = hash}
Agreed(pins) == {hash \in Range(pins) : 2 * Cardinality(Holders(pins, hash)) > Len(pins)}

TransferPinReconciles == tree.transfer \in Agreed(<<tree.transfer, tree.pins[3]>>)
Attests ==
    /\ Len(tree.pins) = 4
    /\ tree.transfer = TransferSlots /\ TransferPinReconciles /\ tree.transfer = tree.pins[3]
    /\ tree.syscall = SyscallSlots /\ tree.syscall = tree.pins[4]

RelayInit ==
    /\ tree \in Trees /\ boot_check = "skipped" /\ stage = "host"
    /\ Host!ZkInit /\ r_code \in {tree.transfer, tree.syscall, tree.pins[3]} \union Strangers
    /\ doc = <<>> /\ entry_point = "none" /\ report = <<>>
    /\ spent = {} /\ answers = TRUE

\* Nothing in the repository calls the check: it may be made, and ends the process on a drift.
Boot ==
    /\ stage = "host" /\ boot_check = "skipped" /\ r_vm.trace = <<>>
    /\ boot_check' = IF Attests THEN "attested" ELSE "refused"
    /\ UNCHANGED <<tree, stage, r_code, r_entry, r_vm, doc, entry_point, report, spent, answers>>
HostRuns ==
    /\ stage = "host" /\ boot_check # "refused" /\ Host!ZkNext
    /\ UNCHANGED <<tree, boot_check, stage, doc, entry_point, report, spent, answers>>

(***************************************************************************)
(* What is presented: the inputs of the run or inputs changed somewhere,   *)
(* a proof made for them or for the run, and an envelope as prove leaves   *)
(* it or with one field spoiled.                                           *)
(***************************************************************************)
InputsOf(run, receipt) ==
    [program |-> r_code, init |-> <<run.memory, run.registers>>, gas_used |-> receipt.gas_used,
     exit_code |-> receipt.exit_code, trace_len |-> receipt.trace_len, events |-> run.events,
     writes |-> receipt.writes]
HostInputs == InputsOf(Host!Claimed(r_vm.trace), Host!RunReceipt)
Changed(pi) ==
    {[pi EXCEPT !.init = <<"another">>], [pi EXCEPT !.gas_used = @ + 1], [pi EXCEPT !.exit_code = 1 - @],
     [pi EXCEPT !.trace_len = @ + 1], [pi EXCEPT !.trace_len = MAX_TRACE_LEN + 1],
     [pi EXCEPT !.events = @ + 1], [pi EXCEPT !.program = tree.pins[3]]}
Spoiled == {"proof_bytes", "string", "degree_bits", "version", "backend", "p3_version", "fri_params_id"}
Envelope(pi, run) == [spoiled |-> "nothing", hash |-> pi, decodes |-> TRUE, program |-> r_code, inputs |-> run]
Documents(pi) ==
    {[envelope |-> Envelope(pi, pi), inputs |-> pi, program |-> r_code]}
    \union {[envelope |-> [Envelope(pi, pi) EXCEPT !.spoiled = s], inputs |-> pi, program |-> r_code] : s \in Spoiled}
    \union {[envelope |-> [Envelope(pi, pi) EXCEPT !.decodes = FALSE], inputs |-> pi, program |-> r_code]}
    \union {[envelope |-> Envelope(c, pi), inputs |-> c, program |-> r_code] : c \in Changed(pi)}
    \union {[envelope |-> Envelope(c, c), inputs |-> c, program |-> r_code] : c \in Changed(pi)}
    \union {[envelope |-> Envelope(pi, pi), inputs |-> c, program |-> r_code] : c \in Changed(pi)}
    \union {[envelope |-> Envelope(pi, pi), inputs |-> pi, program |-> p] : p \in {tree.pins[3]} \ {r_code}}
Prove ==
    /\ stage = "host" /\ r_vm.halted /\ doc' \in Documents(HostInputs) /\ stage' = "verify"
    /\ UNCHANGED <<tree, boot_check, r_code, r_entry, r_vm, entry_point, report, spent, answers>>

(***************************************************************************)
(* Plonky3Adapter::verify and verify_canonical_program: the first check    *)
(* that fails names the error.                                             *)
(***************************************************************************)
IsCanonical(hash) == hash \in Range(tree.pins)
IsCanonicalTransfer(hash) == hash = tree.pins[3]
StarkAccepts(d) == d.envelope.program = d.program /\ d.envelope.inputs = d.inputs
VerifyChecks(d) ==
    << <<d.envelope.spoiled \notin {"proof_bytes", "string", "degree_bits"}, "InvalidEnvelope">>,
       <<d.inputs.trace_len <= MAX_TRACE_LEN /\ Len(d.program) <= MAX_TRACE_LEN, "InvalidEnvelope">>,
       <<d.envelope.spoiled = "nothing", "InvalidEnvelope">>,
       <<d.envelope.hash = d.inputs, "PublicInputsMismatch">>,
       <<d.program = d.inputs.program, "PublicInputsMismatch">>,
       <<d.envelope.decodes, "DeserializationError">>,
       <<StarkAccepts(d), "InvalidProof">>,
       <<IsCanonical(d.inputs.program), "NonCanonicalProgram">> >>
Failing(d) == {i \in DOMAIN VerifyChecks(d) : ~VerifyChecks(d)[i][1]}

\* A pin that is not hex is the hash of no program, and leaves the table without a digest.
NotHex == <<>>
SetHasDigest == NotHex \notin Range(tree.pins)

\* The signature is a hash of every other field.
Payload(r) == <<r.status, r.program, r.canonical, r.envelope, r.alarm>>
SignReport(r) == [r EXCEPT !.sig = Payload(r)]
FromOutcome(d) ==
    SignReport([status |-> IF Failing(d) = {} THEN "ok" ELSE "alarm", program |-> d.inputs.program,
          canonical |-> SetHasDigest /\ IsCanonical(d.inputs.program), envelope |-> d.envelope,
          alarm |-> IF Failing(d) = {} THEN "none" ELSE VerifyChecks(d)[Min(Failing(d))][2], sig |-> <<>>])
MarkTransferViolation(r) == SignReport([r EXCEPT !.status = "alarm", !.alarm = "TransferViolation"])

\* An alarm stands as it is, and only the canonical transfer is run again.
Relay ==
    /\ stage = "verify"
    /\ entry_point' \in {"report", "with_reexecution", "with_spentset"}
    /\ report' = FromOutcome(doc)
    /\ IF report'.status = "ok" /\ entry_point' # "report" /\ IsCanonicalTransfer(doc.inputs.program)
       THEN /\ stage' = "again" /\ r_code' = doc.program
            /\ r_entry' = [registers |-> Zeros(0, FILE - 1), memory |-> Zeros(1, R_MEMORY)]
            /\ r_vm' = Fresh!Started(r_entry')
       ELSE stage' = "done" /\ UNCHANGED <<r_code, r_entry, r_vm>>
    /\ UNCHANGED <<tree, boot_check, doc, spent, answers>>
Reexecute ==
    /\ stage = "again" /\ Fresh!ZkNext
    /\ UNCHANGED <<tree, boot_check, stage, doc, entry_point, report, spent, answers>>

\* Mutant: the verdict is read off the digest, which is the sum of the events.
ConservesBySum(events) == Len(events) = 2 /\ events[1] + events[2] = 1
\* verdict_of: two events, and the first of them is one.
Conserves(events) == Len(events) = 2 /\ events[1] = 1
MatchesRun(pi) ==
    LET again == InputsOf(Fresh!Claimed(r_vm.trace), Fresh!RunReceipt)
    IN pi.events = again.events /\ pi.init = again.init /\ pi.trace_len = again.trace_len
       /\ pi.exit_code = again.exit_code /\ pi.gas_used = again.gas_used
\* An oracle that cannot answer counts as a nullifier that is spent.
Unspent(nullifier) == answers /\ nullifier \notin spent
Lawful ==
    /\ r_vm.error = "none" /\ Conserves(r_vm.events) /\ MatchesRun(doc.inputs)
    /\ entry_point = "with_spentset" => Unspent(r_vm.registers[8])
Judge ==
    /\ stage = "again" /\ r_vm.halted /\ stage' = "done"
    /\ report' = IF Lawful THEN report ELSE MarkTransferViolation(report)
    /\ UNCHANGED <<tree, boot_check, r_code, r_entry, r_vm, doc, entry_point, spent, answers>>

\* The registry of notes moves on while the relay is at work; the oracle may go silent.
Spend ==
    /\ stage = "again" /\ spent = {} /\ spent' = {tree.values.claim}
    /\ UNCHANGED <<tree, boot_check, stage, r_code, r_entry, r_vm, doc, entry_point, report, answers>>
OracleFails ==
    /\ stage = "again" /\ answers /\ answers' = FALSE
    /\ UNCHANGED <<tree, boot_check, stage, r_code, r_entry, r_vm, doc, entry_point, report, spent>>

RelayNext == Boot \/ HostRuns \/ Prove \/ Relay \/ Reexecute \/ Judge \/ Spend \/ OracleFails

(* Correctness.  A report that says ok is about a canonical program and the *)
(* inputs its proof was made for; of the transfer, once run again, it says *)
(* that the run conserves, that the inputs are those of the run, and, asked *)
(* of the spent set, that nobody had spent its nullifier by then.  In a    *)
(* tree that attested itself the transfer is the one the schema describes. *)
(* And whatever a report says, its signature covers it.                    *)
OkMeansLawful ==
    stage = "done" =>
        /\ report.sig = Payload(report)
        /\ report.status = "ok" =>
             /\ doc.inputs.program \in Range(tree.pins) /\ doc.program = doc.inputs.program
             /\ doc.envelope.inputs = doc.inputs
             /\ entry_point # "report" /\ doc.program = tree.pins[3] =>
                  /\ r_vm.error = "none" /\ r_vm.events[1] = 1
                  /\ doc.inputs.gas_used = r_vm.gas_used /\ doc.inputs.trace_len = Len(r_vm.trace)
                  /\ entry_point = "with_spentset" => answers /\ r_vm.registers[8] \notin spent
                  /\ boot_check = "attested" => doc.program = TransferSlots /\ r_vm.registers[5] = r_vm.registers[6]

RelaySpec == RelayInit /\ [][RelayNext]_relayVars
=============================================================================

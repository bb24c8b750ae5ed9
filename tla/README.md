# Lumen Gate in TLA+

This directory specifies the parts of Lumen Gate that decide what may be minted, burned,
released, claimed, recorded or proved: two Soroban contracts (`contracts/finality_registry`,
`contracts/settlement_gateway`), the off-chain programs around them (`crates/relayer`,
`crates/source_simulator`, `crates/domain_adapter`, the records of `anchor/`), the contracts
of Gate 2.0 (`gate2/evm`, `gate2/soroban`), and the machines whose runs are proved
(`crates/execution_vm`, `crates/gate_vm`, `circuits/`, `gate2/zkvm`). The modules are checked
with TLC on small instances, and the theorems of section 5 are proved with TLAPS for every
value of the constants. Paths are relative to the repository root.

## 1. The system and its parts

Value crosses in two directions. Inbound: somebody locks value on a source chain; the source
chain's validators sign `(height, state root, event root)`; anybody submits that evidence to
the **registry**, which stores the roots per height; anybody then presents a message with a
Merkle proof under the stored event root to the **gateway**, which mints the wrapped asset.
Outbound: a holder burns through the gateway, which publishes a `burn` event; the **relayer**
reads the event from the RPC and asks the **source side** to release. Gate 2.0 is a second
product on the same ground: an EVM router burns USDC through Circle's CCTP in one batch, and
a set of Soroban contracts claims the mint and hands it out as balance, tickets and soulbound
proofs. Beside both stand machines whose runs are proved: two small ones whose circuits the
registry's recording lanes accept, and a larger one with a language, a compiler and a STARK
prover, kept in quarantine by the repository (`gate2/zkvm`).

| component | state it keeps | operations that change it | talks to | what is hard |
|---|---|---|---|---|
| finality registry | admin flag, five verifying-key slots, domain records, BLS policies, roots per height, used digests, one trail per recording lane | bootstrap and admin calls, `renounce_admin`, six submission lanes | read by the gateway | evidence reordered, replayed, under several versions; two stores of one fact; six lanes sharing one digest set |
| settlement gateway | admin, fee collector, high-water marks, outbound nonces, per-message records, relayer rewards | six inbound entry points, `lock_and_relay`, `burn_and_relay`, admin calls | reads the registry, calls the token | two replay guards, one nonce counter shared by locks and burns, a registry that changes between calls |
| source simulator | blocks, lock events, nonce, consumed burns, released amounts, all in memory | `/lock`, `/unlock`, `/burn-unlock`, a block every five seconds | asked by the relayer | a restart loses everything, and heights start again at 1 |
| relayer | burn cursor, three sets in memory, the position in its loop | one endless loop of network calls | simulator, RPC, both contracts | every call may fail, or succeed unseen; the cursor moves before the work is done; a restart forgets the sets |
| domain adapter | a replay guard with a bounded memory | the judgement of a proof document, `admit` | used by tools | documents declare what their payload says again; ids are forgotten |
| anchor facade (`anchor/`) | sessions, one JSON file of deposit and withdrawal records | SEP-6/10 routes, reconciliation passes, burn reports | Horizon, source | passes keep copies across awaits and write them back |
| BurnRouter | nothing between calls | `burnBatch` | tokens, venue, CCTP messenger | measured deltas, a loop over tokens, rounding and caps |
| GateClaim, GateTicket, GateBattery | replay set, proofs, summaries; tickets, owners' lists, live total; balances, used nonces | `claim`; `mint_ticket`, `transfer`, `redeem`, `redeem_to_battery`, `split`; `deposit`, `withdraw`, `forward` | each other, USDC, Circle, arbitrary targets | one transaction that measures, splits and records; three stores of one ownership; signed requests relayed by others |
| campaign example, stamp | tier per owner, one stamp per owner | `claim_tier`, `stamp` | GateClaim | a tier is granted on a total that grows |
| execution VM, gate VM, their circuits | registers, memory, a trace | one instruction | proofs the registry records | machine, checker and circuit state one semantics three times |
| zk VM, tables, constraints | registers, memory, stack, storage, a trace | one instruction | prover, relay | every opcode is restated by the tables, the hints and the constraints |
| zk compiler | none | parse, check, generate | zk VM | two semantics of one text; registers saved around calls |
| proof relay | none between reports | three entry points | verifier, re-execution, spent set | three derivations of one transfer that may have drifted apart |
| verifier registry | bonds per account and role, slashing records | register, top up, unbond, withdraw, slash | called by nobody | one slash reaches the other roles of the account; reports repeat |
| alarm log, quarantine | a chained log and a ledger, both bounded | `record`, `ban` | called by nobody | eviction moves the anchor of the chain |
| zk state | accounts, a stack of snapshots, one file | transactions, atomic save, proofs | zk VM's host | a save may be cut anywhere; nested transactions |
| api functions, frontends, tools | none of the protocol's | - | everything | I/O |

`PROJECT.json` lists every component with its status, and under "hazards" each thing in this
code that is hard to test, at its line, with the properties that cover it.

What makes each component correct:

- **registry**: the roots in the domain record and in the per-height table never disagree; an
  event root is stored only under a valid signature of the configured key; nothing is recorded
  for a domain before it is admitted; after `renounce_admin` no key, policy, version or domain
  changes; a digest is used once, in one lane; recording lanes only move up.
- **gateway**: a message settles at most once, and the messages of one sender settle in nonce
  order, whatever the registry does in between; a burn is never refused by the replay guard;
  the books balance; the gateway implements an abstract bridge.
- **relayer and source side**: what is minted was locked, what is released was burned, each at
  most once; what the relayer takes for done is done or out of reach for good; a pinned height
  is eventually worked off; a burn is eventually released.
- **domain adapter and anchor**: exactly the honest documents are attested; no message is
  admitted twice although ids are forgotten; a record says only what the ledgers have seen.
- **Gate 2.0**: every burn the router accepts can be claimed; what is owed is held; the lists
  name the owners; a tier is backed by its holder's proofs.
- **machines**: every run has an accepted proof and every accepted proof is of a run; the hints
  of a row admit one result; a compiled contract does what its text says.
- **what is kept of proofs**: an `ok` report means a lawful, unspent, canonical transfer; the
  log is chained to its anchor; a jailed bond stays jailed and counts once; what is loaded was
  once committed; a root proves its accounts and no others.

## 2. Modules

| module | models | kind |
|---|---|---|
| `FinalityRegistry`, `MCFinalityRegistry`, `FinalityRegistryProofs` | `contracts/finality_registry` | component, instance, theorems |
| `BridgePromise` | what the gateway promises, without how | abstract specification |
| `SettlementGateway`, `MCSettlementGateway`, `SettlementGatewayProofs` | `contracts/settlement_gateway`, against any registry | component, instances, theorems (the refinement of `BridgePromise` among them) |
| `SourceSimulator` | `crates/source_simulator` | component |
| `DomainAdapter` | `crates/domain_adapter`; extends the source | component |
| `EventTree` | the Merkle tree of a block, built twice by the source and walked by the gateway | component |
| `AnchorRecords` | sessions and records of `anchor/` | component |
| `SourceProofs` | | theorems of the source, its event tree, the adapter and the anchor |
| `MCSourceSimulator` | source, adapter, tree and anchor | composition and instance |
| `Relayer`, `MCRelayer`, `RelayerProofs` | `crates/relayer`, composed with source, registry and gateway | component and composition, instances, theorems |
| `Sums`, `SumTheorems` | sums over finite sets, and the laws of sums | operators, lemmas |
| `Usdc` | the asset contract, from how Gate 2.0 uses it | external |
| `GateBattery`, `GateTicket`, `GateClaim`, `BurnRouter` | the contracts of Gate 2.0, each extending the one before | components |
| `Gate2`, `Campaign` | all of them together; the campaign and the stamp beside them | compositions |
| `MCGate2`, `Gate2Proofs` | | instance, theorems |
| `ExecutionVm`, `ExecutionLane` | the machine of `crates/execution_vm`; its checker and its circuit | component; judge and prover |
| `GateVm` | `crates/gate_vm` and its circuit | component, judge and prover |
| `ZkVm`, `ZkAir` | the machine of `gate2/zkvm`; the tables and the constraints of its proof | component; judge |
| `MachineProofs` | | theorems of these three machines: what their circuits and rows admit |
| `ZkText`, `ZkParser`, `ZkCompiler`, `ZkIsa`, `ZkCompiled` | how a contract is written; lexer and parser; checks and code generator; instruction words; what a contract means, against what its code does | pure algorithms; composition |
| `ProofRelay` | `zk-proof/src/relayer.rs` with the boot checks it relies on | component |
| `VerifierRegistry`, `AlarmLog`, `ZkState` | the three state-keeping crates beside the prover | components |
| `MCContracts`, `MCProving`, `ProvingProofs` | contracts to compile; all machines as scenes; theorems about bonds, alarms, the account state and the relay | instances, theorems |

`Relayer` takes `SourceSimulator`, `FinalityRegistry` and `SettlementGateway` by `INSTANCE` and
uses their actions as they are, so what the relayer meets on the other end of a call is the
component model and not a stub of it. `SettlementGateway` alone is stronger in one respect: its
registry is arbitrary (any record may appear, change or be overwritten at any moment), so what
holds there holds for every registry.

`MCSourceSimulator` and `MCProving` put components beside each other that the repository never
runs together; the instance lets one of them move while the others wait in a first state
(`Bound`, `AnchorBound`, `Scenes`). Nothing is claimed about their interleaving.

### How the models correspond to the code

One entry point is one action: on Soroban and on the EVM a call is a transaction, so an error
takes all its effects back and an action is either accepted as a whole or not there. The
handlers of the source simulator hold one mutex from first read to last write and are one
action for the same reason. The relayer is different: its loop is a chain of network calls with
everybody else moving in between, so a step of `Relayer` is one call and the code up to the
next call, `pc` says which one is next, and `Fails` is the other outcome every call has: before
it had an effect, or after it, with the answer lost. The anchor is a single-threaded process:
a step is what runs between two awaits. The machines take one instruction per step; a `ZkState`
save takes one step per file operation, and a crash may come between any two.

Abstractions, and what they keep:

- **Hashes and ids** are the things hashed (injective): a digest is its evidence, a message id
  its message, an event root the set of events of the block. `EventTree` is where this last
  step is earned: an event proves against a root exactly when it is in the block.
- **Signatures and proofs** are records of who signed what, or of the statement a proof proves,
  under which circuit. The pairing is not modelled; what the contract compares before and after
  it is.
- **Circuits** are the relation their constraints state, read row by row, with the prover's
  freedom kept: `ExecutionLane` and `GateVm` let a prover claim any rows the judge accepts, and
  `ZkAir` asks of every hint column which other values the constraints would accept.
- **Words and fields** keep their structure at a smaller size. `ZkVm` has words of two digits
  below `HALF` and the field of order `HALF^2 - HALF + 1`, the shape of Goldilocks over
  `2^32`, so what wraps in the word and not in the field still does so.
- **A text** is its sequence of lexemes, with white space and comments as one of them. How
  characters become lexemes is the only part of the compiler's front left out.
- **Payload layouts** are named by their length, since the length is what the contract tells
  them apart by. The two gate-vm lanes share one.
- **The token** of the bridge and USDC are balances; USDC also has trustlines, because an
  account without one makes a claim fail.
- **Time** is the ledger sequence, the source height and, for the relayer, nothing: a sleep of
  five seconds is a step.
- **TTLs** (`extend_ttl`, `bump`) are left out: entries live as long as they are needed.
- The router's legs are abstracted to the sum they brought (`Deltas`): every call either
  reverts, or burns the difference it measured.

## 3. What the runs check

Every run is exhaustive within its bounds.

| run | distinct states | question |
|---|---|---|
| `registry` | 214 165 | the registry's two tables, its lanes and its administration |
| `gateway_settlement` | 106 932 | replay, order, the books; implements `BridgePromise` |
| `gateway_sponsored_fee` | violated | is the sponsored fee bounded like the gasless one? |
| `source` | 166 526 | releases, documents, the replay guard, event trees of up to five leaves, the anchor's records |
| `relay_round_trip` | 741 358 | lock, anchor, mint, burn, release with failures and restarts |
| `relay_liveness` | 171 408 | is a pinned height worked off, and is a burn released? |
| `relay_poisoned_page` | violated | the same when a burn of the page does not decode |
| `relay_reported` | violated | does gateway error 4 mean "was minted"? |
| `gate2` | 791 577 | what is owed, who owns, replay, openness of claims, tiers |
| `gate2_lost_burn` | violated | can every burn the router accepts be claimed? |
| `proving` | 255 942 | the machines, the compiler, the relay of proofs, bonds, alarms and accounts |
| `zk_equality` | violated | are the witnesses of the equality tests inverses in the field? |

### Properties

*Registry.* `AnchorAgrees` relates the two places one submission writes (the domain record and
the per-height table). `EventRootsSigned` says a non-zero event root, which is what the gateway
mints under, always has an accepted signature over exactly that height, root and event root; the
Groth16 lane writes to the same table, with zero roots. `UnadmittedIsSilent`,
`FrozenAfterRenounce`, `OneEvidenceOneEffect` (one digest set for six lanes) and
`TrailCoversAccepted` (recording lanes) are the rest.

*Gateway.* `SettledInOrder` is the replay protection, stated over the history of mints rather
than over the mark; `MarkIsLastNonce` relates the mark to that history; `BurnNeverReplayed`
concerns the nonce counter that locks and burns share and the guard that burns pass through;
`BooksBalance` says supply, rewards and escrow are the sums of the events that made them, as long
as no settlement paid a negative fee (finding 1); `PromiseKept` is the refinement.

*Source side.* `ReleasedMatchesBurns`: what each account was released is the capped sum of the
burns consumed for it. `AttestsHonestBlocks`: of all documents, honest or not, the adapter attests
those of honest blocks and no others. `AdmittedOnce`: the guard admits a message once for good.
`ExactlyItsEventsProve`: a proof, the builder's or one somebody makes up from the tree's nodes,
leads from an event to the root exactly when the event is in the block. `RecordsAreBacked`: what
a record of the anchor says, the ledgers had seen, whatever copies overlapping passes write back.

*Relay.* `Covered` is the end-to-end statement, in two parts. Wrapped supply plus what the source
released since it started never exceed what was ever locked plus the initial supply, whichever call
fails and however often the relayer restarts. A restart of the source forgets what it released, and
a relayer that starts again inside its look-back asks for the same burns: counting what every life
of the source released, the sum stays within the same bound plus all burns once more per restart of
the source. The run reaches such a second release, so the second part fails without that allowance.
`MintsWereLocked` survives even a restart of the source, which resets heights and nonces and whose
new blocks overwrite the registry's records. `AnchoredBeforeMint` justifies the relayer's reading
of registry error 9 as success. `DoneIsOutOfReach` says what the relayer's memory means; it is
deliberately weaker than "was minted", see finding 3. `PinnedHeightIsWorkedOff` and
`BurnsAreReleased` are liveness. The latter speaks of every burn the bounds allow and has two
exceptions, both of which the code has: a run in which some call failed, and the burns behind a page
that was cut (`cutOff`). `poll_burn_events` asks for at most 100 events (`main.rs:239`) and then moves
its cursor behind the newest ledger (`main.rs:262`), so the burns that had no room in the page are
not asked for again before a restart looks back; no call fails in that. Without the exception the
liveness run finds such a burn.

*Gate 2.0.* `OwedIsHeld`: claim, vault and battery hold what they owe, through claims, splits,
redemptions and relayed calls. `IndexNamesOwners` (three stores of who owns which ticket),
`ForwardedOnce` (nonces of signed requests), `ClaimsStayOpen` (nothing closes a claimable burn
before it is claimed), `TierIsEarned` (a tier against the proofs on record).

*Machines.* `RunsAreProvable` says exactly which halting runs of the execution lane have a proof. An
instruction word has register fields of five bits beside eight registers, and bits above its
immediate: the machine reduces the one and drops the other, the judges do not. The checker accepts the
padded run if and only if the words it executed name registers of the file and no word of the
program, executed or not, has such a bit; the circuit if and only if both hold of the executed words.
`ProofsAreRuns`: the circuit accepts nothing that is not a run. `GateProofsAreRuns`: the rows the gate
circuit accepts are a run with the public results its receipt states. `ZkRunsAreProvable`: the
tables of a successful run satisfy every constraint; `RowsDetermineResults`: no other value of a
row's hints does, for the instructions whose result the constraints state. `CompiledMeansSource`:
every text is read as the contract it was written from, or refused as it must be; and the code made
of it logs and writes what the contract means, in the same order, fails an assertion where the
contract does and nowhere else, and never leaves its code, its stack or its heap. `CompiledRunsAreProved`: the runs of compiled
contracts have accepted tables.

*What is kept of proofs.* `OkMeansLawful`: an `ok` report is about a canonical program and the
inputs its proof was made for; of the transfer, run again, it says that the run conserves and, asked
of the spent set, that its nullifier was unspent; in a tree that attested itself the transfer is the
one the schema describes. `OneRecordPerBond`, `JailHoldsTheAccount`: bonds. `AlarmsAreChained`: the log
kept is the tail of what was recorded, chained to its anchor; the ban set holds the last banned.
`LoadedWasCommitted`: the file is always the whole of a table an outermost commit saw, and nothing
that was rolled back or lost comes back.
`RootProvesAccounts`: a Merkle proof is accepted exactly for the account the tree holds.

### Bounds, and why they are enough

- `registry`: one account that can be admin, one domain, two evidence versions, heights 0 to 2,
  twelve evidences. Domains do not interact except through the shared digest set, whose entries
  name their domain, so a second one multiplies states without a new case (the theorems hold for
  any number). The evidences include a second signature at a held height, the same payload under a
  second version, a foreign key, an event root the signature does not cover, a Groth16 evidence at
  a height the other lane holds, and recording evidence on both sides of each range limit. The
  system stops when all evidence is used and the admin is gone: hence `CHECK_DEADLOCK FALSE`.
- `gateway_settlement`: seven messages (two in order, one re-used nonce with other content, one
  wrong kind, one wrong target, one expired, one nobody committed to), two accounts, three calls
  that settle or send in any order, two ledgers, a registry with two heights that changes at will.
  Three calls are the shortest that tell "last nonce" from "highest nonce", and a lock from a burn
  before another burn.
- `source`: three heights, blocks with up to two events, two burns asked for under several amounts,
  `u64::MAX` set to 3 so that the saturation is reachable; a guard that remembers one id, two
  admissions; five leaves, which give one, two, odd and twice-odd levels (5 -> 3 -> 2 -> 1), with
  two pairs of messages sharing a payload hash, and made-up proofs of up to three siblings; for the
  anchor two accounts (one unknown to the ledger, one with two signers), two records, two facts, two
  passes and one burn report at a time, with time standing still once facts or passes begin.
- `relay_round_trip`: one user, one block with two events, one relayer restart, one restart of the
  source, one failing call (at any of the calls, with or without its effect) and a forged message
  with a foreign signature. The hazards of this code are each a single failure met by what went
  before it.
- `relay_liveness`: a pinned block of two events, two burns within two ledgers, two failing calls,
  one restart; the window of the look-back as long as the run, since with a shorter one the code
  promises nothing. A page holds one burn (`PageLimit`) and there may be two (`MaxBurns`), so that a
  page is cut whenever both are closed before the relayer polls; the quantifier of `BurnsAreReleased`
  ranges over both. In `relay_poisoned_page` the page holds both, so that what is lost there is lost
  by the decoding alone. `MaxBurns` is the bound of the quantifier and of `HolderBurns`;
  in `relay_round_trip` it is above the number of burns the minted supply pays for.
- `gate2`: two accounts and three contracts; two burns, three ticket ids, one gas reserve, Circle
  fees 0 and 1, three signed requests, all under one nonce; payees include the vault itself.
  Amounts on the EVM side are single units, ten times that on Stellar, as the decimals differ.
  Stamps are handed out before there are burns and tiers before a ticket or battery is touched:
  both only read the summaries.
- `proving`, one scene per machine:
  - lane: words modulo 8, two words of memory, three registers, programs of four instructions
    (any three of sixteen before a halt, and around them eight more whose fields leave the file or
    that have a bit above the immediate, executed and jumped over), three register files, fields of
    six values (`FIELDS`, 32 in the code), and lanes of six rows, so that padding, the step limit and
    runs too long for the lane are all met;
  - gate machine: a field of order 3, windows of three and four lines, three registers;
  - zk machine: words of two digits below 4, so the field is GF(13) and wraps differ from
    reductions; any two instructions after two loads, and four longer programs; 40 gas, one word of
    stack;
  - compiler: words of two digits below 16, field of order 241, so that values and addresses both
    fit; 297 contracts (every operation on any two kinds of leaf, every control structure around any
    two blocks, structs, recursion, context calls, texts at the bound of nesting and past it,
    literals at and past a word's end), of which 273 compile; `MAX_NESTING_DEPTH` is 6 and
    instruction words are of 6+4+4+4+10 bits;
  - relay: six trees (all in step, sums drifted, a pin that logs other registers, a builder in
    another order, a transfer that cannot end, a pin that is not hexadecimal) and a program outside
    the tables;
  - registry of bonds: two accounts, two roles (one account takes only one of them), stakes 0 and 1,
    terms of one and of two changed as it goes, a history of two records; alarms: logs and ledgers one longer than their
    caps; state: nested transactions and saves cut at every step.

`Builds` in `Proving.cfg` is what the compiler makes of each contract, worked out once instead of in
every state; the assumption `BuildsAssumption` of `ZkCompiled`, which TLC evaluates, says that it is
exactly that.

### Fairness

Only the liveness run uses it. `WF(RelayerStep)`: the relayer is one loop that waits for nobody but
the other end of its current call, and either outcome of that call, an answer or an error, is a
step. The HTTP client (`crates/relayer/src/main.rs:740`) and the `stellar` commands carry no timeout
of their own, so this assumes that a connection that is accepted and never answered is in the end
broken by the network; the code has no defence of its own against one that is not (listed as a
hazard). `WF(CloseLedger)`: the network closes ledgers. Nothing is assumed about anybody else. Calls
that fail are bounded by `MaxFailures`; without a bound a relayer whose every call fails makes no
progress, and the code does not claim it would. `BurnsAreReleased` promises nothing once a call has
failed, because a failed unlock request is not repeated before a restart (below).

## 4. What the runs found

Five runs check a statement made by the repository's own text that the code does not keep.

1. **Sponsored fee** (`gateway_sponsored_fee`). `contracts/settlement_gateway/src/lib.rs:888` says
   the sponsored entry point works "by same logic as gasless". The gasless one refuses a negative
   fee; the sponsored one does not, and the recipient is credited the amount *minus* that fee, more
   than was locked.
2. **A page with one burn that does not decode** (`relay_poisoned_page`). The relayer moves its
   cursor, then decodes the page, and the first event that does not decode drops all of it.
   `burn_and_relay` accepts an expiry the decoder refuses.
3. **Error 4 read as "already minted"** (`relay_reported`). After one failed call for an earlier
   event a later one raises the mark; the earlier one is then answered with error 4, noted as minted,
   and never was.
4. **M-class recipients** (`gate2_lost_burn`). The router accepts a recipient class the claim cannot
   read; the burn is final and the claim refused for good.
5. **Witnesses of equality tests** (`zk_equality`). `plonky3_prover.rs:824` says why a witness has to
   be the inverse of the difference in the field; those of `Eq`, `Neq` (line 512) and
   `SumConservation` (line 523) are inverses of the difference of words, so a correct run whose first
   operand is the smaller has no proof.

Seen while modelling, without a run of their own:

*Bridge.* A new signed block at a height the registry already holds replaces the record (only the
digest is guarded, `finality_registry/src/lib.rs:843`, `:925`); the repository's README (line 489)
describes a rebuilt source chain as answered with error 9, which holds for identical blocks only. A
burn-unlock request that fails is not repeated until a restart inside the window.

*Gate 2.0.* `MigrationSummary.total_usdc` is commented "Net" (`gate_claim/src/lib.rs:140`) and adds
what was minted, relay fee included (`:553`). `live_total` "must always equal" the vault's balance
(`gate_ticket/src/lib.rs:490`); anybody may transfer USDC to the vault, or redeem a ticket to it, so
`OwedIsHeld` states `>=`. The router compares relay cap and battery share with what it burns
(`BurnRouter.sol:184`); Circle's fee comes off afterwards, so `ClaimsStayOpen` speaks of burns that
arrive with more than their battery share.

*Anchor.* A burn report is believed on any successful transaction of the account (`sep6.js` 18-21).
One lock or one payment may back several records, and older payments count. A stale overlapping pass
can take a completed record back to `pending_anchor`, where `store.js` 6-8 says states only advance.
An unreadable store is an empty document, and the next create writes over it. `withdraw` advertises a
minimum and maximum it does not check. `RecordsAreBacked` says what remains true.

*Execution and gate VM.* "On a refusal the machine halts" holds for neither a bad address nor the
step limit. `decode` takes register fields of 0 to 31 and drops what is above the immediate (`isa.rs`
154-163), and the machine takes a field modulo the number of registers (`vm.rs` 141-155), except where
it asks whether a load names `r0` (`vm.rs:187`, the raw field). A program with such a word runs and may
halt, and then has no proof: `check_trace` wants fields inside the file (`constraints.rs` 169-181), the
circuit selects one of its registers and has no term for the high bits. A word with a high bit that
never runs separates the two: the lane refuses the program (`lane.rs` 195-201), the circuit would not.
`RunsAreProvable` states this as it is. Otherwise the Rust checker of the lane does not enforce the
chain of program counters nor `Assert`, the circuit does.

*zk machine.* Beside finding 5, these runs are valid and have no proof, and `ZkRunsAreProvable`
excludes them by name (`Wraps`, `Uncarried`, `Overlap`, `Detached` in `ZkAir`): a Merkle path whose
last hash is below the root; storage at slot -1; negative immediates of `Load`; a destination on an
opcode that writes none; an inference over a bad immediate; a store through register 0; words
that overlap in memory; two storage writes with another instruction between them (the comment at
`plonky3_prover.rs` 704-708 promises the accumulator is carried). `Syscall` and the next program
counter of ordinary rows are constrained by nothing, and `RowsDetermineResults` leaves them out.

*Compiler.* Four shapes compile to something else than the contract means and are excluded by
`Misread` (`ZkCompiled`): `let y = x` aliases the register of `x` (and so does the end of a `for`); a
`match` on anything but a name re-evaluates it; lets of two branches share one scope; a struct literal
as a field's value overlaps the struct around it. `ast.rs:70` and `codegen.rs` 363-365 say the checks
enforce a final wildcard arm; `sema.rs` 524-538 does not. The parser ignores what follows the
contract's closing brace, refuses `for i in 0..n {` (a name before a brace begins a struct literal)
and a bare call `f(x);` (a name begins an assignment); a decimal past `u64` is a lexer's error, a
hexadecimal one a parser's.

*Proof relay and its neighbours.* A pin that is not hexadecimal leaves the set without a digest; of
such a table `zk-proof/src/relayer.rs` 317-320 says the report "claims nothing is canonical, which
routes the proof through the existing NonCanonicalProgram alarm". The report does say `is_canonical`
false, but no alarm comes of it: the status is what the checks made it, and those look at the other
pins one by one, so it may be `ok`. The boot check covers two of the four pinned programs, nothing in the
repository calls it, and reconciling two sources can never repair one; the event digest is a sum; an
envelope's `degree_bits` is compared with nothing; reporting does not mark a nullifier spent. Deleting
the log's last entry passes its integrity check, and "only one entry" differs holds for the retained
window. A jailed account may register a fresh role; `upsert_stake(0)` removes an entry that is
unbonding. A failed outermost commit has dropped its snapshot: the rollback after it does nothing, and
the values reach the file at the next commit.

## 5. What is proved

No theorem assumes more than the `ASSUME`s of the modules (constants are sets of the right kind,
distinguished values differ, accounts and users are finitely many), which TLC evaluates on every
run.

**`FinalityRegistryProofs`**, for any domains, versions, heights, keys and evidence: `TypeCorrect`,
`AnchorsAgree`, `EventRootsAreSigned`, `AdmissionGates`, `TrailsMoveForward`, `TrailsCoverAccepted`,
`OneDigestOneEffect` and `Frozen`. Each follows from `TypeOK` and one step lemma per kind of call: the admin calls are
summed up by `AdminEffect` (what they may touch), the four recording lanes by `Records`, so the
invariants are argued once per kind and not once per entry point. `Frozen` rests on
`RenouncedHasNoAdmin`: the flag is only ever set together with the dead admin, and `initialize` can
not follow it.

**`SettlementGatewayProofs`**, for any messages, accounts, fees and any behaviour of the registry:
`TypeCorrect`, `MarksAreLastNonces`, `SettlementOrder`, `RecordsBelowMarks`, `MarksAreFinal`,
`OutboundUnique`, `BurnsNeverReplayed`, `KeepsPromise`, `BooksAgree`. `SettledInOrder` is not
inductive: one must know that the mark bounds every nonce that settled (`InboundInv`). That no two
outbound messages share target, sender and nonce needs the counter to be above every nonce sent
(`OutboundInv`), and `BurnNeverReplayed` needs both, with the observation that a mark under an
outbound key can only come from a burn, because no inbound message names the zero source.
`KeepsPromise` maps every step to a `Settle`, a `Send` or a registry move of `BridgePromise`.
`BooksAgree` adds up the three histories entry by entry; it speaks of runs in which no settlement
paid a negative fee, which is what finding 1 breaks.

**`Gate2Proofs`**, for any accounts, amounts, requests and bounds:
`ClaimableStaysClaimable`, `NonceIsSpentOnce`, `WhatIsOwedIsHeld`, `ListsNameOwners`,
`CampaignRefinesGate2`, `TiersAreEarned`. The first rests on `GuardsAgree`: Circle's record, the
claim's own and the list of proofs name the same messages, so neither guard can refuse a message
that has not been claimed; the other conditions of a claim follow from what `burnBatch` checked.
`WhatIsOwedIsHeld` carries the sum of the live tickets through every operation (a split replaces one
ticket by parts that add up to it) and the sum of the balances beside it, together with the fact that
no request can move the vault's or the battery's own money. `ListsNameOwners` needs the three stores
of ownership at once and that a list never repeats an id. `TiersAreEarned` equates the running total
with the sum of the recipient's proofs, and transfers everything proved of `Gate2` to the
composition with the campaign through `CampaignRefinesGate2`.

**`SourceProofs`**, for any messages, accounts, guard memory, requests and answers of the network:
`ReleasesAreTheBurns`, `HonestBlocksAreAttested`, `EachIsAdmittedOnce`, `MemoryDecidesNothing`,
`RecordsSayWhatHappened`, `ProofsAreOfEvents`. What was released saturates, so the invariant is about the capped sum and
needs that capping after every addition is capping once. `AdmittedOnce` would fail if the remembered
ids decided: they are forgotten. The invariant says that every admitted message is at or below its
sender's mark, and then every remembered id is, too. For the anchor, `RecordsAreBacked` of the file
alone is not inductive, because a pass works on copies it took earlier and writes them back whole:
the invariant says that every copy in flight agrees with its record on what was requested, that every
reference in a copy or in a record names something that happened on the ledgers, and that the file
is complete while it has never been unreadable. For the event tree, walk and tree are compared at
the least level where they part: on every level the walk stands at the event's place, and the sibling
it takes next is the node its parent was made of, itself where a level is odd. A stranger never gets
onto the tree: no leaf of it is his, and a hash that is a node of the tree is the hash of two nodes
of the tree. A block may be of any length; the bound on proofs somebody makes up is the run's only.

**`RelayerProofs`**, for any users, amounts, windows, pages, forged messages and numbers of failures
and restarts: `SupplyIsCovered`, `MintsAreLocks`, `EventsAreAnchored`, `DoneIsDone`. Every step of the
composition is one of seven moves of the world (lock, ticker, unlock, source restart, registry,
gateway, or nothing of these); `WorldInv` is preserved by each move whoever makes it, the relayer, a
holder or a stranger, and `LoopInv` says what the relayer's variables know of the world at each value
of `pc`. `Onward` is the part that makes the loop's knowledge last: nothing the relayer relies on is
taken back while the source lives. The first part of `SupplyIsCovered` follows without sums being
carried through the steps: mints are locked messages, none twice; releases of one life of the source
are burns, none twice; so their sums are bounded by those of the locks and of the burns. For the
second part `ReleaseInv` carries one sum: what was ever released is at most all burns once per restart
of the source plus the burns this life has consumed. A restart keeps it because what the life before
consumed is at most all burns, and a burn keeps it because the sum of all burns only grows.

**`ProvingProofs`**: `JailHolds`, `EvidenceCountsOnce` for any accounts, roles, stakes and terms,
`AlarmsChain` for logs and ledgers of any size. The link of an alarm is the whole past it was made
of, a term; that unfolding the head gives back everything ever recorded is a statement about a
recursive function, proved by taking the least index at which it would fail. `FileWasCommitted` rests on
`StoreInv`: every table to go back to stands (nothing in it was rolled back or lost) and holds only
what was written before it was put by, the file is no newer than the oldest of them, and the table an
outermost commit saw is the one it writes. `RootsProve` is for a tree of any depth: the way down to an
account stays with the leaves that share its upper bits, so what is left at the end is its own leaf or
none; walking up from there is, at every height, at the root of the subtree passed on the way down;
and since a node's hash tells both halves, whoever ends at the root with the same siblings was at the
same subtree all the way. `OkIsLawful` is for every tree that may be checked out, every submitter and
every program submitted. A report is a signed record, and one that says `ok` passed all eight checks, among
them that the program it names is the one that was proved and is pinned. For a transfer there is a
second run, and what it shows is about the machine: a transfer of the shape the boot check attests
compares the two sums in its sixth instruction and logs the answer first. `ComparesSums` says, for
each of the twelve places in that program, what the registers and the events hold by then, so a run
whose first event is one has equal sums. Once judged, nothing the verdict speaks of changes.

**`MachineProofs`**, for any programs, sizes, entry files, windows, offered witnesses and claims: `GateCircuitProvesRuns`,
`LaneProvesRunsOfTheFile`, `LaneProvesOnlyRuns`. The invariant keeps the rows of a run beside the machine
that left them: each continues the one before and says what the machine's step did, the machine stands
where the last one leads, and a run that stopped names its reason. A row is accepted exactly when its
word is one the judge admits, which makes `LaneProvesRunsOfTheFile` an equivalence: for the converse
one row with a field outside the file, or one bit above the immediate, is enough to fail the whole. An offered witness is then
compared with the program's own run row by row, by the least row at which they differ. Two lemmas
carry the arithmetic: `OneQuotient` says that a carry or a quotient in range leaves one choice for the
result, `ResultSettled` that this is the word the machine computes. Jump targets count on in the
circuit and wrap in the machine, so those outside the program are the case to watch: neither has an
instruction there. That a wrapped target can not come back inside is `ImmediatesAssumption`: an
immediate has 32 bits, a word 64.

`HintsForceResults`, for any word of two digits, any prime of that shape, any hash and any program,
says what it takes to believe a row of the zk machine: that the columns a prover fills in as he likes
(carries, bits, inverses, differences) leave one result. Per opcode the argument is another one. A
quotient: the flag is 1 exactly at a divisor of zero, and elsewhere the product with the divisor fixes
the field's one quotient (`Divides`). Equality: a difference times its inverse is 1, so the flag can
not be chosen. Words: bits that add up to a value in the field need not be the value's own, since the
word is wider than the field; the test of the upper digit (all ones only over a lower digit of zero)
keeps their sum below `P`, and then they are (`CanonicalBits`). A comparison goes down the bits, and
the first that differ decide. What the rules admit is then a function of the operands in the row; that
the row the machine wrote holds the same function of the same operands is the inductive invariant
`ZkInv`: the machine is typed, and the last row of an instruction in `Pure` holds `OpValue` of its two
registers. The assumptions are `MachineAssumption` (the sizes; every number below `P` but zero has an
inverse; the hash stays in the field) and `HostAssumption` (what the host hands over are numbers, the
registers a program names exist, a slot's immediate has half a word).

**`SumTheorems`** holds what these proofs need of sums over finite sets (adding an element, changing
one summand, splitting a set, bounding a sum by that of a larger one). The library's induction
theorems take an operator as a parameter, which the installed provers cannot instantiate; the laws
are proved here by a least counterexample instead: strict inclusion of finite subsets, and `<` on the
naturals, are well founded, so a set of counterexamples would have a least one, and taking an element
off it gives a smaller.

Only model-checked:

- liveness (`PinnedHeightIsWorkedOff`, `BurnsAreReleased`): fairness and ENABLED are out of the
  prover's reach;
- `CompiledMeansSource`, `CompiledRunsAreProved`: they speak of the compiler, whose definitions are
  recursive operators over syntax, of which the prover can prove nothing;
- `ZkRunsAreProvable`: that the honest tables satisfy every constraint is a statement about whole
  tables: the rows of a run sorted by cell, counted with multiplicity, and balanced against each
  other. Proving it takes the theory of sorting and of multisets over sequences, by induction
  over the data; the direction soundness rests on, that a row admits one result, is proved above.

## 6. What is not modelled

`PROJECT.json` gives the reason per component. In short: the api functions, frontends, tools and
scripts do I/O around the protocol and keep none of its state; the polynomial commitment scheme and
the transcript of the STARK prover are far beyond TLC's integers; the second, self-written STARK in
`zk-proof/src/zk_stark` is not used by the relay.

Left out inside modelled components: TTL upkeep; wire formats; `fee_bps` and `min_fee`, which the
gateway stores and never reads; the relayer's Groth16 lane, which the program refuses to run by
default; `initialize` of the Gate 2.0 contracts, which is their initial state; the challenge of the
anchor's sessions, its rate limit, and Horizon's page limit of 50; the zk machine's commitments of
`VerifyInference` to memory and the columns its tables copy from the public inputs; the note registry
and `save` inside a transaction of `zk-state`; characters and spans of the lexer.

## 7. Plan

1. Proofs: what `ZkRunsAreProvable` says of a single row and of two rows in a row.
2. `NoncesFollowTheChain` of the source as a theorem about the composition with the adapter.
3. The lexer's characters, if a property of the language comes to depend on them.

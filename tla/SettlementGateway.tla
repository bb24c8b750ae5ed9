-------------------------- MODULE SettlementGateway --------------------------
(***************************************************************************)
(* The settlement contract of contracts/settlement_gateway: it mints the   *)
(* wrapped asset for messages committed by an event root the registry      *)
(* holds, and burns it again for the way back.  Every action is one        *)
(* successful call; a failing call is rolled back by the host.  The        *)
(* registry is read through the variable "finalized", about whose          *)
(* evolution this module assumes nothing: RegistryMoves rewrites it freely.*)
(***************************************************************************)
EXTENDS Integers, Sequences, Sums

CONSTANTS
    Accounts,       \* addresses that hold the token and sign calls
    DeadAdmin,      \* what renounce_admin installs as admin
    Gateway,        \* the contract's own address
    Target,         \* sha256("lumen-gate-stellar-testnet")
    Home,           \* the 32 zero bytes outbound messages name as their source
    SourceDomains,  \* domains the registry may hold
    OutDomains,     \* target domains a holder may name in an outbound call: any
                    \* 32 bytes, the gateway's own domain among them
    Heights,        \* source heights
    Roots, None,    \* roots, and the absent registry entry
    Messages,       \* inbound messages anybody may present; a message is its
                    \* content, since its id and payload hash are derived from
                    \* it; of a domain the registry cannot hold nothing settles
    Leaves(_),      \* the messages an event root commits to
    Amounts,        \* amounts of outbound calls
    Fees,           \* fee arguments of the relayed entry points
    Expiries,       \* expiry heights of outbound calls
    InitialBalance, \* the token before the first call
    MaxLedger,      \* bound: last ledger
    MaxCalls        \* bound: inbound plus outbound messages

ASSUME GatewayConstants ==
    /\ IsFiniteSet(Accounts)
    /\ Gateway \notin Accounts /\ DeadAdmin \notin Accounts \cup {Gateway}
    /\ Home \notin SourceDomains /\ Target \in OutDomains
    /\ Amounts \subseteq Int /\ Fees \subseteq Int
    /\ InitialBalance \in [Accounts \cup {Gateway} -> Nat]
    /\ MaxLedger \in Nat /\ MaxCalls \in Nat
    /\ \A m \in Messages : m.source \in SourceDomains /\ m.target \in OutDomains
                           /\ m.nonce \in Nat /\ m.sender \in Accounts
                           /\ m.recipient \in Accounts \cup {Gateway} /\ m.amount \in Int

VARIABLES
    admin,      \* DataKey::Admin
    collector,  \* FeeConfig.collector
    highWater,  \* DataKey::HighWater, keyed by (source, target, sender)
    outbound,   \* DataKey::OutboundNonceFull, keyed by (target, sender)
    processed,  \* DataKey::ProcessedMessage
    rewards,    \* DataKey::RelayerReward
    balance,    \* the token's ledger
    mints,      \* the "mint" events, in order
    burns,      \* the "burn" events, in order
    locks,      \* the "lock" events, in order
    ledger,     \* the ledger sequence
    finalized   \* the registry's FinalizedFull table, only read here

contractVars == <<admin, collector, highWater, outbound, processed, rewards, balance,
                  mints, burns, locks>>
gatewayVars == <<contractVars, ledger, finalized>>

-----------------------------------------------------------------------------

Holders == Accounts \cup {Gateway}
Keys == (SourceDomains \cup {Home}) \X OutDomains \X Accounts

\* An unset high-water mark: every nonce is above it.
NoMark == -1

Init ==
    /\ admin \in Accounts
    /\ collector = admin
    /\ highWater = [k \in Keys |-> NoMark]
    /\ outbound = [k \in OutDomains \X Accounts |-> 0]
    /\ processed = {}
    /\ rewards = [a \in Accounts |-> 0]
    /\ balance = InitialBalance
    /\ mints = << >> /\ burns = << >> /\ locks = << >>
    /\ ledger = 0
    /\ finalized = [d \in SourceDomains |-> [h \in Heights |-> None]]

Calls == Len(mints) + Len(burns) + Len(locks)

-----------------------------------------------------------------------------
(* Administration.                                                         *)

RenounceAdmin(a) ==
    /\ admin = a
    /\ admin' = DeadAdmin
    /\ UNCHANGED <<collector, highWater, outbound, processed, rewards, balance,
                   mints, burns, locks, ledger, finalized>>

\* fee_bps and min_fee are stored and never read; only the collector matters.  A call
\* that names more than 1000 basis points is refused and changes nothing.
SetFeeConfig(a, c) ==
    /\ admin = a
    /\ collector' = c
    /\ UNCHANGED <<admin, highWater, outbound, processed, rewards, balance,
                   mints, burns, locks, ledger, finalized>>

-----------------------------------------------------------------------------
(* Inbound messages.                                                       *)

KeyOf(m) == <<m.source, m.target, m.sender>>

\* Mutant: only the last nonce counts as processed.
IsProcessedLastOnly(m) == m.nonce = highWater[KeyOf(m)]

IsProcessed(m) == m.nonce <= highWater[KeyOf(m)]

\* The checks before the high-water mark is looked up.
WellAddressed(m) ==
    /\ m.target = Target
    /\ m.kind \in {"Lock", "Mint"}
    /\ m.amount > 0
    /\ m.height <= m.expiry

\* The call fails with AlreadyProcessed, the error the relayer takes for "this
\* message was already minted".
InboundAlreadyProcessed(m) == WellAddressed(m) /\ IsProcessed(m)

\* Mutant: a finalised height is enough, no Merkle proof.
CommittedByHeight(m) == m.height \in Heights /\ finalized[m.source][m.height] # None

Committed(m) ==
    /\ m.height \in Heights
    /\ finalized[m.source][m.height] # None
    /\ m \in Leaves(finalized[m.source][m.height].event)

\* finalize_inbound_internal accepts m with this fee.
InboundAccepts(m, fee) ==
    /\ WellAddressed(m)
    /\ ~IsProcessed(m)
    /\ Committed(m)
    /\ m \notin processed
    /\ m.amount - fee > 0

\* Mutant: the fee comes on top of the amount.
CreditFeeOnTop(b, m, receiver, fee) ==
    LET paid == [b EXCEPT ![m.recipient] = @ + m.amount]
    IN  IF fee > 0 THEN [paid EXCEPT ![receiver] = @ + fee] ELSE paid

\* What the recipient and the fee's receiver are minted.
Credit(b, m, receiver, fee) ==
    LET paid == [b EXCEPT ![m.recipient] = @ + (m.amount - fee)]
    IN  IF fee > 0 THEN [paid EXCEPT ![receiver] = @ + fee] ELSE paid

\* Mutant: the mark is the next nonce expected.
MarkNextExpected(m) == highWater' = [highWater EXCEPT ![KeyOf(m)] = m.nonce + 1]

MarkProcessed(m) == highWater' = [highWater EXCEPT ![KeyOf(m)] = m.nonce]

FinalizeInternal(m, receiver, fee) ==
    /\ InboundAccepts(m, fee)
    /\ MarkProcessed(m)
    /\ processed' = processed \cup {m}
    /\ balance' = Credit(balance, m, receiver, fee)
    /\ mints' = Append(mints, [msg |-> m, receiver |-> receiver, fee |-> fee])
    /\ UNCHANGED <<admin, collector, outbound, burns, locks, ledger, finalized>>

\* finalize_inbound and its tooling twin: no relayer, no fee.
FinalizeInbound(m) ==
    /\ FinalizeInternal(m, m.recipient, 0)
    /\ UNCHANGED rewards

\* RelayerReward[relayer] accumulates what the relayer was minted.
Reward(relayer, fee) ==
    rewards' = IF fee > 0 THEN [rewards EXCEPT ![relayer] = @ + fee] ELSE rewards

\* finalize_inbound_gasless and its tooling twin bound the fee first.
FeeInRange(m, fee) == fee >= 0 /\ m.amount > fee

FinalizeInboundGasless(relayer, m, fee) ==
    /\ FeeInRange(m, fee)
    /\ FinalizeInternal(m, relayer, fee)
    /\ Reward(relayer, fee)

\* finalize_inbound_sponsored passes the fee on as it is.
FinalizeInboundSponsored(sponsor, m, fee) ==
    /\ FinalizeInternal(m, sponsor, fee)
    /\ Reward(sponsor, fee)

-----------------------------------------------------------------------------
(* Outbound messages.                                                      *)

NextNonce(to, from) == outbound[<<to, from>>]

\* Mutant: next_nonce does not store the advanced counter.
AdvanceForgotten(to, from) == UNCHANGED outbound
AdvanceNonce(to, from) == outbound' = [outbound EXCEPT ![<<to, from>>] = @ + 1]

OutboundMessage(from, amount, to, expiry, kind) ==
    [source |-> Home, target |-> to, height |-> ledger, nonce |-> NextNonce(to, from),
     sender |-> from, recipient |-> from, amount |-> amount, kind |-> kind,
     expiry |-> expiry]

CanPay(from, amount) == balance[from] >= amount

Escrow(from, amount) == [balance EXCEPT ![from] = @ - amount, ![Gateway] = @ + amount]

\* The tokens move to the contract; no entry point ever moves them out again.
LockAndRelay(from, amount, to, expiry) ==
    /\ amount > 0
    /\ CanPay(from, amount)
    /\ balance' = Escrow(from, amount)
    /\ locks' = Append(locks, OutboundMessage(from, amount, to, expiry, "Lock"))
    /\ AdvanceNonce(to, from)
    /\ UNCHANGED <<admin, collector, highWater, processed, rewards, mints, burns,
                   ledger, finalized>>

\* The expiry is published, not compared with the ledger.
BurnAndRelay(from, amount, to, expiry) ==
    LET m == OutboundMessage(from, amount, to, expiry, "Burn")
    IN  /\ amount > 0
        /\ CanPay(from, amount)
        /\ ~IsProcessed(m)
        /\ balance' = [balance EXCEPT ![from] = @ - amount]
        /\ AdvanceNonce(to, from)
        /\ MarkProcessed(m)
        /\ burns' = Append(burns, m)
        /\ UNCHANGED <<admin, collector, processed, rewards, mints, locks, ledger, finalized>>

-----------------------------------------------------------------------------
(* The surroundings.                                                       *)

CloseLedger ==
    /\ ledger < MaxLedger
    /\ ledger' = ledger + 1
    /\ UNCHANGED <<contractVars, finalized>>

\* Any registry: entries appear, and are overwritten, in any order.
RegistryMoves(d, h, record) ==
    /\ finalized' = [finalized EXCEPT ![d][h] = record]
    /\ UNCHANGED <<contractVars, ledger>>

InboundCall ==
    \E m \in Messages :
        \/ FinalizeInbound(m)
        \/ \E relayer \in Accounts, fee \in Fees :
              \/ FinalizeInboundGasless(relayer, m, fee)
              \/ FinalizeInboundSponsored(relayer, m, fee)

OutboundCall ==
    \E from \in Accounts, amount \in Amounts, to \in OutDomains, expiry \in Expiries :
        \/ LockAndRelay(from, amount, to, expiry)
        \/ BurnAndRelay(from, amount, to, expiry)

Next ==
    \/ \E a \in Accounts : RenounceAdmin(a) \/ \E c \in Accounts : SetFeeConfig(a, c)
    \/ Calls < MaxCalls /\ InboundCall
    \/ Calls < MaxCalls /\ OutboundCall
    \/ CloseLedger
    \/ \E d \in SourceDomains, h \in Heights, r \in Roots :
          RegistryMoves(d, h, [root |-> r, event |-> r])

Spec == Init /\ [][Next]_gatewayVars

-----------------------------------------------------------------------------
(* Correctness.                                                            *)

MintRecords == [msg : Messages, receiver : Holders, fee : Fees \cup {0}]
OutboundRecords == [source : {Home}, target : OutDomains, height : Nat, nonce : Nat,
                    sender : Accounts, recipient : Accounts, amount : Amounts,
                    kind : {"Lock", "Burn"}, expiry : Expiries]

\* Every entry of the contract's storage has the shape its type declares.
TypeOK ==
    /\ admin \in Accounts \cup {DeadAdmin}
    /\ collector \in Accounts
    /\ highWater \in [Keys -> Nat \cup {NoMark}]
    /\ outbound \in [OutDomains \X Accounts -> Nat]
    /\ processed \subseteq Messages
    /\ rewards \in [Accounts -> Nat]
    /\ balance \in [Holders -> Nat]
    /\ mints \in Seq(MintRecords)
    /\ burns \in Seq(OutboundRecords) /\ locks \in Seq(OutboundRecords)
    /\ ledger \in Nat

\* The messages of one sender settle in the order of their nonces, so none
\* settles twice, whatever the registry says in between and whoever calls.
SettledInOrder ==
    \A i, j \in DOMAIN mints :
        i < j /\ KeyOf(mints[i].msg) = KeyOf(mints[j].msg) =>
            mints[i].msg.nonce < mints[j].msg.nonce

Settled == {mints[i].msg : i \in DOMAIN mints}

\* The mark of a key is the nonce of a message that settled or burned under it,
\* and none of those is above it: what the mark refuses is exactly what it was
\* raised past, and it was never raised for nothing.
MarkIsLastNonce ==
    /\ \A m \in Settled \cup Range(burns) : IsProcessed(m)
    /\ \A k \in Keys : highWater[k] # NoMark =>
          \E m \in Settled \cup Range(burns) : KeyOf(m) = k /\ m.nonce = highWater[k]

\* The per-message record and the high-water mark are two stores of one call:
\* a message on record is never above its mark, so the second replay check can
\* never be the one that refuses.
ProcessedBelowMark == \A m \in processed : IsProcessed(m)

\* The nonce a burn is about to use is above the mark of its key, so the replay
\* check inside burn_and_relay never refuses a holder.
BurnNeverReplayed ==
    \A to \in OutDomains, from \in Accounts : highWater[<<Home, to, from>>] < NextNonce(to, from)

\* No two outbound messages carry the same target, sender and nonce, although
\* locks and burns draw from one counter and only burns raise a mark.
OutboundNoncesUnique ==
    /\ \A i, j \in DOMAIN locks : i # j =>
          <<KeyOf(locks[i]), locks[i].nonce>> # <<KeyOf(locks[j]), locks[j].nonce>>
    /\ \A i, j \in DOMAIN burns : i # j =>
          <<KeyOf(burns[i]), burns[i].nonce>> # <<KeyOf(burns[j]), burns[j].nonce>>
    /\ \A i \in DOMAIN locks, j \in DOMAIN burns :
          <<KeyOf(locks[i]), locks[i].nonce>> # <<KeyOf(burns[j]), burns[j].nonce>>

AmountsOf(calls) == [i \in DOMAIN calls |-> calls[i].amount]
LockedAmounts == [i \in DOMAIN mints |-> mints[i].msg.amount]
FeesOf(a) == [i \in DOMAIN mints |->
                 IF mints[i].receiver = a /\ mints[i].fee > 0 THEN mints[i].fee ELSE 0]
Supply == SumOf(balance, Holders)
InitialSupply == SumOf(InitialBalance, Holders)

\* Two ledgers kept by different lines agree through any order of mints, locks
\* and burns: the supply is what was there, plus what the settled messages locked
\* on the source, less what was burned; the rewards get_relayer_reward reports
\* are the fees minted; and what holders locked stays with the contract.
BooksBalance ==
    /\ Supply + SumOf(AmountsOf(burns), DOMAIN burns)
          = InitialSupply + SumOf(LockedAmounts, DOMAIN mints)
    /\ \A a \in Accounts : rewards[a] = SumOf(FeesOf(a), DOMAIN mints)
    /\ balance[Gateway] >= InitialBalance[Gateway] + SumOf(AmountsOf(locks), DOMAIN locks)

\* No step takes a mark back, so a message refused as already processed is
\* refused for good.
MarksMoveForward ==
    [][\A k \in Keys : highWater'[k] >= highWater[k]]_gatewayVars

\* What the contract promises whoever holds messages and tokens.
Promise == INSTANCE BridgePromise WITH
    settled <- Settled,
    sent <- Range(locks) \cup Range(burns),
    held <- finalized
PromiseKept == Promise!Spec

\* The comment in finalize_inbound_sponsored: "same logic as gasless", whose fee
\* is between nothing and the amount.
FeeWithinAmount ==
    \A i \in DOMAIN mints : mints[i].fee >= 0 /\ mints[i].fee < mints[i].msg.amount
=============================================================================

----------------------------- MODULE GateClaim -----------------------------
(***************************************************************************)
(* gate_claim: consumes a burn message Circle attests, measures what was   *)
(* minted and hands it out between the relayer, the recipient's battery    *)
(* and the recipient or a ticket.                                          *)
(***************************************************************************)
EXTENDS GateTicket

CONSTANTS
    Claim,          \* the contract's own address
    BurnRouterAddress, \* the only sender it takes messages from
    Allowed,        \* the source domains it takes messages from
    MaxRelayFee     \* MAX_RELAY_FEE_7

ASSUME ClaimIsAContract == Claim \in Contracts \ {Battery, Vault}
ASSUME MaxRelayFeeNatural == MaxRelayFee \in Nat

VARIABLES
    received,   \* the messages Circle's transmitter has consumed
    claimed,    \* DataKey::MsgHash
    proofs,     \* DataKey::Proof, in the order of their ids
    summary     \* DataKey::Mig, total and count of each recipient

claimVars == <<received, claimed, proofs, summary>>

\* Amounts of messages and hooks have 6 decimals, amounts on Stellar 7.
In7(amount) == amount * 10

\* The header and the body name this contract, its token and its router.
Verified(m) == m.domain \in Allowed /\ m.sender = BurnRouterAddress

\* parse_hook: the recipient is an account or a contract.
HookParses(m) == m.recipient.class \in {"G", "C"}

FeeWithinCeilings(m, relayFee) ==
    /\ 0 <= relayFee /\ relayFee <= m.relayFeeCap
    /\ In7(relayFee) <= MaxRelayFee

\* Mutant: two messages of one amount for one recipient are taken for one.
SameInstruction(m) ==
    \E c \in claimed : c.recipient = m.recipient /\ c.amount = m.amount
MessageAlreadyClaimed(m) == m \in claimed

\* receive_message: Circle mints the amount less its fee to the claim.
Minted(m) == In7(m.amount - m.feeExecuted)
Received(held, m) == [held EXCEPT ![Claim] = @ + Minted(m)]

Rest(m, relayFee) == Minted(m) - In7(relayFee) - In7(m.batteryAmount)

TicketMode(m) == m.mod = 1
Destination(m) == IF TicketMode(m) THEN Vault ELSE m.recipient.address

\* Every branch of the distribution, one transfer after the other.
AfterRelay(held, m, relayer, relayFee) ==
    IF relayFee > 0 THEN Sent(held, Claim, relayer, In7(relayFee)) ELSE held
AfterBattery(held, m) ==
    IF m.batteryAmount > 0 THEN Sent(held, Claim, Battery, In7(m.batteryAmount)) ELSE held
Distributed(m, relayer, relayFee) ==
    LET paid == AfterBattery(AfterRelay(Received(money, m), m, relayer, relayFee), m)
    IN  Sent(paid, Claim, Destination(m), Rest(m, relayFee))

\* Everything claim checks, its transfers' conditions included.
ClaimAccepts(m, relayer, relayFee) ==
    /\ Verified(m)
    /\ HookParses(m)
    /\ FeeWithinCeilings(m, relayFee)
    /\ ~MessageAlreadyClaimed(m)
    /\ m \notin received
    /\ Minted(m) > 0
    /\ In7(relayFee) + In7(m.batteryAmount) < Minted(m)
    /\ relayFee > 0 => CanHold(relayer)
    /\ CanHold(Destination(m))

MigrationProof(m, relayFee) ==
    [message |-> m, owner |-> m.recipient.address,
     amount |-> Minted(m) \div 10, relay |-> relayFee]

\* The passport: a proof that is kept, and the recipient's running total.
Passport(m, relayFee) ==
    /\ proofs' = Append(proofs, MigrationProof(m, relayFee))
    /\ summary' = [summary EXCEPT ![m.recipient.address] =
                       [total |-> @.total + Minted(m) \div 10, count |-> @.count + 1]]

ClaimMessage(m, relayer, relayFee) ==
    /\ ClaimAccepts(m, relayer, relayFee)
    /\ received' = received \cup {m}
    /\ money' = Distributed(m, relayer, relayFee)
    /\ \/ m.batteryAmount > 0 /\ Credit(m.recipient.address, In7(m.batteryAmount))
       \/ m.batteryAmount = 0 /\ UNCHANGED bal
    /\ \/ TicketMode(m) /\ MintTicket(m.recipient.address, Rest(m, relayFee), m)
       \/ ~TicketMode(m) /\ UNCHANGED ticketVars
    /\ claimed' = claimed \cup {m}
    /\ Passport(m, relayFee)
    /\ UNCHANGED <<trusting, used, ledger>>
=============================================================================

------------------------------- MODULE Gate2 -------------------------------
(***************************************************************************)
(* Gate 2 as a whole: burns through the router on one chain, claims,       *)
(* tickets and batteries on the other.  Anybody may carry a message over;  *)
(* owners sign what concerns their money.                                  *)
(***************************************************************************)
EXTENDS GateClaim, BurnRouter

CONSTANTS
    InitialMoney,   \* account -> USDC it holds, with a trustline
    Payees,         \* whom tickets are paid or given to
    Relayers,       \* whom a claim may name as relayer
    Requests,       \* the calls owners sign for relayers
    MoveAmounts,    \* what is deposited and withdrawn
    SplitParts,     \* the two parts of a split
    MaxTickets,     \* bound on ticket ids
    MaxLedger       \* bound on ledgers

\* Everybody named in a call has an address, and a ledger has finitely many.
ASSUME Gate2Constants ==
    /\ IsFiniteSet(Addresses)
    /\ DOMAIN InitialMoney \subseteq Accounts
    /\ \A a \in DOMAIN InitialMoney : InitialMoney[a] \in Nat
    /\ Payees \subseteq Addresses /\ Relayers \subseteq Addresses
    /\ \A r \in Recipients : r.class \in {"G", "C"} => r.address \in Addresses
    /\ \A r \in Requests : r.owner \in Accounts /\ r.relayer \in Addresses
                            /\ r.to \in Addresses /\ r.fee \in Int
    /\ MoveAmounts \subseteq Int /\ SplitParts \subseteq Int

\* The claim was deployed for this router.
ASSUME BoundToRouter == Router = BurnRouterAddress /\ SourceDomain \in Allowed

VARIABLE forwards   \* the signed requests that took effect, in order

vars == <<usdcVars, batteryVars, ticketVars, claimVars, burns, forwards>>

Init ==
    /\ money = [a \in Addresses |-> IF a \in DOMAIN InitialMoney THEN InitialMoney[a] ELSE 0]
    /\ trusting = DOMAIN InitialMoney
    /\ bal = [a \in Addresses |-> 0]
    /\ used = {}
    /\ ledger = 0
    /\ tickets = << >>
    /\ ownerOf = << >>
    /\ index = [a \in Addresses |-> << >>]
    /\ nextId = 0
    /\ liveTotal = 0
    /\ received = {}
    /\ claimed = {}
    /\ proofs = << >>
    /\ summary = [a \in Addresses |-> [total |-> 0, count |-> 0]]
    /\ burns = << >>
    /\ forwards = << >>

\* What a signed request makes the battery call, after the fee has left.
Called(r) ==
    \/ /\ r.call = "other"
       /\ money' = AfterFee(r)
       /\ UNCHANGED ticketVars
    \/ /\ r.call = "transfer"
       /\ money' = AfterFee(r)
       /\ TransferTicket(r.owner, r.to, r.id)
    \/ /\ r.call = "redeem"
       /\ Redeem(AfterFee(r), r.owner, r.id, r.to)

Forward(r) ==
    /\ Charge(r)
    /\ Called(r)
    /\ forwards' = Append(forwards, r)
    /\ UNCHANGED <<claimVars, burns>>

BatteryStep ==
    /\ \E owner \in Accounts, amount \in MoveAmounts :
          \/ \E other \in Accounts : Deposit(owner, other, amount)
          \/ Withdraw(owner, amount)
    /\ UNCHANGED <<ticketVars, claimVars, burns, forwards>>

TicketStep ==
    /\ \E owner \in Accounts, id \in Live :
          \/ /\ \/ \E to \in Payees : Redeem(money, owner, id, to)
                \/ \E to \in Payees : TransferTicket(owner, to, id) /\ UNCHANGED money
                \/ \E first, second \in SplitParts :
                      /\ nextId + 1 < MaxTickets
                      /\ Split(owner, id, <<first, second>>)
                      /\ UNCHANGED money
             /\ UNCHANGED <<trusting, batteryVars>>
          \/ RedeemToBattery(owner, id)
    /\ UNCHANGED <<claimVars, burns, forwards>>

ClaimStep ==
    /\ nextId < MaxTickets
    /\ \E m \in Range(burns), relayer \in Relayers :
          \E relayFee \in 0..m.relayFeeCap : ClaimMessage(m, relayer, relayFee)
    /\ UNCHANGED <<burns, forwards>>

Next ==
    \/ RouterStep /\ UNCHANGED <<usdcVars, batteryVars, ticketVars, claimVars, forwards>>
    \/ ClaimStep
    \/ BatteryStep
    \/ TicketStep
    \/ \E r \in Requests : Forward(r)
    \/ /\ \E a \in Accounts : OpenTrustline(a) \/ CloseTrustline(a)
       /\ UNCHANGED <<batteryVars, ticketVars, claimVars, burns, forwards>>
    \/ /\ ledger < MaxLedger
       /\ ledger' = ledger + 1
       /\ UNCHANGED <<usdcVars, bal, used, ticketVars, claimVars, burns, forwards>>

Spec == Init /\ [][Next]_vars

-----------------------------------------------------------------------------
(* Correctness.                                                            *)

Worth == [id \in Live |-> tickets[id].amount]

\* Vault and battery always hold what they owe: the vault what its live tickets
\* are worth, the battery the balances of its owners together, through claims,
\* splits, transfers, redemptions and calls carried by relayers.
OwedIsHeld ==
    /\ liveTotal = SumOf(Worth, Live)
    /\ money[Vault] >= liveTotal
    /\ money[Battery] >= SumOf(bal, Addresses)

\* A ticket is listed once, with its owner, and a ticket that is gone nowhere.
IndexNamesOwners ==
    \A a \in Addresses :
        /\ Range(index[a]) = {id \in Live : ownerOf[id] = a}
        /\ IsInjective(index[a])

\* Two signed requests that share an owner and a nonce never both take effect.
ForwardedOnce ==
    \A i, j \in DOMAIN forwards :
        i # j => <<forwards[i].owner, forwards[i].nonce>> # <<forwards[j].owner, forwards[j].nonce>>

\* The destination of a burn can take the money.
Open(m) == TicketMode(m) \/ CanHold(m.recipient.address)

\* A burn of the router's that reaches Stellar with more than its battery share,
\* for a recipient the claim reads, can be claimed until it is: no other claim,
\* ticket, battery or trustline operation closes the way.
ClaimsStayOpen ==
    \A m \in Range(burns) :
        (/\ m.sender = Router
         /\ m.recipient.class # "M"
         /\ m.amount - m.feeExecuted > m.batteryAmount
         /\ Open(m)
         /\ \A i \in DOMAIN proofs : proofs[i].message # m)
        => ClaimAccepts(m, m.recipient.address, 0)

\* BurnRouter.sol:124: the recipient is a "Stellar strkey (G, C or M class) that
\* must land the funds": every burn of the router's can be claimed or was.
EveryBurnIsClaimable ==
    \A m \in Range(burns) :
        m.sender = Router /\ Open(m) => m \in claimed \/ ClaimAccepts(m, m.recipient.address, 0)
=============================================================================

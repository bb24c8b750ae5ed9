----------------------------- MODULE GateTicket -----------------------------
(***************************************************************************)
(* gate_ticket: bearer rights to USDC that lies in the contract's vault.   *)
(***************************************************************************)
EXTENDS GateBattery, Sums, Sequences, SequencesExt

CONSTANT Vault      \* the contract's own address

ASSUME VaultIsAContract == Vault \in Contracts \ {Battery}

VARIABLES
    tickets,    \* DataKey::Ticket, id -> amount and the message it came from
    ownerOf,    \* DataKey::OwnerOf
    index,      \* DataKey::Index, owner -> ids
    nextId,     \* DataKey::NextId
    liveTotal   \* DataKey::LiveTotal

ticketVars == <<tickets, ownerOf, index, nextId, liveTotal>>

Live == DOMAIN tickets

\* burn_internal and transfer copy an owner's list, one id after the other.
Without(ids, id) ==
    LET kept[n \in 0..Len(ids)] ==
            IF n = 0 THEN << >>
            ELSE IF ids[n] = id THEN kept[n - 1]
            ELSE Append(kept[n - 1], ids[n])
    IN  kept[Len(ids)]

\* store_new_ticket, once for each amount: consecutive ids, all of one owner.
NewIds(amounts) == [i \in DOMAIN amounts |-> nextId + i - 1]
Stored(amounts, origin) ==
    [id \in Live \cup Range(NewIds(amounts)) |->
        IF id \in Live THEN tickets[id]
        ELSE [amount |-> amounts[id - nextId + 1], origin |-> origin]]
StoredOwner(amounts, owner) ==
    [id \in Live \cup Range(NewIds(amounts)) |-> IF id \in Live THEN ownerOf[id] ELSE owner]
Total(amounts) == SumOf(amounts, DOMAIN amounts)

\* mint_ticket, which only the bound minter, the claim, can call.
MintTicket(to, amount, origin) ==
    /\ amount > 0
    /\ tickets' = Stored(<<amount>>, origin)
    /\ ownerOf' = StoredOwner(<<amount>>, to)
    /\ index' = [index EXCEPT ![to] = Append(@, nextId)]
    /\ nextId' = nextId + 1
    /\ liveTotal' = liveTotal + amount

\* burn_internal.
BurnTicket(id) ==
    /\ tickets' = Restrict(tickets, Live \ {id})
    /\ ownerOf' = Restrict(ownerOf, Live \ {id})
    /\ index' = [index EXCEPT ![ownerOf[id]] = Without(@, id)]
    /\ liveTotal' = liveTotal - tickets[id].amount
    /\ UNCHANGED nextId

\* Mutant: the new owner's list is written before the old owner's.
IndexSwapped(from, to, id) ==
    LET given == [index EXCEPT ![to] = Append(@, id)]
    IN  [given EXCEPT ![from] = Without(@, id)]
IndexMoved(from, to, id) ==
    LET taken == [index EXCEPT ![from] = Without(@, id)]
    IN  [taken EXCEPT ![to] = Append(@, id)]

TransferTicket(from, to, id) ==
    /\ id \in Live
    /\ ownerOf[id] = from
    /\ ownerOf' = [ownerOf EXCEPT ![id] = to]
    /\ index' = IndexMoved(from, to, id)
    /\ UNCHANGED <<tickets, nextId, liveTotal>>

\* redeem: pay first, burn second, over the balances the transaction has so far.
Redeem(held, owner, id, to) ==
    /\ id \in Live
    /\ ownerOf[id] = owner
    /\ CanSend(held, Vault, to, tickets[id].amount)
    /\ money' = Sent(held, Vault, to, tickets[id].amount)
    /\ BurnTicket(id)

RedeemToBattery(owner, id) ==
    /\ id \in Live
    /\ ownerOf[id] = owner
    /\ Deposit(Vault, owner, tickets[id].amount)
    /\ BurnTicket(id)

\* Mutant: the sum of the parts is only compared from one side.
SplitWithin(id, amounts) ==
    amounts # << >> /\ (\A i \in DOMAIN amounts : amounts[i] > 0)
        /\ Total(amounts) >= tickets[id].amount
Splits(id, amounts) ==
    /\ amounts # << >>
    /\ \A i \in DOMAIN amounts : amounts[i] > 0
    /\ Total(amounts) = tickets[id].amount

\* split: the children are stored, then the parent is burned.
Split(owner, id, amounts) ==
    /\ id \in Live
    /\ ownerOf[id] = owner
    /\ Splits(id, amounts)
    /\ tickets' = Restrict(Stored(amounts, tickets[id].origin),
                           (Live \ {id}) \cup Range(NewIds(amounts)))
    /\ ownerOf' = Restrict(StoredOwner(amounts, owner),
                           (Live \ {id}) \cup Range(NewIds(amounts)))
    /\ index' = [index EXCEPT ![owner] = Without(@ \o NewIds(amounts), id)]
    /\ nextId' = nextId + Len(amounts)
    /\ liveTotal' = liveTotal + Total(amounts) - tickets[id].amount
=============================================================================

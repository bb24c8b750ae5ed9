---------------------------- MODULE GateBattery ----------------------------
(***************************************************************************)
(* gate_battery: USDC held for its owners, who take it back whenever they  *)
(* want and let relayers be paid out of it for carrying a signed call.     *)
(***************************************************************************)
EXTENDS Usdc

CONSTANT Battery    \* the contract's own address

ASSUME BatteryIsAContract == Battery \in Contracts

VARIABLES
    bal,        \* DataKey::Bal
    used,       \* DataKey::Nonce, the (owner, nonce) pairs
    ledger      \* the ledger's sequence number

batteryVars == <<bal, used, ledger>>

Credit(owner, amount) == bal' = [bal EXCEPT ![owner] = @ + amount]

\* deposit: anyone tops up anyone's battery.
Deposit(from, owner, amount) ==
    /\ amount > 0
    /\ CanSend(money, from, Battery, amount)
    /\ money' = Sent(money, from, Battery, amount)
    /\ Credit(owner, amount)
    /\ UNCHANGED <<trusting, used, ledger>>

Covers(owner, amount) == amount <= bal[owner]

Withdraw(owner, amount) ==
    /\ amount > 0
    /\ Covers(owner, amount)
    /\ CanSend(money, Battery, owner, amount)
    /\ bal' = [bal EXCEPT ![owner] = @ - amount]
    /\ money' = Sent(money, Battery, owner, amount)
    /\ UNCHANGED <<trusting, used, ledger>>

\* Mutant: a nonce is looked up without its owner's request, by the window only.
FreshInWindow(r) == ledger < r.expiry
FreshNonce(r) == ledger < r.expiry /\ <<r.owner, r.nonce>> \notin used

\* What forward checks of a signed request before it acts on it.
ForwardAccepts(r) ==
    /\ 0 <= r.fee /\ r.fee <= r.maxFee
    /\ FreshNonce(r)
    /\ Covers(r.owner, r.fee)
    /\ CanSend(money, Battery, r.relayer, r.fee)

\* Mutant: the fee is paid out of everybody's money.
ChargeForgotten(r) ==
    /\ ForwardAccepts(r)
    /\ used' = used \cup {<<r.owner, r.nonce>>}
    /\ UNCHANGED <<bal, trusting, ledger>>

\* The fee leaves first; a target that fails takes it back with the transaction.
Charge(r) ==
    /\ ForwardAccepts(r)
    /\ bal' = [bal EXCEPT ![r.owner] = @ - r.fee]
    /\ used' = used \cup {<<r.owner, r.nonce>>}
    /\ UNCHANGED <<trusting, ledger>>
AfterFee(r) == Sent(money, Battery, r.relayer, r.fee)
=============================================================================

------------------------------- MODULE Usdc -------------------------------
(***************************************************************************)
(* The USDC asset contract, as the contracts of Gate 2 use it: who holds   *)
(* how much, and who can hold it at all.  A classic account needs a        *)
(* trustline; a contract always can.                                       *)
(***************************************************************************)
EXTENDS Integers

CONSTANTS
    Accounts,   \* classic accounts, the ones that can sign
    Contracts   \* contract addresses

ASSUME AddressesDisjoint == Accounts \cap Contracts = {}

VARIABLES
    money,      \* address -> USDC held, 7 decimals
    trusting    \* the accounts with a trustline

usdcVars == <<money, trusting>>

Addresses == Accounts \cup Contracts

CanHold(a) == a \in Contracts \cup trusting

\* transfer, over a given state of the balances: one transaction makes several.
CanSend(held, from, to, amount) == held[from] >= amount /\ CanHold(from) /\ CanHold(to)
Sent(held, from, to, amount) ==
    LET debited == [held EXCEPT ![from] = @ - amount]
    IN  [debited EXCEPT ![to] = @ + amount]

\* A trustline is opened any time and closed when nothing is left on it.
OpenTrustline(a) ==
    /\ trusting' = trusting \cup {a}
    /\ UNCHANGED money

CloseTrustline(a) ==
    /\ a \in trusting
    /\ money[a] = 0
    /\ trusting' = trusting \ {a}
    /\ UNCHANGED money
=============================================================================

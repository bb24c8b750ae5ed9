------------------------------ MODULE MCGate2 ------------------------------
(* Small instances of Gate 2 for TLC. *)
EXTENDS Campaign

CONSTANTS Alice, Bob

MCRecipients ==
    {[class |-> "G", address |-> Alice], [class |-> "C", address |-> Vault]}
\* A 56-character strkey of the M class: the claim finds no address in it.
MCMuxed == {[class |-> "G", address |-> Alice], [class |-> "M", address |-> Alice]}

MCInitialMoney == [a \in {Bob} |-> 0]

\* Three requests of Alice's under one nonce: the relayer is told to redeem her
\* first ticket, or to give it to Bob; a third only pays.
Request(nonce, call, fee) ==
    [owner |-> Alice, relayer |-> Bob, fee |-> fee, maxFee |-> 10, expiry |-> 1,
     nonce |-> nonce, call |-> call, id |-> 0, to |-> Bob]
MCRequests == {Request(0, "redeem", 10), Request(0, "transfer", 0), Request(0, "other", 10)}

\* Tiers and stamps read at most the summaries and write tables of their own:
\* the instance hands stamps out before there are burns, and tiers before an
\* owner's ticket or battery is touched.  A ledger closes, and every request
\* with it, while no ticket is gone.
Bound ==
    /\ seq > 0 => burns = << >>
    /\ ledger > 0 => Cardinality(Live) = nextId
    /\ (\E a \in Accounts : tier[a] # 0) =>
          /\ forwards = << >> /\ ledger = 0 /\ bal[Bob] = 0
          /\ Cardinality(Live) = nextId /\ Range(index[Bob]) = {}
=============================================================================

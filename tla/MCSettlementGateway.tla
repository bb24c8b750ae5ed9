------------------------- MODULE MCSettlementGateway -------------------------
(* Small instances of SettlementGateway for TLC. *)
EXTENDS SettlementGateway, TLC

CONSTANTS Alice, Bob, SourceA, Foreign, EventsOne, EventsTwo

\* A message of Alice's: (height, nonce) tells the instance's messages apart.
Message(height, nonce, amount, kind, target) ==
    [source |-> SourceA, target |-> target, height |-> height, nonce |-> nonce,
     sender |-> Alice, recipient |-> Bob, amount |-> amount, kind |-> kind,
     expiry |-> 2]

\* Nonces 0 and 1 at two heights; nonce 0 again with another content, as a
\* source that restarts produces it; an expired message, one for another
\* target, one of a kind that is not settled, and one nobody committed to.
MCMessages == {Message(1, 0, 2, "Lock", Target), Message(2, 1, 2, "Mint", Target),
               Message(2, 0, 2, "Lock", Target), Message(1, 1, 2, "Burn", Target),
               Message(1, 1, 2, "Lock", Foreign),
               [Message(2, 2, 2, "Lock", Target) EXCEPT !.expiry = 1],
               Message(1, 2, 2, "Lock", Target)}

MCLeaves(r) ==
    IF r = EventsOne THEN {m \in MCMessages : m.height = 1 /\ m.nonce # 2}
                     ELSE {m \in MCMessages : m.height = 2}

MCInitialBalance == [a \in {Alice, Bob, Gateway} |-> IF a = Alice THEN 1 ELSE 0]

MCSignedFees == {-1, 0}
=============================================================================

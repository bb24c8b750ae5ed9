---------------------------- MODULE BridgePromise ----------------------------
(***************************************************************************)
(* What the settlement contract promises, without how it keeps it: no      *)
(* high-water marks, no per-message records, no token.  Messages settle    *)
(* one at a time, each while the registry commits to it, and on every      *)
(* route (source, target, sender) both the messages settled and the        *)
(* messages sent carry strictly increasing nonces.                         *)
(***************************************************************************)
EXTENDS Integers

CONSTANTS
    None,      \* an absent registry entry
    Leaves(_)  \* the messages an event root commits to

VARIABLES
    settled,  \* the messages the contract minted for
    sent,     \* the messages the contract published
    held      \* the registry's records: held[domain][height]

promiseVars == <<settled, sent, held>>

Route(m) == <<m.source, m.target, m.sender>>

\* m is later on its route than everything in S.
NewestIn(S, m) == \A n \in S : Route(n) = Route(m) => n.nonce < m.nonce

Init == settled = {} /\ sent = {}

Settle ==
    \E m \in settled' :
        /\ NewestIn(settled, m)
        /\ held[m.source][m.height] # None
        /\ m \in Leaves(held[m.source][m.height].event)
        /\ settled' = settled \cup {m}
        /\ UNCHANGED <<sent, held>>

Send ==
    \E m \in sent' :
        /\ NewestIn(sent, m)
        /\ sent' = sent \cup {m}
        /\ UNCHANGED <<settled, held>>

\* The registry is somebody else's.
RegistryMoves == UNCHANGED <<settled, sent>>

Spec == Init /\ [][Settle \/ Send \/ RegistryMoves]_promiseVars
=============================================================================

------------------------------ MODULE MCRelayer ------------------------------
(* Small instances of the relay for TLC. *)
EXTENDS Relayer

CONSTANTS Alice, Op

\* A message nobody locked, at the first height the source reaches.
ForgedMessage ==
    [source |-> Source, target |-> Target, height |-> 1, index |-> 0, nonce |-> 0,
     sender |-> Alice, recipient |-> Alice, amount |-> 2, kind |-> "Lock", expiry |-> 101]
MCForged == {ForgedMessage}
=============================================================================

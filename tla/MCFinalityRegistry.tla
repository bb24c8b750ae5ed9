-------------------------- MODULE MCFinalityRegistry --------------------------
(***************************************************************************)
(* A registry with one account able to be admin, one domain, two evidence  *)
(* versions and three heights.  The settlement evidence holds two signed   *)
(* blocks, a second signature at an occupied height (a rebuilt source      *)
(* chain), the same payload under the second version, a signature by       *)
(* another key, one that does not cover the event root and a Groth16       *)
(* evidence for an occupied height; the recording evidence is in and out   *)
(* of range and out of order.                                              *)
(***************************************************************************)
EXTENDS FinalityRegistry

CONSTANT d1

MCHeights == 0..2
MCRoots == {"zero", "rA", "rB", "eA", "eB"}

Key(c, b) == [circuit |-> c, bytes |-> b]
MCKeys == {Key("other", 768), Key("settle", 768), Key("step", 896), Key("gate", 896), Key("exec", 1920)}

Bls(d, v, h, root, event, signers, key) ==
    [domain |-> d, version |-> v, height |-> h, root |-> root,
     payload |-> [kind |-> "bls368", height |-> h, root |-> root, event |-> event,
                  signers |-> signers, required |-> 1, key |-> "k1",
                  sig |-> [key |-> key,
                           msg |-> [height |-> h, root |-> root, event |-> event]]]]
\* An event root the signature does not cover.
BlsOver(e, signed) == [e EXCEPT !.payload.sig.msg.event = signed]
Zk(h, root) ==
    [domain |-> d1, version |-> 1, height |-> h, root |-> root,
     payload |-> [kind |-> "zk40", height |-> h, root |-> root]]
Rec(kind, h, claim) ==
    [domain |-> d1, version |-> 1, height |-> h, root |-> "rB",
     payload |-> [kind |-> kind, height |-> h, root |-> "rB", claim |-> claim]]

StepClaim(n) == [start |-> "rA", event |-> "eA", length |-> n]
GateClaim(n) == [program |-> "rA", start |-> "rA", event |-> "eA", hashSteps |-> n]
ExecClaim(n) == [start |-> "rA", pc |-> 1, steps |-> n, gas |-> 3, words |-> 2, padded |-> TRUE]

SettlementEvidence ==
    {Bls(d1, 1, 1, "rA", "eA", 1, "k1"), Bls(d1, 1, 2, "rB", "eB", 1, "k1"),
     Bls(d1, 2, 1, "rA", "eA", 1, "k1"), Bls(d1, 1, 2, "rB", "eB", 1, "k2"),
     BlsOver(Bls(d1, 1, 2, "rB", "eB", 1, "k1"), "eA"), Zk(1, "rA")}
RecordingEvidence ==
    {Rec("step112", 1, StepClaim(4)), Rec("step112", 2, StepClaim(4)),
     Rec("gate144", 1, GateClaim(7)), Rec("gate144", 1, GateClaim(8)),
     Rec("exec232", 1, ExecClaim(20)), Rec("exec232", 0, ExecClaim(20))}
MCEvidence == SettlementEvidence \cup RecordingEvidence

Proof(c, b, tag, root, claim) ==
    [vk |-> Key(c, b), tag |-> tag, root |-> root, claim |-> claim, threshold |-> 2]
MCProofs ==
    {Proof("settle", 768, "settle", "rA", "any"),
     Proof("step", 896, "step", "rB", StepClaim(4)),
     Proof("gate", 896, "gate", "rB", GateClaim(7)),
     Proof("gate", 896, "gate", "rB", GateClaim(8)),
     Proof("exec", 1920, "exec", "rB", ExecClaim(20))}
=============================================================================

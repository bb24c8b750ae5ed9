----------------------------- MODULE BurnRouter -----------------------------
(***************************************************************************)
(* The router on the source chain: it swaps what the caller brings, burns  *)
(* the USDC that really arrived and writes the instruction for the claim   *)
(* into the message.  Several tokens, a token that shrinks on transfer and *)
(* a venue that pays badly make any sum arrive.  Amounts have 6 decimals.  *)
(***************************************************************************)
EXTENDS Integers, Sequences

CONSTANTS
    Router,         \* the router's address, the sender Circle writes down
    Stranger,       \* somebody else who burns through Circle directly
    SourceDomain,   \* the chain the router runs on
    Recipients,     \* [class |-> .., address |-> ..], well-formed strkeys
    Deltas,         \* what the legs of one call may bring together
    FeeCaps,        \* relayFeeCap
    BatteryAmounts, \* batteryAmount
    GasReserves,    \* gasReserve
    MaxFee,         \* maxFee, the most Circle may deduct
    MaxBurns        \* bound on the burns of a run

ASSUME AmountsNatural ==
    /\ Deltas \subseteq Nat /\ FeeCaps \subseteq Nat /\ BatteryAmounts \subseteq Nat
    /\ GasReserves \subseteq Nat /\ MaxFee \in Nat
ASSUME StrangerIsNotRouter == Stranger # Router

\* Nothing else changes: what burnBatch finds on the router it leaves there, and
\* reverts otherwise.
VARIABLE burns      \* the messages Circle attests, in order

\* _validatedRecipient: length, alphabet, version byte and checksum.
Classes == {"G", "C", "M"}
ValidRecipient(recipient) == recipient.class \in Classes

\* relayFeeCap + batteryAmount against the amount burned.
FeesBelow(cap, battery, burnable) == cap + battery < burnable

BurnMessage(sender, amount, fee, recipient, cap, battery, mod) ==
    [nonce |-> Len(burns), sender |-> sender, domain |-> SourceDomain,
     amount |-> amount, feeExecuted |-> fee, recipient |-> recipient,
     relayFeeCap |-> cap, batteryAmount |-> battery, mod |-> mod]

\* Circle deducts up to the caller's maxFee, and less than is burned.
CircleFees(burnable) == {fee \in 0..MaxFee : fee < burnable}

\* burnBatch, when it does not revert: every leg brought at least its minOut,
\* together they brought delta.
BurnBatch(delta, recipient, cap, battery, mod, gasReserve) ==
    LET burnable == delta - gasReserve
    IN  /\ Len(burns) < MaxBurns
        /\ ValidRecipient(recipient)
        /\ burnable > 0
        /\ FeesBelow(cap, battery, burnable)
        /\ \E fee \in CircleFees(burnable) :
              burns' = Append(burns, BurnMessage(Router, burnable, fee, recipient,
                                                 cap, battery, mod))

\* The same call to Circle by somebody else, with the claim as its caller.
BurnDirectly(amount, recipient) ==
    /\ Len(burns) < MaxBurns
    /\ burns' = Append(burns, BurnMessage(Stranger, amount, 0, recipient, 0, 0, 0))

RouterStep ==
    \/ \E delta \in Deltas, recipient \in Recipients, cap \in FeeCaps,
          battery \in BatteryAmounts, mod \in {0, 1}, gasReserve \in GasReserves :
             BurnBatch(delta, recipient, cap, battery, mod, gasReserve)
    \/ \E amount \in Deltas, recipient \in Recipients : BurnDirectly(amount, recipient)
=============================================================================

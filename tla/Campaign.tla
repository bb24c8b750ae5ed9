------------------------------ MODULE Campaign ------------------------------
(***************************************************************************)
(* Two small contracts beside Gate 2: gate_campaign_example grants tiers   *)
(* for what get_migration of the claim reports, gate_stamp hands everybody *)
(* one soulbound number.  Neither holds money and neither is called back.  *)
(***************************************************************************)
EXTENDS Gate2

CONSTANTS
    Bronze, Silver, Gold  \* totals in 6 decimals

ASSUME TiersAscend == Bronze \in Nat \ {0} /\ Silver \in Nat /\ Gold \in Nat
                      /\ Bronze < Silver /\ Silver < Gold

VARIABLES
    tier,     \* DataKey::Tier, zero where there is none
    seq,      \* DataKey::Seq
    stampOwner, \* DataKey::OwnerOf, by number
    stampOf   \* DataKey::Of, by owner

tierVars == <<tier>>
stampVars == <<seq, stampOwner, stampOf>>
campaignVars == <<vars, tierVars, stampVars>>

\* get_migration: an owner nobody migrated to has no summary.
Migrated(owner) == summary[owner].count > 0

\* The tiers are numbered: no tier, bronze, silver, gold.
Threshold == [t \in 0..3 |-> CASE t = 0 -> 0 [] t = 1 -> Bronze [] t = 2 -> Silver [] t = 3 -> Gold]
\* Mutant: an amount with seven decimals is compared.
EarnedEarly(total) == CHOOSE t \in 0..3 : /\ 10 * total >= Threshold[t]
                                          /\ \A u \in 0..3 : 10 * total >= Threshold[u] => u <= t
Earned(total) == CHOOSE t \in 0..3 : /\ total >= Threshold[t]
                                     /\ \A u \in 0..3 : total >= Threshold[u] => u <= t

\* The better of what is recorded and what is earned.
Granted(owner) ==
    LET earned == Earned(summary[owner].total)
    IN  IF tier[owner] >= earned THEN tier[owner] ELSE earned

\* claim_tier
ClaimTier(owner) ==
    /\ Migrated(owner)
    /\ Earned(summary[owner].total) > 0
    /\ tier' = [tier EXCEPT ![owner] = Granted(owner)]

NextSeq == seq + 1

\* stamp: the number is taken, and both tables written, in one call.
Stamp(owner) ==
    /\ owner \notin DOMAIN stampOf
    /\ seq' = NextSeq
    /\ stampOwner' = [n \in 0..seq |-> IF n = seq THEN owner ELSE stampOwner[n]]
    /\ stampOf' = [a \in DOMAIN stampOf \cup {owner} |-> IF a = owner THEN seq ELSE stampOf[a]]

CampaignInit ==
    /\ Init
    /\ tier = [a \in Accounts |-> 0]
    /\ seq = 0 /\ stampOwner = << >> /\ stampOf = << >>

CampaignNext ==
    \/ Next /\ UNCHANGED <<tierVars, stampVars>>
    \/ \E owner \in Accounts : ClaimTier(owner) /\ UNCHANGED <<vars, stampVars>>
    \/ \E owner \in Accounts : Stamp(owner) /\ UNCHANGED <<vars, tierVars>>

CampaignSpec == CampaignInit /\ [][CampaignNext]_campaignVars

-----------------------------------------------------------------------------
(* Correctness.                                                            *)

ProofsOf(a) == {i \in DOMAIN proofs : proofs[i].owner = a}
Proven == [i \in DOMAIN proofs |-> proofs[i].amount]

\* A tier is backed by migrations on record: the proofs that name its holder as
\* owner add up to its threshold, although the campaign reads a running total
\* another contract keeps, and the total agrees with those proofs at any time.
TierIsEarned ==
    \A a \in Accounts :
        LET total == SumOf(Proven, ProofsOf(a))
        IN  /\ summary[a] = [total |-> total, count |-> Cardinality(ProofsOf(a))]
            /\ total >= Threshold[tier[a]]
=============================================================================

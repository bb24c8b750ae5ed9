-------------------------- MODULE VerifierRegistry --------------------------
(***************************************************************************)
(* The staking and slashing registry of gate2/zkvm/verifier-registry       *)
(* (registry.rs, evidence.rs, params.rs): bonds per account and role, an   *)
(* exit that waits, and slashing by evidence that reaches every role of    *)
(* the offender.  The repository keeps the crate in quarantine: nothing of *)
(* the gate calls it, so its callers are whoever may.                      *)
(***************************************************************************)
EXTENDS Integers, Sequences

CONSTANTS Accounts, Roles,
          Stakes,                  \* amounts callers pass
          RegistryParams,          \* records [min_stake, unbonding_epochs, slash_ratio]
          Conditions,
          MaxWord,                 \* the largest u64
          FIXED_POINT_SCALE, MAX_SLASHING_HISTORY,
          MaxEpoch                 \* bound: epochs

ASSUME RegistryConstants ==
    /\ MaxWord \in Nat /\ Stakes \subseteq 0 .. MaxWord /\ MaxEpoch \in Nat
    /\ FIXED_POINT_SCALE \in Nat \ {0} /\ MAX_SLASHING_HISTORY \in Nat \ {0}
    /\ RegistryParams \subseteq [min_stake : Nat, unbonding_epochs : Nat,
                                 slash_ratio : [Conditions -> Nat]]

VARIABLES registrations,     \* status, stake and release epoch of each role of each account
          params, slashing_history,
          epoch              \* the epoch callers pass
registryVars == <<registrations, params, slashing_history, epoch>>

Keys == Roles \X Accounts
None == [status |-> "none", stake |-> 0, release |-> 0]
Active(stake) == [status |-> "active", stake |-> stake, release |-> 0]
Registered(key) == registrations[key].status # "none"
Smaller(a, b) == IF a < b THEN a ELSE b

RegistryInit ==
    /\ registrations = [key \in Keys |-> None] /\ params \in RegistryParams
    /\ slashing_history = <<>> /\ epoch = 0

SetParams == params' \in RegistryParams /\ UNCHANGED <<registrations, slashing_history, epoch>>
NextEpoch == epoch < MaxEpoch /\ epoch' = epoch + 1 /\ UNCHANGED <<registrations, params, slashing_history>>

RegistrationBecomes(key, entry) ==
    registrations' = [registrations EXCEPT ![key] = entry] /\ UNCHANGED <<params, slashing_history, epoch>>

Register(key, stake) ==
    /\ stake >= params.min_stake /\ ~Registered(key)
    /\ RegistrationBecomes(key, Active(stake))

\* A caller's total: it never brings a slashed bond back, and zero removes any other.
Upserted(entry, total) ==
    IF entry.status = "slashed" THEN [entry EXCEPT !.stake = total]
    ELSE IF entry.status = "none" THEN (IF total >= params.min_stake THEN Active(total) ELSE None)
    ELSE IF total = 0 THEN None ELSE [entry EXCEPT !.stake = total]
UpsertStake(key, total) == RegistrationBecomes(key, Upserted(registrations[key], total))

AddStake(key, amount) ==
    /\ Registered(key)
    /\ RegistrationBecomes(key, [registrations[key] EXCEPT !.stake = Smaller(MaxWord, @ + amount)])

BeginUnbonding(key) ==
    /\ registrations[key].status = "active"
    /\ RegistrationBecomes(key, [registrations[key] EXCEPT !.status = "unbonding",
                         !.release = Smaller(MaxWord, epoch + params.unbonding_epochs)])

Withdraw(key) ==
    /\ registrations[key].status = "unbonding" /\ epoch >= registrations[key].release
    /\ RegistrationBecomes(key, None)

SlashPenalty(stake, ratio) == Smaller(stake, (stake * ratio) \div FIXED_POINT_SCALE)
Slashed(entry, ratio) ==
    [entry EXCEPT !.status = "slashed", !.stake = @ - SlashPenalty(entry.stake, ratio)]

\* Mutant: only bonds in service are jailed with the primary one.
InService(entry) == entry.status = "active"
\* slash_cross_role: every other bond of the account that is not slashed yet.
Jailable(entry) == entry.status \in {"active", "unbonding"}

\* Mutant: a slashed bond can be slashed again.
AnyBond(key) == Registered(key)
Slashable(key) == Registered(key) /\ registrations[key].status # "slashed"

Jailed(key, ratio) ==
    [k \in Keys |-> IF k = key \/ (k[2] = key[2] /\ Jailable(registrations[k]))
                    THEN Slashed(registrations[k], ratio) ELSE registrations[k]]

Slash(key, ratio) ==
    /\ Slashable(key)
    /\ registrations' = Jailed(key, ratio) /\ UNCHANGED <<params, slashing_history, epoch>>

\* The newest records are kept.
Recorded(history, record) ==
    LET longer == Append(history, record)
    IN IF Len(longer) > MAX_SLASHING_HISTORY THEN Tail(longer) ELSE longer

Reports == [key : Keys, condition : Conditions, wellFormed : BOOLEAN,
            provenance : {"ConsensusVerified", "Unverified"}]
IsActionable(report) == report.wellFormed /\ report.provenance = "ConsensusVerified"

\* A report that is not actionable, or names a bond that cannot be slashed, does nothing.
SlashFromReport(report) ==
    LET ratio == params.slash_ratio[report.condition]
        bond == registrations[report.key]
    IN /\ IsActionable(report) /\ Slashable(report.key)
       /\ registrations' = Jailed(report.key, ratio)
       /\ slashing_history' = Recorded(slashing_history,
             [report |-> report, penalty |-> SlashPenalty(bond.stake, ratio),
              remaining_stake |-> Slashed(bond, ratio).stake])
       /\ UNCHANGED <<params, epoch>>

RegistryNext ==
    \/ SetParams \/ NextEpoch
    \/ \E key \in Keys :
        \/ \E stake \in Stakes : Register(key, stake) \/ UpsertStake(key, stake) \/ AddStake(key, stake)
        \/ BeginUnbonding(key) \/ Withdraw(key)
        \/ \E condition \in Conditions : Slash(key, params.slash_ratio[condition])
    \/ \E report \in Reports : SlashFromReport(report)

RegistrySpec == RegistryInit /\ [][RegistryNext]_registryVars

RegistryTypeOK ==
    /\ registrations \in [Keys -> [status : {"none", "active", "unbonding", "slashed"},
                                   stake : 0 .. MaxWord, release : Nat]]
    /\ params \in RegistryParams /\ epoch \in 0 .. MaxEpoch
    /\ slashing_history \in Seq([report : Reports, penalty : Nat, remaining_stake : Nat])

\* Slashing one role jails the account: a step that slashes any bond leaves every
\* bond of that account slashed, the exiting ones included, and a slashed bond is
\* never withdrawn, removed or brought back, whatever the caller asks for later.
JailStep ==
    \A key \in Keys :
        /\ registrations[key].status = "slashed" => registrations'[key].status = "slashed"
        /\ registrations[key].status # "slashed" /\ registrations'[key].status = "slashed" =>
            \A k \in Keys : k[2] = key[2] => registrations'[k].status \in {"none", "slashed"}
JailHoldsTheAccount == [][JailStep]_registryVars

\* A report repeated, or one about another role of a jailed account, burns nothing:
\* no two records are about the same bond, and each is about a bond still jailed.
OneRecordPerBond ==
    \A i, j \in 1 .. Len(slashing_history) :
        LET key == slashing_history[i].report.key
        IN /\ registrations[key].status = "slashed"
           /\ key = slashing_history[j].report.key => i = j
=============================================================================

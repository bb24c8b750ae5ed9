---------------------------- MODULE ProvingProofs ----------------------------
(* Theorems about the components around the proof system, for every value of *)
(* their constants: the bonds of the verifier registry, the alarm log and    *)
(* the account state; and the relay of proofs.                               *)
EXTENDS VerifierRegistry, AlarmLog, ZkState, ProofRelay, SumTheorems, SequenceTheorems

-----------------------------------------------------------------------------
(* The verifier registry: types.                                           *)

Entries == [status : {"none", "active", "unbonding", "slashed"}, stake : 0 .. MaxWord,
            release : Nat]

\* A part of a product of whole numbers is a whole number.
LEMMA ScaledIsNat ==
    ASSUME NEW a \in Nat, NEW b \in Nat
    PROVE  (a * b) \div FIXED_POINT_SCALE \in Nat
<1>1. a * b \in Nat
  OBVIOUS
<1>2. ASSUME NEW n \in Nat PROVE n \div FIXED_POINT_SCALE \in Nat
  BY RegistryConstants
<1> QED BY <1>1, <1>2

\* A slash leaves between nothing and all of the stake.
LEMMA PenaltyFits ==
    ASSUME NEW stake \in 0 .. MaxWord, NEW ratio \in Nat
    PROVE  /\ SlashPenalty(stake, ratio) \in Nat
           /\ stake - SlashPenalty(stake, ratio) \in 0 .. MaxWord
<1>1. (stake * ratio) \div FIXED_POINT_SCALE \in Nat
  BY ScaledIsNat, RegistryConstants
<1> QED BY <1>1, RegistryConstants DEF SlashPenalty, Smaller

\* Slashing an entry leaves an entry, slashed.
LEMMA SlashedType ==
    ASSUME NEW entry1 \in Entries, NEW ratio \in Nat
    PROVE  Slashed(entry1, ratio) \in Entries /\ Slashed(entry1, ratio).status = "slashed"
<1>1. entry1.stake \in 0 .. MaxWord
  BY DEF Entries
<1>2. entry1.stake - SlashPenalty(entry1.stake, ratio) \in 0 .. MaxWord
  BY <1>1, PenaltyFits
<1> QED BY <1>2 DEF Slashed, Entries

\* The bonds keep their type and the rest is left alone.
LEMMA EntryWritten ==
    ASSUME RegistryTypeOK, NEW key \in Keys, NEW entry1 \in Entries,
           RegistrationBecomes(key, entry1)
    PROVE  RegistryTypeOK'
BY DEF RegistryTypeOK, RegistrationBecomes, Entries

\* The ratio of a condition is a whole number.
LEMMA RatioType ==
    ASSUME RegistryTypeOK, NEW condition \in Conditions
    PROVE  params.slash_ratio[condition] \in Nat
BY RegistryConstants DEF RegistryTypeOK

\* Jailing an account keeps the bonds' type.
LEMMA JailedType ==
    ASSUME RegistryTypeOK, NEW key \in Keys, NEW ratio \in Nat
    PROVE  Jailed(key, ratio) \in [Keys -> Entries]
<1>1. \A k \in Keys : registrations[k] \in Entries
  BY DEF RegistryTypeOK, Entries
<1> QED BY <1>1, SlashedType DEF Jailed

\* What each step on one bond writes is an entry.
LEMMA WrittenTypes ==
    ASSUME RegistryTypeOK, NEW key \in Keys
    PROVE  /\ None \in Entries
           /\ \A stake \in Stakes :
                /\ Active(stake) \in Entries
                /\ Upserted(registrations[key], stake) \in Entries
                /\ [registrations[key] EXCEPT !.stake = Smaller(MaxWord, @ + stake)] \in Entries
           /\ [registrations[key] EXCEPT !.status = "unbonding",
                 !.release = Smaller(MaxWord, epoch + params.unbonding_epochs)] \in Entries
<1>1. MaxWord \in Nat /\ \A stake \in Stakes : stake \in 0 .. MaxWord
  BY RegistryConstants
<1>2. registrations[key] \in Entries /\ epoch \in Nat /\ params.unbonding_epochs \in Nat
  <2>1. epoch \in Nat /\ params.unbonding_epochs \in Nat
    BY RegistryConstants DEF RegistryTypeOK
  <2> QED BY <2>1 DEF RegistryTypeOK, Entries
<1>3. None \in Entries
  BY <1>1 DEF None, Entries
<1>4. ASSUME NEW stake \in Stakes
      PROVE  /\ Active(stake) \in Entries
             /\ [registrations[key] EXCEPT !.stake = stake] \in Entries
             /\ [registrations[key] EXCEPT !.stake = Smaller(MaxWord, @ + stake)] \in Entries
  <2>1. registrations[key].stake \in 0 .. MaxWord
    BY <1>2 DEF Entries
  <2>2. Smaller(MaxWord, registrations[key].stake + stake) \in 0 .. MaxWord
    BY <1>1, <2>1 DEF Smaller
  <2> QED BY <1>1, <1>2, <2>2 DEF Active, Entries
<1>5. ASSUME NEW stake \in Stakes PROVE Upserted(registrations[key], stake) \in Entries
  BY <1>3, <1>4 DEF Upserted
<1>6. Smaller(MaxWord, epoch + params.unbonding_epochs) \in Nat
  BY <1>1, <1>2 DEF Smaller
<1>7. [registrations[key] EXCEPT !.status = "unbonding",
         !.release = Smaller(MaxWord, epoch + params.unbonding_epochs)] \in Entries
  BY <1>2, <1>6 DEF Entries
<1> QED BY <1>3, <1>4, <1>5, <1>7

-----------------------------------------------------------------------------
(* The verifier registry: the jail and its records.                        *)

Records == [report : Reports, penalty : Nat, remaining_stake : Nat]

\* Every step writes one bond, jails an account, or touches neither bonds nor records.
LEMMA RegistrySteps ==
    ASSUME RegistryTypeOK, [RegistryNext]_registryVars
    PROVE  \/ UNCHANGED <<registrations, slashing_history>> /\ RegistryTypeOK'
           \/ \E key \in Keys, entry1 \in Entries :
                /\ RegistrationBecomes(key, entry1)
                /\ registrations[key].status = "slashed" <=> entry1.status = "slashed"
           \/ \E key \in Keys, ratio \in Nat :
                /\ Slashable(key) /\ registrations' = Jailed(key, ratio)
                /\ UNCHANGED <<params, epoch>>
                /\ \/ UNCHANGED slashing_history
                   \/ \E record \in Records :
                        /\ record.report.key = key
                        /\ slashing_history' = Recorded(slashing_history, record)
<1>1. CASE SetParams \/ NextEpoch \/ UNCHANGED registryVars
  <2>1. CASE SetParams
    BY <2>1 DEF SetParams, RegistryTypeOK
  <2>2. CASE NextEpoch
    <3>1. epoch \in 0 .. MaxEpoch /\ epoch' = epoch + 1 /\ epoch < MaxEpoch /\ MaxEpoch \in Nat
      BY <2>2, RegistryConstants DEF NextEpoch, RegistryTypeOK
    <3>2. epoch' \in 0 .. MaxEpoch
      BY <3>1
    <3> QED BY <2>2, <3>2 DEF NextEpoch, RegistryTypeOK
  <2>3. CASE UNCHANGED registryVars
    BY <2>3 DEF registryVars, RegistryTypeOK
  <2> QED BY <1>1, <2>1, <2>2, <2>3
<1>2. ASSUME NEW key \in Keys, NEW stake \in Stakes,
             Register(key, stake) \/ UpsertStake(key, stake) \/ AddStake(key, stake)
      PROVE  \E entry1 \in Entries :
                /\ RegistrationBecomes(key, entry1)
                /\ registrations[key].status = "slashed" <=> entry1.status = "slashed"
  <2>1. registrations[key] \in Entries
    BY DEF RegistryTypeOK, Entries
  <2>2. CASE Register(key, stake)
    BY <2>2, WrittenTypes DEF Register, Active, Registered
  <2>3. CASE UpsertStake(key, stake)
    <3>1. registrations[key].status = "slashed"
            <=> Upserted(registrations[key], stake).status = "slashed"
      BY <2>1 DEF Upserted, Active, None, Entries
    <3> QED BY <2>3, <3>1, WrittenTypes DEF UpsertStake
  <2>4. CASE AddStake(key, stake)
    <3> DEFINE entry1 == [registrations[key] EXCEPT !.stake = Smaller(MaxWord, @ + stake)]
    <3>1. registrations[key].status = "slashed" <=> entry1.status = "slashed"
      BY <2>1 DEF Entries
    <3> QED BY <2>4, <3>1, WrittenTypes DEF AddStake
  <2> QED BY <1>2, <2>2, <2>3, <2>4
<1>3. ASSUME NEW key \in Keys, BeginUnbonding(key) \/ Withdraw(key)
      PROVE  \E entry1 \in Entries :
                /\ RegistrationBecomes(key, entry1)
                /\ registrations[key].status = "slashed" <=> entry1.status = "slashed"
  <2>1. registrations[key] \in Entries
    BY DEF RegistryTypeOK, Entries
  <2>2. CASE BeginUnbonding(key)
    <3> DEFINE entry1 == [registrations[key] EXCEPT !.status = "unbonding",
                           !.release = Smaller(MaxWord, epoch + params.unbonding_epochs)]
    <3>1. registrations[key].status = "active" /\ entry1.status = "unbonding"
      BY <2>1, <2>2 DEF BeginUnbonding, Entries
    <3> QED BY <2>2, <3>1, WrittenTypes DEF BeginUnbonding
  <2>3. CASE Withdraw(key)
    BY <2>3, WrittenTypes DEF Withdraw, None
  <2> QED BY <1>3, <2>2, <2>3
<1>4. ASSUME NEW key \in Keys, NEW condition \in Conditions,
             Slash(key, params.slash_ratio[condition])
      PROVE  \E ratio \in Nat : /\ Slashable(key) /\ registrations' = Jailed(key, ratio)
                                /\ UNCHANGED <<params, epoch, slashing_history>>
  BY <1>4, RatioType DEF Slash
<1>5. ASSUME NEW report1 \in Reports, SlashFromReport(report1)
      PROVE  \E key \in Keys, ratio \in Nat, record \in Records :
                /\ Slashable(key) /\ registrations' = Jailed(key, ratio)
                /\ UNCHANGED <<params, epoch>>
                /\ record.report.key = key
                /\ slashing_history' = Recorded(slashing_history, record)
  <2> DEFINE key == report1.key
             ratio == params.slash_ratio[report1.condition]
             bond == registrations[key]
             record == [report |-> report1, penalty |-> SlashPenalty(bond.stake, ratio),
                        remaining_stake |-> Slashed(bond, ratio).stake]
  <2>1. key \in Keys /\ report1.condition \in Conditions
    BY DEF Reports
  <2>2. ratio \in Nat /\ bond \in Entries
    BY <2>1, RatioType DEF RegistryTypeOK, Entries
  <2>3. SlashPenalty(bond.stake, ratio) \in Nat
    BY <2>2, PenaltyFits DEF Entries
  <2>4. Slashed(bond, ratio).stake \in Nat
    <3>1. Slashed(bond, ratio) \in Entries
      BY <2>2, SlashedType
    <3> QED BY <3>1 DEF Entries
  <2>5. record \in Records /\ record.report.key = key
    BY <2>3, <2>4 DEF Records
  <2>6. /\ Slashable(key) /\ registrations' = Jailed(key, ratio)
        /\ slashing_history' = Recorded(slashing_history, record)
        /\ UNCHANGED <<params, epoch>>
    BY <1>5 DEF SlashFromReport
  <2> HIDE DEF key, ratio, record
  <2> QED BY <2>1, <2>2, <2>5, <2>6
<1> QED BY <1>1, <1>2, <1>3, <1>4, <1>5 DEF RegistryNext

\* The history after a record: it ends with it, and what is before it was there.
LEMMA RecordedKeeps ==
    ASSUME NEW history \in Seq(Records), NEW record \in Records
    PROVE  /\ Recorded(history, record) \in Seq(Records)
           /\ \E shift \in {0, 1} :
                 /\ Len(Recorded(history, record)) = Len(history) + 1 - shift
                 /\ shift = 1 => Len(history) >= 1
                 /\ \A i \in 1 .. Len(history) - shift :
                       Recorded(history, record)[i] = history[i + shift]
                 /\ Recorded(history, record)[Len(history) + 1 - shift] = record
<1> DEFINE longer == Append(history, record)
           n == Len(history)
<1>1. /\ longer \in Seq(Records) /\ n \in Nat /\ Len(longer) = n + 1 /\ longer[n + 1] = record
      /\ \A i \in 1 .. n : longer[i] = history[i]
  OBVIOUS
<1> HIDE DEF longer, n
<1>2. CASE Len(longer) > MAX_SLASHING_HISTORY
  <2>1. Recorded(history, record) = Tail(longer)
    BY <1>2 DEF Recorded, longer
  <2>2. n >= 1
    BY <1>1, <1>2, RegistryConstants
  <2>3. /\ Tail(longer) \in Seq(Records) /\ Len(Tail(longer)) = n
        /\ \A i \in 1 .. n : Tail(longer)[i] = longer[i + 1]
    BY <1>1, <2>2
  <2>4. /\ \A i \in 1 .. n - 1 : Tail(longer)[i] = history[i + 1]
        /\ Tail(longer)[n] = record
    BY <1>1, <2>2, <2>3
  <2>5. n + 1 - 1 = n
    BY <1>1
  <2> QED BY <1>1, <2>1, <2>2, <2>3, <2>4, <2>5 DEF n
<1>3. CASE ~(Len(longer) > MAX_SLASHING_HISTORY)
  <2>1. Recorded(history, record) = longer
    BY <1>3 DEF Recorded, longer
  <2>2. n + 1 - 0 = n + 1 /\ n - 0 = n /\ \A i \in 1 .. n : i + 0 = i
    BY <1>1
  <2>3. /\ Len(Recorded(history, record)) = n + 1 - 0 /\ (0 = 1 => n >= 1)
        /\ \A i \in 1 .. n - 0 : Recorded(history, record)[i] = history[i + 0]
        /\ Recorded(history, record)[n + 1 - 0] = record
    <3> HIDE DEF n
    <3> QED BY <1>1, <2>1, <2>2
  <2>4. Recorded(history, record) \in Seq(Records)
    BY <1>1, <2>1
  <2> QED BY <2>3, <2>4 DEF n
<1> QED BY <1>2, <1>3

\* What jailing does to the bonds, slashed or not.
LEMMA JailedBonds ==
    ASSUME RegistryTypeOK, NEW key \in Keys, NEW ratio \in Nat
    PROVE  /\ \A k \in Keys : registrations[k].status = "slashed"
                                => Jailed(key, ratio)[k].status = "slashed"
           /\ Jailed(key, ratio)[key].status = "slashed"
           /\ \A k \in Keys : Jailed(key, ratio)[k].status = "slashed"
                                => registrations[k].status = "slashed" \/ k[2] = key[2]
           /\ \A k \in Keys : k[2] = key[2]
                                => Jailed(key, ratio)[k].status \in {"none", "slashed"}
<1>1. \A k \in Keys : registrations[k] \in Entries
  BY DEF RegistryTypeOK, Entries
<1>2. \A k \in Keys : Slashed(registrations[k], ratio).status = "slashed"
  BY <1>1, SlashedType
<1>3. \A k \in Keys : registrations[k].status \in {"none", "active", "unbonding", "slashed"}
  BY <1>1 DEF Entries
<1> QED BY <1>2, <1>3 DEF Jailed, Jailable

\* The records' invariant: each is about a bond still jailed, and no two about one.
RegistryInv == RegistryTypeOK /\ OneRecordPerBond

\* Before the first call nobody is bonded and nothing recorded.
LEMMA RegistryStarts == RegistryInit => RegistryInv
<1> SUFFICES ASSUME RegistryInit PROVE RegistryInv
  OBVIOUS
<1>1. RegistryTypeOK
  BY RegistryConstants DEF RegistryInit, RegistryTypeOK, None
<1>2. Len(slashing_history) = 0
  BY DEF RegistryInit
<1>3. OneRecordPerBond
  BY <1>2 DEF OneRecordPerBond
<1> QED BY <1>1, <1>3 DEF RegistryInv

\* A step that writes one bond or jails an account keeps the types.
LEMMA RegistryTypeStep == RegistryTypeOK /\ [RegistryNext]_registryVars => RegistryTypeOK'
<1> SUFFICES ASSUME RegistryTypeOK, [RegistryNext]_registryVars PROVE RegistryTypeOK'
  OBVIOUS
<1>1. ASSUME NEW key \in Keys, NEW ratio \in Nat, registrations' = Jailed(key, ratio),
             UNCHANGED <<params, epoch>>, slashing_history' \in Seq(Records)
      PROVE  RegistryTypeOK'
  <2>1. registrations' \in [Keys -> Entries]
    BY <1>1, JailedType
  <2> QED BY <1>1, <2>1 DEF RegistryTypeOK, Entries, Records
<1>2. slashing_history \in Seq(Records)
  BY DEF RegistryTypeOK, Records
<1>3. ASSUME NEW record \in Records, slashing_history' = Recorded(slashing_history, record)
      PROVE  slashing_history' \in Seq(Records)
  BY <1>2, <1>3, RecordedKeeps
<1> QED BY <1>1, <1>2, <1>3, RegistrySteps, EntryWritten

\* Every step holds the jail.
LEMMA JailKept == RegistryTypeOK /\ [RegistryNext]_registryVars => JailStep
<1> SUFFICES ASSUME RegistryTypeOK, [RegistryNext]_registryVars PROVE JailStep
  OBVIOUS
<1>1. CASE UNCHANGED <<registrations, slashing_history>>
  BY <1>1 DEF JailStep
<1>2. ASSUME NEW key \in Keys, NEW entry1 \in Entries, RegistrationBecomes(key, entry1),
             registrations[key].status = "slashed" <=> entry1.status = "slashed"
      PROVE  JailStep
  <2>1. registrations'[key] = entry1 /\ \A k \in Keys \ {key} : registrations'[k] = registrations[k]
    BY <1>2 DEF RegistrationBecomes, RegistryTypeOK
  <2>2. \A k \in Keys : registrations[k].status = "slashed" <=> registrations'[k].status = "slashed"
    BY <1>2, <2>1
  <2> QED BY <2>2 DEF JailStep
<1>3. ASSUME NEW key \in Keys, NEW ratio \in Nat, registrations' = Jailed(key, ratio)
      PROVE  JailStep
  BY <1>3, JailedBonds DEF JailStep
<1> QED BY <1>1, <1>2, <1>3, RegistrySteps

\* Every step keeps one record per bond.
LEMMA RecordsKept == RegistryInv /\ [RegistryNext]_registryVars => OneRecordPerBond'
<1> SUFFICES ASSUME RegistryInv, [RegistryNext]_registryVars PROVE OneRecordPerBond'
  OBVIOUS
<1>1. RegistryTypeOK /\ OneRecordPerBond /\ slashing_history \in Seq(Records)
  BY DEF RegistryInv, RegistryTypeOK, Records
<1>2. \A k \in Keys : registrations[k].status = "slashed" => registrations'[k].status = "slashed"
  BY <1>1, JailKept DEF JailStep
<1>3. \A i \in 1 .. Len(slashing_history) : slashing_history[i].report.key \in Keys
  <2>1. \A i \in 1 .. Len(slashing_history) : slashing_history[i] \in Records
    BY <1>1
  <2> QED BY <2>1 DEF Records, Reports
<1>4. CASE UNCHANGED slashing_history
  BY <1>1, <1>2, <1>3, <1>4 DEF OneRecordPerBond
<1>5. ASSUME NEW key \in Keys, NEW ratio \in Nat, NEW record \in Records, Slashable(key),
             registrations' = Jailed(key, ratio), record.report.key = key,
             slashing_history' = Recorded(slashing_history, record)
      PROVE  OneRecordPerBond'
  <2> DEFINE n == Len(slashing_history)
             keys == [i \in 1 .. n |-> slashing_history[i].report.key]
             after == slashing_history'
  <2>1. PICK shift \in {0, 1} :
           /\ Len(after) = n + 1 - shift
           /\ shift = 1 => n >= 1
           /\ \A i \in 1 .. n - shift : after[i] = slashing_history[i + shift]
           /\ after[n + 1 - shift] = record
    BY <1>1, <1>5, RecordedKeeps
  <2>2. n \in Nat
    BY <1>1
  <2>3. registrations'[key].status = "slashed" /\ registrations[key].status # "slashed"
    BY <1>1, <1>5, JailedBonds DEF Slashable
  <2>4. \A i \in 1 .. n : /\ slashing_history[i].report.key # key
                          /\ registrations'[slashing_history[i].report.key].status = "slashed"
    BY <1>1, <1>2, <1>3, <2>3 DEF OneRecordPerBond
  <2>5. \A i, j \in 1 .. n : slashing_history[i].report.key = slashing_history[j].report.key => i = j
    BY <1>1 DEF OneRecordPerBond
  <2>6. \A i \in 1 .. Len(after) :
           \/ i = n + 1 - shift /\ after[i] = record
           \/ i \in 1 .. n - shift /\ i + shift \in 1 .. n /\ after[i] = slashing_history[i + shift]
    BY <2>1, <2>2
  <2> HIDE DEF n, after
  <2>7. ASSUME NEW i \in 1 .. Len(after), NEW j \in 1 .. Len(after)
        PROVE  /\ registrations'[after[i].report.key].status = "slashed"
               /\ after[i].report.key = after[j].report.key => i = j
    <3>1. CASE i = n + 1 - shift /\ j = n + 1 - shift
      BY <1>5, <2>1, <2>3, <3>1
    <3>2. CASE i = n + 1 - shift /\ j # n + 1 - shift
      BY <1>5, <2>1, <2>3, <2>4, <2>6, <3>2
    <3>3. CASE i # n + 1 - shift /\ j = n + 1 - shift
      BY <1>5, <2>1, <2>3, <2>4, <2>6, <3>3
    <3>4. CASE i # n + 1 - shift /\ j # n + 1 - shift
      <4>1. /\ i + shift \in 1 .. n /\ after[i] = slashing_history[i + shift]
            /\ j + shift \in 1 .. n /\ after[j] = slashing_history[j + shift]
        BY <2>6, <3>4
      <4>2. i + shift = j + shift => i = j
        <5>1. i \in Int /\ j \in Int /\ shift \in Int
          OBVIOUS
        <5> QED BY <5>1
      <4> QED BY <2>4, <2>5, <4>1, <4>2
    <3> QED BY <3>1, <3>2, <3>3, <3>4
  <2> QED BY <2>7 DEF OneRecordPerBond, after
<1>6. ASSUME NEW key \in Keys, NEW entry1 \in Entries, RegistrationBecomes(key, entry1)
      PROVE  UNCHANGED slashing_history
  BY <1>6 DEF RegistrationBecomes
<1> QED BY <1>1, <1>4, <1>5, <1>6, RegistrySteps

\* The registry keeps its invariant through any calls.
LEMMA RegistryIsSound == RegistrySpec => []RegistryInv
<1>1. RegistryInv /\ [RegistryNext]_registryVars => RegistryInv'
  BY RegistryTypeStep, RecordsKept DEF RegistryInv
<1> QED BY <1>1, RegistryStarts, PTL DEF RegistrySpec

\* A slash of any role jails every bond of the account in the same step, and no
\* call ever takes a bond out of jail.
THEOREM JailHolds == RegistrySpec => JailHoldsTheAccount
<1>1. RegistryInv /\ [RegistryNext]_registryVars => [JailStep]_registryVars
  BY JailKept DEF RegistryInv
<1> QED BY <1>1, RegistryIsSound, PTL DEF RegistrySpec, JailHoldsTheAccount

\* Repeated evidence, or evidence about another role of a jailed account, is
\* recorded once, and what is recorded is about a bond still jailed.
THEOREM EvidenceCountsOnce == RegistrySpec => []OneRecordPerBond
<1>1. RegistryInv => OneRecordPerBond
  BY DEF RegistryInv
<1> QED BY <1>1, RegistryIsSound, PTL
-----------------------------------------------------------------------------
(* The alarm log: the chain of links.                                      *)

\* The links from a link backwards, n of them.
Walk(back, link, n) == back = [i \in 0 .. n |-> IF i = 0 THEN link ELSE back[i - 1][1]]

\* The walk exists for every length.
LEMMA WalkExists ==
    ASSUME NEW link, NEW n \in Nat
    PROVE  \E back : Walk(back, link, n)
<1> SUFFICES ASSUME ~ \E back : Walk(back, link, n) PROVE FALSE
  OBVIOUS
<1> DEFINE T == {m \in Nat : ~ \E back : Walk(back, link, m)}
<1>1. PICK m \in T : \A y \in T : ~(y < m)
  <2>1. n \in T /\ T \subseteq Nat
    OBVIOUS
  <2> HIDE DEF T
  <2> QED BY <2>1, SmallestNat
<1>2. m \in Nat /\ ~ \E back : Walk(back, link, m)
  BY <1>1
<1>3. m # 0
  <2> DEFINE back == [i \in 0 .. 0 |-> link]
  <2>1. Walk(back, link, 0)
    BY DEF Walk
  <2> QED BY <1>2, <2>1
<1>4. PICK short : Walk(short, link, m - 1)
  <2>1. m - 1 \in Nat /\ m - 1 < m
    BY <1>2, <1>3
  <2>2. m - 1 \notin T
    BY <1>1, <2>1
  <2> QED BY <2>1, <2>2
<1> DEFINE back == [i \in 0 .. m |-> IF i = 0 THEN link ELSE short[i - 1][1]]
<1>5. \A i \in 0 .. m - 1 : back[i] = short[i]
  <2>1. \A i \in 0 .. m - 1 : i \in 0 .. m /\ short[i] = IF i = 0 THEN link ELSE short[i - 1][1]
    BY <1>2, <1>4 DEF Walk
  <2> QED BY <2>1
<1>6. Walk(back, link, m)
  <2>1. \A i \in 0 .. m : i # 0 => i - 1 \in 0 .. m - 1
    BY <1>2
  <2>2. \A i \in 0 .. m : i # 0 => short[i - 1][1] = back[i - 1][1]
    BY <1>5, <2>1
  <2>3. back = [i \in 0 .. m |-> IF i = 0 THEN link ELSE back[i - 1][1]]
    BY <2>2
  <2> QED BY <2>3 DEF Walk
<1> QED BY <1>2, <1>6

\* The alarms are read off a walk, the last of them first.
ReadOff(back, link, n) ==
    /\ Walk(back, link, n)
    /\ \A k \in 1 .. n : Unfolded(link, n)[k] = <<back[n - k][2], back[n - k][3]>>
    /\ Unfolded(link, n) = [k \in 1 .. n |-> Unfolded(link, n)[k]]

\* What unfolds is read off a walk.
LEMMA UnfoldedWalks ==
    ASSUME NEW link, NEW n \in Nat
    PROVE  \E back : ReadOff(back, link, n)
<1> DEFINE back == CHOOSE b : Walk(b, link, n)
<1>1. Walk(back, link, n)
  BY WalkExists
<1>2. Unfolded(link, n) = [k \in 1 .. n |-> <<back[n - k][2], back[n - k][3]>>]
  BY DEF Unfolded, Walk
<1>3. ReadOff(back, link, n)
  BY <1>1, <1>2 DEF ReadOff
<1> QED BY <1>3

\* A link further on unfolds into one alarm more.
LEMMA UnfoldedGrows ==
    ASSUME NEW prev, NEW report1, NEW kind, NEW seq, NEW n \in Nat
    PROVE  Unfolded(Link(prev, report1, kind, seq), n + 1)
              = [k \in 1 .. n + 1 |-> IF k = n + 1 THEN <<report1, kind>> ELSE Unfolded(prev, n)[k]]
<1> DEFINE link == Link(prev, report1, kind, seq)
<1>1. PICK long : ReadOff(long, link, n + 1)
  <2>1. n + 1 \in Nat
    OBVIOUS
  <2> QED BY <2>1, UnfoldedWalks
<1>2. PICK back : ReadOff(back, prev, n)
  BY UnfoldedWalks
<1>3. link[1] = prev /\ link[2] = report1 /\ link[3] = kind
  BY DEF Link
<1> HIDE DEF link
<1>4. \A i \in 0 .. n + 1 : long[i] = IF i = 0 THEN link ELSE long[i - 1][1]
  BY <1>1 DEF ReadOff, Walk
<1>5. \A i \in 0 .. n : back[i] = IF i = 0 THEN prev ELSE back[i - 1][1]
  BY <1>2 DEF ReadOff, Walk
<1>6. \A i \in 0 .. n : long[i + 1] = back[i]
  <2> SUFFICES ASSUME NEW j \in 0 .. n, long[j + 1] # back[j] PROVE FALSE
    OBVIOUS
  <2> DEFINE T == {i \in 0 .. n : long[i + 1] # back[i]}
  <2>1. PICK i \in T : \A y \in T : ~(y < i)
    <3>1. j \in T /\ T \subseteq Nat
      OBVIOUS
    <3> HIDE DEF T
    <3> QED BY <3>1, SmallestNat
  <2>2. i \in 0 .. n /\ long[i + 1] # back[i]
    BY <2>1
  <2>3. i + 1 \in 0 .. n + 1 /\ i + 1 # 0 /\ i + 1 - 1 = i
    BY <2>2
  <2>4. CASE i = 0
    <3>1. long[1] = long[0][1] /\ long[0] = link
      BY <1>4, <2>3, <2>4
    <3> QED BY <1>3, <1>5, <2>2, <2>4, <3>1
  <2>5. CASE i # 0
    <3>1. i - 1 \in 0 .. n /\ i - 1 < i /\ i - 1 + 1 = i
      BY <2>2, <2>5
    <3>2. long[i - 1 + 1] = back[i - 1]
      BY <2>1, <3>1
    <3>3. long[i + 1] = long[i][1]
      BY <1>4, <2>3
    <3> QED BY <1>5, <2>2, <2>5, <3>1, <3>2, <3>3
  <2> QED BY <2>4, <2>5
<1>7. ASSUME NEW k \in 1 .. n + 1
      PROVE  Unfolded(link, n + 1)[k] = IF k = n + 1 THEN <<report1, kind>> ELSE Unfolded(prev, n)[k]
  <2>1. CASE k = n + 1
    <3>1. n + 1 - k = 0 /\ long[0] = link
      BY <1>4, <2>1
    <3>2. <<long[n + 1 - k][2], long[n + 1 - k][3]>> = <<report1, kind>>
      BY <1>3, <3>1
    <3> QED BY <1>1, <2>1, <3>2 DEF ReadOff
  <2>2. CASE k # n + 1
    <3>1. k \in 1 .. n /\ n - k \in 0 .. n /\ n + 1 - k = n - k + 1
      BY <2>2
    <3>2. long[n + 1 - k] = back[n - k]
      BY <1>6, <3>1
    <3>3. Unfolded(link, n + 1)[k] = <<back[n - k][2], back[n - k][3]>>
      BY <1>1, <3>2 DEF ReadOff
    <3> QED BY <1>2, <2>2, <3>1, <3>3 DEF ReadOff
  <2> QED BY <2>1, <2>2
<1>8. Unfolded(link, n + 1)
         = [k \in 1 .. n + 1 |-> IF k = n + 1 THEN <<report1, kind>> ELSE Unfolded(prev, n)[k]]
  BY <1>1, <1>7 DEF ReadOff
<1> QED BY <1>8 DEF link

-----------------------------------------------------------------------------
(* The alarm log: the window and its history.                              *)

\* An alarm of the window, whose place in the history of n alarms is seq + 1.
AlarmAt(history, alarm, seq) ==
    /\ alarm = [seq |-> seq, kind |-> history[seq + 1][2], report |-> history[seq + 1][1],
                link |-> alarm.link, prev_link |-> alarm.prev_link]
    /\ alarm.link = Link(alarm.prev_link, alarm.report, alarm.kind, alarm.seq)

IsSeq(s) == s \in Seq({s[i] : i \in DOMAIN s})

\* The window holds the last alarms of the history, each linked to the one before
\* it, and the head is the link of the last of all.
WindowInv ==
    /\ IsSeq(alarms) /\ recorded \in Seq(Signatures \X Kinds)
    /\ next_seq = Len(recorded) /\ Len(alarms) <= Len(recorded)
    /\ Len(alarms) = 0 => Len(recorded) = 0
    /\ \A i \in 1 .. Len(alarms) :
         /\ AlarmAt(recorded, alarms[i], Len(recorded) - Len(alarms) + i - 1)
         /\ alarms[i].prev_link = IF i = 1 THEN window_anchor ELSE alarms[i - 1].link
    /\ \A i, j \in 1 .. Len(alarms) : alarms[i].report = alarms[j].report => i = j
    /\ head = IF Len(alarms) = 0 THEN <<>> ELSE <<alarms[Len(alarms)].link>>
    /\ recorded # <<>> => Unfolded(head[1], Len(recorded)) = recorded

\* A sequence is one of what it holds.
LEMMA SeqIsSeq ==
    ASSUME NEW S, NEW s \in Seq(S)
    PROVE  IsSeq(s)
BY DEF IsSeq

\* What is left of the window, and where it starts, when the first of it go.
WindowMoves(m, shift) ==
    /\ IsSeq(Kept) /\ Len(Kept) = m /\ DOMAIN Kept = 1 .. m
    /\ m = Len(alarms) - shift
    /\ \A i \in 1 .. m : Kept[i] = alarms[i + shift]
    /\ AnchorAfter = IF shift = 1 THEN alarms[1].link ELSE window_anchor
    /\ shift = 1 => Len(alarms) >= 1

\* Room for an alarm is made by dropping the first of the window, or nothing.
LEMMA WindowKept ==
    ASSUME WindowInv
    PROVE  \E m \in Nat, shift \in {0, 1} : WindowMoves(m, shift)
<1> DEFINE R == {alarms[i] : i \in DOMAIN alarms}
           n == Len(alarms)
<1>1. alarms \in Seq(R) /\ n \in Nat /\ DOMAIN alarms = 1 .. n
  BY DEF WindowInv, IsSeq
<1> HIDE DEF R
<1>2. CASE Full
  <2>1. n >= 1
    BY <1>1, <1>2, AlarmConstants DEF Full
  <2>2. /\ Tail(alarms) \in Seq(R) /\ Len(Tail(alarms)) = n - 1
        /\ \A i \in 1 .. n - 1 : Tail(alarms)[i] = alarms[i + 1]
        /\ DOMAIN Tail(alarms) = 1 .. n - 1
    BY <1>1, <2>1
  <2>3. IsSeq(Tail(alarms))
    BY <2>2, SeqIsSeq
  <2>4. n - 1 \in Nat
    BY <1>1, <2>1
  <2>5. Kept = Tail(alarms) /\ AnchorAfter = alarms[1].link
    BY <1>2 DEF Kept, AnchorAfter
  <2>6. WindowMoves(n - 1, 1)
    BY <2>1, <2>2, <2>3, <2>5 DEF WindowMoves
  <2> QED BY <2>4, <2>6
<1>3. CASE ~Full
  <2>1. Kept = alarms /\ AnchorAfter = window_anchor /\ IsSeq(alarms)
    BY <1>3 DEF Kept, AnchorAfter, WindowInv
  <2>2. n = n - 0 /\ \A i \in 1 .. n : i + 0 = i
    BY <1>1
  <2>3. Len(Kept) = n /\ DOMAIN Kept = 1 .. n /\ \A i \in 1 .. n : Kept[i] = alarms[i + 0]
    BY <1>1, <2>1, <2>2
  <2>4. WindowMoves(n, 0)
    BY <1>1, <2>1, <2>2, <2>3 DEF WindowMoves
  <2> QED BY <1>1, <2>4
<1> QED BY <1>2, <1>3

\* The n elements of a sequence that follow the first lo.
LEMMA Segment ==
    ASSUME NEW S, NEW s \in Seq(S), NEW lo \in Nat, NEW n \in Nat, Len(s) = lo + n
    PROVE  SubSeq(s, lo + 1, lo + n) = [i \in 1 .. n |-> s[lo + i]]
<1> DEFINE a == lo + 1
           b == lo + n
<1>1. a \in Int /\ b \in Int /\ \A i \in a .. b : s[i] \in S
  OBVIOUS
<1>2. b - a + 1 = n /\ (a <= b <=> n # 0) /\ \A i \in 1 .. n : a + i - 1 = lo + i
  OBVIOUS
<1> HIDE DEF a, b
<1> DEFINE end == SubSeq(s, a, b)
<1>3. end \in Seq(S)
  BY <1>1, SubSeqProperties
<1>4. Len(end) = IF a <= b THEN b - a + 1 ELSE 0
  BY <1>1, SubSeqProperties
<1>5. \A i \in 1 .. b - a + 1 : end[i] = s[a + i - 1]
  BY <1>1, SubSeqProperties
<1> HIDE DEF end
<1>6. Len(end) = n
  BY <1>2, <1>4
<1>7. \A i \in 1 .. n : end[i] = s[lo + i]
  BY <1>2, <1>5
<1>8. end = [i \in 1 .. n |-> s[lo + i]]
  BY <1>3, <1>6, <1>7
<1> QED BY <1>8 DEF end, a, b

\* An alarm recorded is linked to the one before it, and the window moves on.
LEMMA RecordKeepsWindow ==
    ASSUME WindowInv, NEW report1 \in Signatures, NEW kind \in Kinds, Record(report1, kind)
    PROVE  WindowInv'
<1> DEFINE n == Len(alarms)
           N == Len(recorded)
           last == LastLink
           link == Link(last, report1, kind, next_seq)
           alarm == [seq |-> next_seq, kind |-> kind, report |-> report1, link |-> link,
                     prev_link |-> last]
<1>1. /\ alarms' = Append(Kept, alarm) /\ head' = <<link>> /\ window_anchor' = AnchorAfter
      /\ next_seq' = next_seq + 1 /\ recorded' = Append(recorded, <<report1, kind>>)
      /\ \A i \in DOMAIN alarms : alarms[i].report # report1
  BY DEF Record
<1>2. /\ n \in Nat /\ DOMAIN alarms = 1 .. n /\ N \in Nat /\ next_seq = N /\ n <= N
      /\ n = 0 => N = 0
  BY DEF WindowInv, IsSeq
<1>3. PICK m \in Nat, shift \in {0, 1} :
         /\ IsSeq(Kept) /\ Len(Kept) = m /\ DOMAIN Kept = 1 .. m
         /\ m = n - shift
         /\ \A i \in 1 .. m : Kept[i] = alarms[i + shift]
         /\ AnchorAfter = IF shift = 1 THEN alarms[1].link ELSE window_anchor
         /\ shift = 1 => n >= 1
  <2>1. PICK m \in Nat, shift \in {0, 1} : WindowMoves(m, shift)
    BY WindowKept
  <2> QED BY <2>1 DEF WindowMoves
<1>4. /\ recorded' \in Seq(Signatures \X Kinds) /\ Len(recorded') = N + 1
      /\ recorded'[N + 1] = <<report1, kind>> /\ \A i \in 1 .. N : recorded'[i] = recorded[i]
      /\ recorded' = [k \in 1 .. N + 1 |-> IF k = N + 1 THEN <<report1, kind>> ELSE recorded[k]]
      /\ recorded' # <<>>
  BY <1>1 DEF WindowInv
<1> HIDE DEF alarm
<1>5. /\ IsSeq(alarms') /\ Len(alarms') = m + 1 /\ alarms'[m + 1] = alarm
      /\ \A i \in 1 .. m : alarms'[i] = Kept[i]
  <2> DEFINE R == {Kept[i] : i \in DOMAIN Kept} \cup {alarm}
  <2>1. Kept \in Seq(R) /\ alarm \in R
    <3>1. Kept \in Seq({Kept[i] : i \in DOMAIN Kept})
      BY <1>3 DEF IsSeq
    <3> QED BY <3>1
  <2> HIDE DEF R
  <2>2. /\ alarms' \in Seq(R) /\ Len(alarms') = m + 1 /\ alarms'[m + 1] = alarm
        /\ \A i \in 1 .. m : alarms'[i] = Kept[i]
    BY <1>1, <1>3, <2>1
  <2> QED BY <2>2, SeqIsSeq
<1>6. last = IF n = 0 THEN window_anchor ELSE alarms[n].link
  <2>1. CASE n = 0
    <3>1. shift = 0 /\ head = <<>>
      BY <1>2, <1>3, <2>1 DEF WindowInv
    <3> QED BY <1>3, <2>1, <3>1 DEF LastLink
  <2>2. CASE n # 0
    <3>1. head = <<alarms[n].link>>
      BY <2>2 DEF WindowInv
    <3>2. head # <<>> /\ head[1] = alarms[n].link
      BY <3>1
    <3> QED BY <2>2, <3>2 DEF LastLink
  <2> QED BY <2>1, <2>2
<1>7. \A i \in 1 .. m : /\ alarms'[i] = alarms[i + shift] /\ i + shift \in 1 .. n
                        /\ N + 1 - (m + 1) + i - 1 = N - n + (i + shift) - 1
                        /\ N - n + (i + shift) - 1 \in 0 .. N - 1
  <2> SUFFICES ASSUME NEW i \in 1 .. m
               PROVE  /\ alarms'[i] = alarms[i + shift] /\ i + shift \in 1 .. n
                      /\ N + 1 - (m + 1) + i - 1 = N - n + (i + shift) - 1
                      /\ N - n + (i + shift) - 1 \in 0 .. N - 1
    OBVIOUS
  <2>1. alarms'[i] = alarms[i + shift]
    BY <1>3, <1>5
  <2>2. shift \in Int /\ i \in Int
    OBVIOUS
  <2>3. i + shift \in 1 .. n
    BY <1>2, <1>3, <2>2
  <2>4. N + 1 - (m + 1) + i - 1 = N - n + (i + shift) - 1
    BY <1>2, <1>3, <2>2
  <2> QED BY <1>2, <2>1, <2>3, <2>4
<1>8. \A i \in 1 .. m + 1 : AlarmAt(recorded', alarms'[i], N + 1 - (m + 1) + i - 1)
  <2> SUFFICES ASSUME NEW i \in 1 .. m + 1
               PROVE  AlarmAt(recorded', alarms'[i], N + 1 - (m + 1) + i - 1)
    OBVIOUS
  <2>1. CASE i = m + 1
    <3>1. N + 1 - (m + 1) + i - 1 = N /\ next_seq = N
      BY <1>2, <2>1
    <3>2. AlarmAt(recorded', alarm, N)
      BY <1>2, <1>4 DEF AlarmAt, alarm
    <3> QED BY <1>5, <2>1, <3>1, <3>2
  <2>2. CASE i # m + 1
    <3>1. i \in 1 .. m
      BY <2>2
    <3> DEFINE j == i + shift
               seq == N - n + j - 1
    <3>2. /\ j \in 1 .. n /\ alarms'[i] = alarms[j] /\ N + 1 - (m + 1) + i - 1 = seq
          /\ seq \in 0 .. N - 1
      BY <1>7, <3>1
    <3>3. AlarmAt(recorded, alarms[j], seq)
      BY <3>2 DEF WindowInv
    <3> HIDE DEF j, seq
    <3>4. seq + 1 \in 1 .. N
      BY <1>2, <3>2
    <3>5. recorded'[seq + 1] = recorded[seq + 1]
      BY <1>4, <3>4
    <3> QED BY <3>2, <3>3, <3>5 DEF AlarmAt
  <2> QED BY <2>1, <2>2
<1>9. \A i \in 1 .. m + 1 :
         alarms'[i].prev_link = IF i = 1 THEN window_anchor' ELSE alarms'[i - 1].link
  <2> SUFFICES ASSUME NEW i \in 1 .. m + 1
               PROVE  alarms'[i].prev_link
                         = IF i = 1 THEN window_anchor' ELSE alarms'[i - 1].link
    OBVIOUS
  <2>1. \A k \in 1 .. n :
           alarms[k].prev_link = IF k = 1 THEN window_anchor ELSE alarms[k - 1].link
    BY DEF WindowInv
  <2>2. CASE i = m + 1 /\ i = 1
    <3>1. alarms'[i].prev_link = last /\ m = 0
      BY <1>5, <2>2 DEF alarm
    <3>2. CASE n = 0
      BY <1>1, <1>3, <1>6, <2>2, <3>1, <3>2
    <3>3. CASE n # 0
      <4>1. n = 1 /\ shift = 1
        BY <1>2, <1>3, <3>1, <3>3
      <4> QED BY <1>1, <1>3, <1>6, <2>2, <3>1, <4>1
    <3> QED BY <3>2, <3>3
  <2>3. CASE i = m + 1 /\ i # 1
    <3>1. m \in 1 .. m /\ i - 1 = m /\ m + shift = n /\ n # 0
      BY <1>2, <1>3, <2>3
    <3>2. alarms'[i - 1] = alarms[n]
      BY <1>7, <3>1
    <3> QED BY <1>5, <1>6, <2>3, <3>1, <3>2 DEF alarm
  <2>4. CASE i # m + 1 /\ i = 1
    <3>1. i \in 1 .. m /\ alarms'[i] = alarms[1 + shift] /\ 1 + shift \in 1 .. n
      BY <1>7, <2>4
    <3>2. CASE shift = 0
      <4>1. alarms[1].prev_link = window_anchor
        BY <2>1, <3>1, <3>2
      <4> QED BY <1>1, <1>3, <2>4, <3>1, <3>2, <4>1
    <3>3. CASE shift = 1
      <4>1. alarms[2].prev_link = alarms[1].link
        BY <2>1, <3>1, <3>3, SMTT(30)
      <4> QED BY <1>1, <1>3, <2>4, <3>1, <3>3, <4>1
    <3> QED BY <3>2, <3>3
  <2>5. CASE i # m + 1 /\ i # 1
    <3>1. i \in 1 .. m /\ i - 1 \in 1 .. m /\ shift \in Int
      BY <2>5
    <3>2. /\ alarms'[i] = alarms[i + shift] /\ alarms'[i - 1] = alarms[i - 1 + shift]
          /\ i + shift \in 1 .. n
      BY <1>7, <3>1
    <3>3. i + shift # 1 /\ i - 1 + shift = i + shift - 1
      BY <3>1
    <3> QED BY <2>1, <2>5, <3>2, <3>3
  <2> QED BY <2>2, <2>3, <2>4, <2>5
<1>10. \A i, j \in 1 .. m + 1 : alarms'[i].report = alarms'[j].report => i = j
  <2>1. alarms'[m + 1].report = report1
    BY <1>5 DEF alarm
  <2>2. \A i \in 1 .. m : alarms'[i].report # report1
    BY <1>1, <1>2, <1>7
  <2>3. ASSUME NEW i \in 1 .. m, NEW j \in 1 .. m, alarms'[i].report = alarms'[j].report
        PROVE  i = j
    <3>1. /\ alarms'[i] = alarms[i + shift] /\ alarms'[j] = alarms[j + shift]
          /\ i + shift \in 1 .. n /\ j + shift \in 1 .. n
      BY <1>7
    <3>2. i + shift = j + shift
      BY <2>3, <3>1 DEF WindowInv
    <3>3. i \in Int /\ j \in Int /\ shift \in Int
      OBVIOUS
    <3> QED BY <3>2, <3>3
  <2>4. \A i \in 1 .. m + 1 : i = m + 1 \/ i \in 1 .. m
    OBVIOUS
  <2> QED BY <2>1, <2>2, <2>3, <2>4
<1>11. Unfolded(link, N + 1) = recorded'
  <2>1. Unfolded(link, N + 1)
           = [k \in 1 .. N + 1 |-> IF k = N + 1 THEN <<report1, kind>> ELSE Unfolded(last, N)[k]]
    BY <1>2, UnfoldedGrows
  <2>2. \A k \in 1 .. N + 1 : k # N + 1 => Unfolded(last, N)[k] = recorded[k]
    <3>1. CASE N = 0
      BY <3>1
    <3>2. CASE N # 0
      <4>1. n # 0 /\ recorded # <<>>
        BY <1>2, <3>2
      <4>2. head[1] = last
        BY <1>6, <4>1 DEF WindowInv
      <4> QED BY <4>1, <4>2 DEF WindowInv
    <3> QED BY <3>1, <3>2
  <2> HIDE DEF link, last
  <2> QED BY <1>4, <2>1, <2>2
<1>12. alarms'[m + 1].link = link
  BY <1>5 DEF alarm
<1>13. /\ Len(recorded') - Len(alarms') = N + 1 - (m + 1) /\ Len(alarms') <= Len(recorded')
       /\ Len(alarms') # 0 /\ next_seq' = Len(recorded')
  BY <1>1, <1>2, <1>3, <1>4, <1>5
<1>14. head' = IF Len(alarms') = 0 THEN <<>> ELSE <<alarms'[Len(alarms')].link>>
  BY <1>1, <1>5, <1>12, <1>13
<1>15. Unfolded(head'[1], Len(recorded')) = recorded'
  <2>1. head'[1] = link
    BY <1>1
  <2> QED BY <1>4, <1>11, <2>1
<1> HIDE DEF n, N, last, link
<1>16. \A i \in 1 .. Len(alarms') :
         /\ AlarmAt(recorded', alarms'[i], Len(recorded') - Len(alarms') + i - 1)
         /\ alarms'[i].prev_link = IF i = 1 THEN window_anchor' ELSE alarms'[i - 1].link
  BY <1>5, <1>8, <1>9, <1>13
<1> QED BY <1>4, <1>5, <1>10, <1>13, <1>14, <1>15, <1>16 DEF WindowInv
\* A window that holds the end of its history verifies from its anchor, and not
\* with the kind of any alarm changed.
LEMMA WindowVerifies ==
    ASSUME WindowInv
    PROVE  /\ VerifyIntegrity(alarms, window_anchor)
           /\ \A i, j \in DOMAIN alarms : alarms[i].report = alarms[j].report => i = j
           /\ recorded # <<>> => Unfolded(head[1], Len(recorded)) = recorded
           /\ [i \in DOMAIN alarms |-> <<alarms[i].report, alarms[i].kind>>]
                 = LastOf(recorded, Len(alarms))
           /\ \A i \in DOMAIN alarms : \A kind \in Kinds \ {alarms[i].kind} :
                ~VerifyIntegrity([alarms EXCEPT ![i].kind = kind], window_anchor)
<1> DEFINE n == Len(alarms)
           lo == Len(recorded) - n
<1>1. /\ n \in Nat /\ DOMAIN alarms = 1 .. n /\ Len(recorded) \in Nat /\ lo \in Nat
      /\ \A i \in 1 .. n : AlarmAt(recorded, alarms[i], lo + i - 1)
      /\ \A i \in 1 .. n :
            alarms[i].prev_link = IF i = 1 THEN window_anchor ELSE alarms[i - 1].link
  BY DEF WindowInv, IsSeq
<1> HIDE DEF n, lo
<1>2. \A i \in 1 .. n :
         /\ alarms[i].seq = lo + i - 1
         /\ alarms[i].kind = recorded[lo + i][2] /\ alarms[i].report = recorded[lo + i][1]
         /\ alarms[i].link = Link(alarms[i].prev_link, alarms[i].report, alarms[i].kind,
                                  alarms[i].seq)
         /\ DOMAIN alarms[i] = {"seq", "kind", "report", "link", "prev_link"}
  <2> SUFFICES ASSUME NEW i \in 1 .. n
               PROVE  /\ alarms[i].seq = lo + i - 1
                      /\ alarms[i].kind = recorded[lo + i][2]
                      /\ alarms[i].report = recorded[lo + i][1]
                      /\ alarms[i].link = Link(alarms[i].prev_link, alarms[i].report,
                                               alarms[i].kind, alarms[i].seq)
                      /\ DOMAIN alarms[i] = {"seq", "kind", "report", "link", "prev_link"}
    OBVIOUS
  <2>1. lo + i - 1 + 1 = lo + i
    BY <1>1
  <2>2. AlarmAt(recorded, alarms[i], lo + i - 1)
    BY <1>1
  <2> QED BY <2>1, <2>2 DEF AlarmAt
<1>3. VerifyIntegrity(alarms, window_anchor)
  <2>1. \A i \in 1 .. n : i > 1 => alarms[i].seq > alarms[i - 1].seq
    <3> SUFFICES ASSUME NEW i \in 1 .. n, i > 1 PROVE alarms[i].seq > alarms[i - 1].seq
      OBVIOUS
    <3>1. i - 1 \in 1 .. n
      BY <1>1
    <3>2. alarms[i].seq = lo + i - 1 /\ alarms[i - 1].seq = lo + (i - 1) - 1
      BY <1>2, <3>1
    <3> QED BY <1>1, <3>2
  <2> QED BY <1>1, <1>2, <2>1 DEF VerifyIntegrity
<1>4. [i \in DOMAIN alarms |-> <<alarms[i].report, alarms[i].kind>>] = LastOf(recorded, n)
  <2>1. recorded \in Seq(Signatures \X Kinds) /\ Len(recorded) = lo + n
    BY <1>1 DEF WindowInv, lo, n
  <2> DEFINE end == SubSeq(recorded, lo + 1, lo + n)
  <2>2. end = [i \in 1 .. n |-> recorded[lo + i]]
    BY <1>1, <2>1, Segment
  <2>3. \A i \in 1 .. n : <<alarms[i].report, alarms[i].kind>> = recorded[lo + i]
    <3> SUFFICES ASSUME NEW i \in 1 .. n
                 PROVE  <<alarms[i].report, alarms[i].kind>> = recorded[lo + i]
      OBVIOUS
    <3>1. recorded[lo + i] \in Signatures \X Kinds
      <4>1. lo + i \in 1 .. Len(recorded)
        BY <1>1, <2>1
      <4> QED BY <2>1, <4>1
    <3> QED BY <1>2, <3>1
  <2>4. LastOf(recorded, n) = end
    <3>1. Len(recorded) - n + 1 = lo + 1
      BY <1>1, <2>1
    <3> QED BY <2>1, <3>1 DEF LastOf
  <2> HIDE DEF end
  <2> QED BY <1>1, <2>2, <2>3, <2>4
<1>5. ASSUME NEW i \in DOMAIN alarms, NEW kind \in Kinds \ {alarms[i].kind}
      PROVE  ~VerifyIntegrity([alarms EXCEPT ![i].kind = kind], window_anchor)
  <2> DEFINE spoiled == [alarms EXCEPT ![i].kind = kind]
  <2>1. i \in DOMAIN spoiled /\ spoiled[i] = [alarms[i] EXCEPT !.kind = kind]
    OBVIOUS
  <2>2. /\ spoiled[i].kind = kind /\ spoiled[i].link = alarms[i].link
        /\ alarms[i].kind # kind
    BY <1>1, <1>2, <2>1
  <2> HIDE DEF spoiled
  <2>3. spoiled[i].link[3] = alarms[i].kind
    BY <1>1, <1>2, <2>2 DEF Link
  <2>4. Link(spoiled[i].prev_link, spoiled[i].report, spoiled[i].kind, spoiled[i].seq)[3] = kind
    BY <2>2 DEF Link
  <2>5. ~VerifyIntegrity(spoiled, window_anchor)
    BY <2>1, <2>2, <2>3, <2>4 DEF VerifyIntegrity
  <2> QED BY <2>5 DEF spoiled
<1>6. /\ \A i, j \in DOMAIN alarms : alarms[i].report = alarms[j].report => i = j
      /\ recorded # <<>> => Unfolded(head[1], Len(recorded)) = recorded
  BY <1>1 DEF WindowInv, n
<1> QED BY <1>3, <1>4, <1>5, <1>6 DEF n

-----------------------------------------------------------------------------
(* The ledger of banned programs.                                          *)

\* The entry of the ban made after n others.
BanOf(history, n) == [hash |-> history[n + 1][1], reason |-> history[n + 1][2], seq |-> n]

\* The ledger holds the last bans of the history.
LedgerInv ==
    /\ bans \in Seq(BannedHashes \X Kinds) /\ ban_seq = Len(bans)
    /\ IsFiniteSet(banned) /\ Cardinality(banned) <= Len(bans)
    /\ banned = {BanOf(bans, n) : n \in Len(bans) - Cardinality(banned) .. Len(bans) - 1}

\* What is left of the ledger when one more is to come in: the last of it.
LEMMA LedgerKept ==
    ASSUME LedgerInv
    PROVE  LET kept == IF Cardinality(banned) >= MAX_QUARANTINE_ENTRIES
                       THEN banned \ Oldest(banned) ELSE banned
           IN  /\ IsFiniteSet(kept) /\ Cardinality(kept) <= Len(bans)
               /\ kept = {BanOf(bans, n) : n \in Len(bans) - Cardinality(kept) .. Len(bans) - 1}
<1> DEFINE kept == IF Cardinality(banned) >= MAX_QUARANTINE_ENTRIES
                   THEN banned \ Oldest(banned) ELSE banned
           N == Len(bans)
           c == Cardinality(banned)
           lo == N - c
<1>1. N \in Nat /\ c \in Nat /\ lo \in Nat
  BY FS_CardinalityType DEF LedgerInv
<1>2. banned = {BanOf(bans, n) : n \in lo .. N - 1} /\ IsFiniteSet(banned)
  BY DEF LedgerInv
<1>3. CASE c >= MAX_QUARANTINE_ENTRIES
  <2>1. c >= 1
    BY <1>1, <1>3, AlarmConstants
  <2> HIDE DEF N, c
  <2>2. \A n \in Nat : BanOf(bans, n).seq = n
    BY DEF BanOf
  <2>3. Oldest(banned) = {BanOf(bans, lo)}
    <3>1. lo \in lo .. N - 1 /\ \A n \in lo .. N - 1 : n \in Nat /\ lo <= n
      BY <1>1, <2>1
    <3>2. BanOf(bans, lo) \in Oldest(banned)
      BY <1>1, <1>2, <2>2, <3>1 DEF Oldest
    <3>3. ASSUME NEW e \in Oldest(banned) PROVE e = BanOf(bans, lo)
      <4>1. PICK n \in lo .. N - 1 : e = BanOf(bans, n)
        BY <1>2, <3>3 DEF Oldest
      <4>2. e.seq <= BanOf(bans, lo).seq
        BY <1>2, <3>1, <3>3 DEF Oldest
      <4>3. n <= lo /\ lo <= n
        BY <1>1, <2>2, <3>1, <4>1, <4>2
      <4>4. n = lo
        BY <1>1, <3>1, <4>3
      <4> QED BY <4>1, <4>4
    <3> QED BY <3>2, <3>3
  <2>4. kept = banned \ {BanOf(bans, lo)} /\ BanOf(bans, lo) \in banned
    BY <1>3, <2>3 DEF Oldest, c
  <2>5. IsFiniteSet(kept) /\ Cardinality(kept) = c - 1
    BY <1>2, <2>4, FS_RemoveElement DEF c
  <2>6. kept = {BanOf(bans, n) : n \in lo + 1 .. N - 1}
    <3>1. \A n \in lo .. N - 1 : BanOf(bans, n) = BanOf(bans, lo) <=> n = lo
      BY <1>1, <2>2
    <3>2. \A n \in lo .. N - 1 : n = lo \/ n \in lo + 1 .. N - 1
      BY <1>1
    <3>3. \A n \in lo + 1 .. N - 1 : n # lo /\ n \in lo .. N - 1
      BY <1>1
    <3> HIDE DEF lo
    <3> QED BY <1>2, <2>4, <3>1, <3>2, <3>3
  <2>7. N - Cardinality(kept) = lo + 1 /\ Cardinality(kept) <= N
    BY <1>1, <2>5
  <2> HIDE DEF lo, kept
  <2>8. /\ IsFiniteSet(kept) /\ Cardinality(kept) <= N
        /\ kept = {BanOf(bans, n) : n \in N - Cardinality(kept) .. N - 1}
    BY <2>5, <2>6, <2>7
  <2> QED BY <2>8 DEF kept, N
<1>4. CASE ~(c >= MAX_QUARANTINE_ENTRIES)
  BY <1>4 DEF LedgerInv
<1> QED BY <1>3, <1>4

\* A ban comes in at the end.
LEMMA BanKeepsLedger ==
    ASSUME LedgerInv, NEW hash \in BannedHashes, NEW reason \in Kinds, Ban(hash, reason)
    PROVE  LedgerInv'
<1> DEFINE kept == IF Cardinality(banned) >= MAX_QUARANTINE_ENTRIES
                   THEN banned \ Oldest(banned) ELSE banned
           N == Len(bans)
           c == Cardinality(kept)
           entry1 == [hash |-> hash, reason |-> reason, seq |-> ban_seq]
<1>1. /\ banned' = kept \union {entry1} /\ ban_seq' = ban_seq + 1
      /\ bans' = Append(bans, <<hash, reason>>)
  BY DEF Ban
<1>2. /\ IsFiniteSet(kept) /\ c <= N
      /\ kept = {BanOf(bans, n) : n \in N - c .. N - 1}
  BY LedgerKept
<1> HIDE DEF kept
<1>3. /\ N \in Nat /\ c \in Nat /\ ban_seq = N /\ bans \in Seq(BannedHashes \X Kinds)
  BY <1>2, FS_CardinalityType DEF LedgerInv
<1>4. /\ bans' \in Seq(BannedHashes \X Kinds) /\ Len(bans') = N + 1
      /\ bans'[N + 1] = <<hash, reason>> /\ \A i \in 1 .. N : bans'[i] = bans[i]
  BY <1>1, <1>3
<1> HIDE DEF N, c
<1>5. BanOf(bans', N) = entry1 /\ \A n \in N - c .. N - 1 : BanOf(bans', n) = BanOf(bans, n)
  <2>1. \A n \in N - c .. N - 1 : n + 1 \in 1 .. N
    BY <1>2, <1>3
  <2>2. bans'[N + 1][1] = hash /\ bans'[N + 1][2] = reason
    BY <1>4
  <2>3. BanOf(bans', N) = entry1
    BY <1>3, <2>2 DEF BanOf
  <2>4. \A n \in N - c .. N - 1 : bans'[n + 1] = bans[n + 1]
    BY <1>4, <2>1
  <2>5. \A n \in N - c .. N - 1 : BanOf(bans', n) = BanOf(bans, n)
    BY <2>4 DEF BanOf
  <2> HIDE DEF entry1
  <2> QED BY <2>3, <2>5
<1>6. entry1 \notin kept
  <2>1. \A n \in N - c .. N - 1 : BanOf(bans, n).seq = n /\ n # N
    BY <1>2, <1>3 DEF BanOf
  <2>2. entry1.seq = N
    BY <1>3
  <2> HIDE DEF entry1
  <2> QED BY <1>2, <2>1, <2>2
<1>7. IsFiniteSet(banned') /\ Cardinality(banned') = c + 1
  <2> HIDE DEF entry1
  <2> QED BY <1>1, <1>2, <1>6, FS_AddElement DEF c
<1>8. banned' = {BanOf(bans', n) : n \in N - c .. N}
  <2>1. \A n \in N - c .. N : n = N \/ n \in N - c .. N - 1
    BY <1>2, <1>3
  <2>2. N \in N - c .. N /\ \A n \in N - c .. N - 1 : n \in N - c .. N
    BY <1>2, <1>3
  <2> HIDE DEF entry1
  <2> QED BY <1>1, <1>2, <1>5, <2>1, <2>2
<1>9. N + 1 - (c + 1) = N - c /\ N + 1 - 1 = N /\ c + 1 <= N + 1
  BY <1>2, <1>3
<1>10. Len(bans') - Cardinality(banned') = N - c /\ Len(bans') - 1 = N
       /\ Cardinality(banned') <= Len(bans') /\ ban_seq' = Len(bans')
  BY <1>1, <1>3, <1>4, <1>7, <1>9
<1> QED BY <1>4, <1>7, <1>8, <1>10 DEF LedgerInv

\* The banned programs are those of the last bans, with their reasons.
LEMMA LedgerIsLastBans ==
    ASSUME LedgerInv
    PROVE  {<<e.hash, e.reason>> : e \in banned}
              = {bans[i] : i \in Len(bans) - Cardinality(banned) + 1 .. Len(bans)}
<1> DEFINE N == Len(bans)
           lo == N - Cardinality(banned)
<1>1. /\ N \in Nat /\ lo \in Nat /\ bans \in Seq(BannedHashes \X Kinds)
      /\ banned = {BanOf(bans, n) : n \in lo .. N - 1}
  BY FS_CardinalityType DEF LedgerInv
<1> HIDE DEF N, lo
<1>2. \A i \in 1 .. N : bans[i] = <<bans[i][1], bans[i][2]>>
  <2>1. \A i \in 1 .. N : bans[i] \in BannedHashes \X Kinds
    BY <1>1 DEF N
  <2> QED BY <2>1
<1>3. \A n \in lo .. N - 1 : /\ n + 1 \in lo + 1 .. N /\ n + 1 \in 1 .. N
                             /\ <<BanOf(bans, n).hash, BanOf(bans, n).reason>> = bans[n + 1]
  <2>1. \A n \in lo .. N - 1 : n + 1 \in lo + 1 .. N /\ n + 1 \in 1 .. N
    BY <1>1
  <2> QED BY <1>2, <2>1 DEF BanOf
<1>4. \A i \in lo + 1 .. N : i - 1 \in lo .. N - 1 /\ i - 1 + 1 = i
  BY <1>1
<1>5. ASSUME NEW e \in banned PROVE \E i \in lo + 1 .. N : <<e.hash, e.reason>> = bans[i]
  BY <1>1, <1>3
<1>6. ASSUME NEW i \in lo + 1 .. N PROVE \E e \in banned : bans[i] = <<e.hash, e.reason>>
  <2> DEFINE e == BanOf(bans, i - 1)
  <2>1. e \in banned
    BY <1>1, <1>4
  <2>2. bans[i] = <<e.hash, e.reason>>
    BY <1>3, <1>4
  <2> HIDE DEF e
  <2> QED BY <2>1, <2>2
<1>7. {<<e.hash, e.reason>> : e \in banned} = {bans[i] : i \in lo + 1 .. N}
  <2>1. {<<e.hash, e.reason>> : e \in banned} \subseteq {bans[i] : i \in lo + 1 .. N}
    BY <1>5
  <2>2. {bans[i] : i \in lo + 1 .. N} \subseteq {<<e.hash, e.reason>> : e \in banned}
    BY <1>6
  <2> QED BY <2>1, <2>2
<1> QED BY <1>7 DEF N, lo

\* The inductive invariant of the alarm log.
AlarmInv == WindowInv /\ LedgerInv

\* A log and a ledger that begin empty.
LEMMA AlarmStarts == AlarmInit => AlarmInv
<1> SUFFICES ASSUME AlarmInit PROVE AlarmInv
  OBVIOUS
<1>1. /\ alarms = <<>> /\ recorded = <<>> /\ bans = <<>> /\ banned = {} /\ head = <<>>
      /\ next_seq = 0 /\ ban_seq = 0
  BY DEF AlarmInit
<1>2. WindowInv
  BY <1>1 DEF WindowInv, IsSeq
<1>3. Len(bans) - Cardinality(banned) = 0 /\ Len(bans) - 1 = -1 /\ IsFiniteSet(banned)
      /\ Cardinality(banned) <= Len(bans) /\ bans \in Seq(BannedHashes \X Kinds)
      /\ Len(bans) = 0
  BY <1>1, FS_EmptySet
<1>4. 0 .. (-1) = {}
  OBVIOUS
<1>5. LedgerInv
  BY <1>1, <1>3, <1>4 DEF LedgerInv
<1> QED BY <1>2, <1>5 DEF AlarmInv

\* Every alarm and every ban keeps both.
LEMMA AlarmStep == AlarmInv /\ [AlarmNext]_alarmVars => AlarmInv'
<1> SUFFICES ASSUME AlarmInv, [AlarmNext]_alarmVars PROVE AlarmInv'
  OBVIOUS
<1>1. ASSUME UNCHANGED <<alarms, head, window_anchor, next_seq, recorded>> PROVE WindowInv'
  BY <1>1 DEF AlarmInv, WindowInv
<1>2. ASSUME UNCHANGED <<banned, ban_seq, bans>> PROVE LedgerInv'
  BY <1>2 DEF AlarmInv, LedgerInv
<1>3. ASSUME NEW report1 \in Signatures, NEW kind \in Kinds, Record(report1, kind) PROVE AlarmInv'
  <2>1. UNCHANGED <<banned, ban_seq, bans>>
    BY <1>3 DEF Record
  <2> QED BY <1>2, <1>3, <2>1, RecordKeepsWindow DEF AlarmInv
<1>4. ASSUME NEW hash \in BannedHashes, NEW reason \in Kinds, Ban(hash, reason) PROVE AlarmInv'
  <2>1. UNCHANGED <<alarms, head, window_anchor, next_seq, recorded>>
    BY <1>4 DEF Ban
  <2> QED BY <1>1, <1>4, <2>1, BanKeepsLedger DEF AlarmInv
<1>5. CASE UNCHANGED alarmVars
  BY <1>1, <1>2, <1>5 DEF alarmVars, AlarmInv
<1> QED BY <1>3, <1>4, <1>5 DEF AlarmNext

\* However many alarms and bans there were and whatever the caps, the window
\* verifies, the latest link unfolds into every alarm there ever was, and the
\* ledger holds the last bans.
THEOREM AlarmsChain == AlarmSpec => []AlarmsAreChained
<1>1. AlarmInv => AlarmsAreChained
  BY WindowVerifies, LedgerIsLastBans DEF AlarmInv, AlarmsAreChained
<1> QED BY <1>1, AlarmStarts, AlarmStep, PTL DEF AlarmSpec

\* --- the account state: what is on the file --------------------------------

Tables == [AccountIds -> Nat]
StateTypeOK ==
    /\ accounts \in Tables /\ disk \in Tables
    /\ backup_stack \in Seq(Tables) /\ begun \in Seq(Nat) /\ Len(begun) = Len(backup_stack)
    /\ saving \in {"no", "write", "rename"}
    /\ written \in Nat /\ discarded \subseteq 1 .. written

\* A table of accounts written so far, none of them taken back.
Stands(table, upto) == \A id \in AccountIds : table[id] <= upto /\ table[id] \notin discarded

\* The tables to go back to stand, each with what was written before it was put
\* by; the file is no newer than the oldest of them.
StackStands ==
    /\ \A i \in 1 .. Len(begun) : Stands(backup_stack[i], begun[i]) /\ begun[i] <= written
    /\ \A i, j \in 1 .. Len(begun) : i < j => begun[i] <= begun[j]
    /\ \A i \in 1 .. Len(begun) : \A id \in AccountIds : disk[id] <= begun[i]

\* An account on the file is in memory and in every table to go back to.
FileIsCovered ==
    \A id \in AccountIds : disk[id] # 0 =>
        accounts[id] # 0 /\ \A i \in 1 .. Len(begun) : backup_stack[i][id] # 0

\* The inductive invariant of the store.
StoreInv ==
    /\ StateTypeOK
    /\ Stands(accounts, written) /\ Stands(disk, written) /\ StackStands /\ FileIsCovered
    /\ disk \in offered
    /\ saving # "no" => backup_stack = <<>> /\ accounts \in offered

\* It holds of a state with no accounts.
LEMMA StoreStarts == StateInit => StoreInv
<1> SUFFICES ASSUME StateInit PROVE StoreInv
  OBVIOUS
<1>1. NoFile \in Tables /\ \A id \in AccountIds : NoFile[id] = 0
  BY DEF NoFile, Tables
<1>2. StateTypeOK
  BY <1>1 DEF StateInit, StateTypeOK
<1>3. Len(begun) = 0
  BY DEF StateInit
<1>4. Stands(accounts, written) /\ Stands(disk, written)
  BY <1>1 DEF StateInit, Stands
<1>5. StackStands /\ FileIsCovered
  BY <1>1, <1>3 DEF StateInit, StackStands, FileIsCovered
<1> QED BY <1>2, <1>4, <1>5 DEF StateInit, StoreInv

\* What is left of a stack when its last entry is taken off.
LEMMA PoppedStack ==
    ASSUME NEW S, NEW stack \in Seq(S), stack # <<>>
    PROVE  /\ Popped(stack) \in Seq(S) /\ Len(Popped(stack)) = Len(stack) - 1
           /\ \A i \in 1 .. Len(stack) - 1 : Popped(stack)[i] = stack[i]
           /\ Len(stack) \in 1 .. Len(stack) /\ Top(stack) = stack[Len(stack)] /\ Top(stack) \in S
           /\ Len(stack) \in Nat
<1> DEFINE n == Len(stack)
<1>1. n \in Nat /\ n > 0 /\ n \in 1 .. n /\ n - 1 \in Nat
  OBVIOUS
<1>2. Popped(stack) = SubSeq(stack, 1, n - 1)
  BY DEF Popped
<1>3. \A i \in 1 .. n : stack[i] \in S
  OBVIOUS
<1>4. Popped(stack) = [i \in 1 .. n - 1 |-> stack[i]]
  BY <1>1, <1>2
<1> HIDE DEF n
<1>5. Popped(stack) \in Seq(S) /\ Len(Popped(stack)) = n - 1
  BY <1>1, <1>3, <1>4
<1>6. \A i \in 1 .. n - 1 : Popped(stack)[i] = stack[i]
  BY <1>4
<1>7. Top(stack) = stack[n] /\ Top(stack) \in S
  BY <1>1, <1>3 DEF Top, n
<1> QED BY <1>1, <1>5, <1>6, <1>7 DEF n

\* What Append adds to a stack, and what it keeps.
LEMMA PushedStack ==
    ASSUME NEW S, NEW stack \in Seq(S), NEW e \in S
    PROVE  /\ Append(stack, e) \in Seq(S) /\ Len(Append(stack, e)) = Len(stack) + 1
           /\ \A i \in 1 .. Len(stack) : Append(stack, e)[i] = stack[i]
           /\ Append(stack, e)[Len(stack) + 1] = e
           /\ Len(stack) \in Nat
OBVIOUS

\* Each operation, and a crash before or after each, keeps it.
LEMMA StoreStep == StoreInv /\ [StateNext]_stateVars => StoreInv'
<1> SUFFICES ASSUME StoreInv, [StateNext]_stateVars PROVE StoreInv'
  OBVIOUS
<1> USE DEF StoreInv
<1>0. Len(begun) \in Nat /\ written \in Nat
  BY DEF StateTypeOK
<1>1. ASSUME NEW id \in AccountIds, SetAccount(id) PROVE StoreInv'
  <2>1. written' = written + 1 /\ accounts' = [accounts EXCEPT ![id] = written + 1]
        /\ UNCHANGED <<backup_stack, saving, temp, disk, begun, discarded, offered>> /\ saving = "no"
    BY <1>1 DEF SetAccount
  <2>2. StateTypeOK'
    BY <1>0, <2>1 DEF StateTypeOK, Tables
  <2>3. \A x \in AccountIds : accounts'[x] = IF x = id THEN written + 1 ELSE accounts[x]
    BY <2>1 DEF StateTypeOK, Tables
  <2>4. written + 1 \notin discarded
    BY <1>0 DEF StateTypeOK
  <2>5. \A x \in AccountIds : accounts[x] \in Nat /\ disk[x] \in Nat
    BY DEF StateTypeOK, Tables
  <2>6. Stands(accounts, written)' /\ Stands(disk, written)'
    BY <1>0, <2>1, <2>3, <2>4, <2>5 DEF Stands
  <2>7. StackStands'
    <3>1. \A i \in 1 .. Len(begun) : begun[i] \in Nat
      BY DEF StateTypeOK
    <3> QED BY <1>0, <2>1, <3>1 DEF StackStands, Stands
  <2>8. FileIsCovered'
    BY <1>0, <2>1, <2>3 DEF FileIsCovered
  <2> QED BY <2>1, <2>2, <2>6, <2>7, <2>8
<1>2. CASE BeginTransaction
  <2>1. /\ saving = "no" /\ backup_stack' = Append(backup_stack, accounts) /\ begun' = Append(begun, written)
        /\ UNCHANGED <<accounts, saving, temp, disk, written, discarded, offered>>
    BY <1>2 DEF BeginTransaction
  <2>2. /\ begun' \in Seq(Nat) /\ Len(begun') = Len(begun) + 1 /\ begun'[Len(begun) + 1] = written
        /\ \A i \in 1 .. Len(begun) : begun'[i] = begun[i]
    BY <1>0, <2>1, PushedStack DEF StateTypeOK
  <2>3. /\ backup_stack' \in Seq(Tables) /\ Len(backup_stack') = Len(begun) + 1
        /\ backup_stack'[Len(begun) + 1] = accounts
        /\ \A i \in 1 .. Len(begun) : backup_stack'[i] = backup_stack[i]
    BY <2>1, PushedStack DEF StateTypeOK
  <2>4. StateTypeOK'
    BY <2>1, <2>2, <2>3 DEF StateTypeOK
  <2>5. Stands(accounts, written)' /\ Stands(disk, written)'
    BY <2>1 DEF Stands
  <2>6. \A i \in 1 .. Len(begun) + 1 : i \in 1 .. Len(begun) \/ i = Len(begun) + 1
    BY <1>0
  <2>7. StackStands'
    <3>1. \A i \in 1 .. Len(begun) : begun[i] \in Nat /\ begun[i] <= written /\ Stands(backup_stack[i], begun[i])
      BY DEF StateTypeOK, StackStands
    <3>2. \A i \in 1 .. Len(begun') :
             /\ begun'[i] <= written'
             /\ \A id \in AccountIds : backup_stack'[i][id] <= begun'[i] /\ backup_stack'[i][id] \notin discarded'
      BY <1>0, <2>1, <2>2, <2>3, <2>6, <3>1 DEF Stands
    <3>3. \A i, j \in 1 .. Len(begun') : i < j => begun'[i] <= begun'[j]
      BY <1>0, <2>2, <2>6, <3>1 DEF StackStands
    <3>4. \A i \in 1 .. Len(begun') : \A id \in AccountIds : disk'[id] <= begun'[i]
      BY <2>1, <2>2, <2>6 DEF StackStands, Stands
    <3> QED BY <3>2, <3>3, <3>4 DEF StackStands, Stands
  <2>8. FileIsCovered'
    BY <2>1, <2>2, <2>3, <2>6 DEF FileIsCovered
  <2> QED BY <2>1, <2>4, <2>5, <2>7, <2>8
<1>3. CASE Commit
  <2>1. /\ saving = "no" /\ backup_stack' = (IF backup_stack = <<>> THEN <<>> ELSE Popped(backup_stack))
        /\ begun' = (IF begun = <<>> THEN <<>> ELSE Popped(begun))
        /\ saving' = (IF Len(backup_stack) <= 1 THEN "write" ELSE "no")
        /\ offered' = (IF Len(backup_stack) <= 1 THEN offered \union {accounts} ELSE offered)
        /\ UNCHANGED <<accounts, temp, disk, written, discarded>>
    BY <1>3 DEF Commit, OutermostCommit
  <2>2. begun = <<>> <=> backup_stack = <<>>
    BY DEF StateTypeOK
  <2>3. /\ begun' \in Seq(Nat) /\ backup_stack' \in Seq(Tables) /\ Len(begun') = Len(backup_stack')
        /\ Len(begun') \in Nat /\ Len(begun') <= Len(begun) /\ (Len(begun) <= 1 => Len(begun') = 0)
        /\ \A i \in 1 .. Len(begun') : begun'[i] = begun[i] /\ backup_stack'[i] = backup_stack[i]
    <3>1. CASE begun = <<>>
      BY <2>1, <2>2, <3>1
    <3>2. CASE begun # <<>>
      <4>1. begun \in Seq(Nat) /\ backup_stack \in Seq(Tables) /\ backup_stack # <<>> /\ Len(begun) = Len(backup_stack)
        BY <2>2, <3>2 DEF StateTypeOK
      <4>2. begun' = Popped(begun) /\ backup_stack' = Popped(backup_stack)
        BY <2>1, <3>2, <4>1
      <4>3. /\ Popped(begun) \in Seq(Nat) /\ Len(Popped(begun)) = Len(begun) - 1
            /\ \A i \in 1 .. Len(begun) - 1 : Popped(begun)[i] = begun[i]
            /\ Len(begun) \in 1 .. Len(begun)
        BY <3>2, <4>1, PoppedStack
      <4>4. /\ Popped(backup_stack) \in Seq(Tables) /\ Len(Popped(backup_stack)) = Len(begun) - 1
            /\ \A i \in 1 .. Len(begun) - 1 : Popped(backup_stack)[i] = backup_stack[i]
        BY <4>1, PoppedStack
      <4> QED BY <1>0, <4>2, <4>3, <4>4
    <3> QED BY <3>1, <3>2
  <2>4. StateTypeOK'
    BY <2>1, <2>3 DEF StateTypeOK
  <2>5. Stands(accounts, written)' /\ Stands(disk, written)'
    BY <2>1 DEF Stands
  <2>6. \A i \in 1 .. Len(begun') : i \in 1 .. Len(begun)
    BY <1>0, <2>3
  <2>7. StackStands'
    BY <2>1, <2>3, <2>6 DEF StackStands, Stands
  <2>8. FileIsCovered'
    BY <2>1, <2>3, <2>6 DEF FileIsCovered
  <2>9. saving' # "no" => backup_stack' = <<>> /\ accounts' \in offered'
    <3>1. Len(begun) = Len(backup_stack)
      BY DEF StateTypeOK
    <3> QED BY <2>1, <2>3, <3>1
  <2>10. disk' \in offered'
    BY <2>1
  <2> QED BY <2>4, <2>5, <2>7, <2>8, <2>9, <2>10
<1>4. CASE WriteTemp
  <2>1. /\ saving' \in {"no", "rename"} /\ saving = "write"
        /\ UNCHANGED <<accounts, backup_stack, disk, written, begun, discarded, offered>>
    BY <1>4 DEF WriteTemp
  <2> QED BY <2>1 DEF StateTypeOK, Stands, StackStands, FileIsCovered
<1>5. CASE Rename
  <2>1. /\ saving = "rename" /\ saving' = "no" /\ disk' \in {disk, accounts}
        /\ UNCHANGED <<accounts, backup_stack, written, begun, discarded, offered>>
    BY <1>5 DEF Rename
  <2>2. backup_stack = <<>> /\ Len(begun) = 0 /\ accounts \in offered
    BY <2>1 DEF StateTypeOK
  <2>3. StateTypeOK'
    BY <2>1 DEF StateTypeOK
  <2>4. Stands(accounts, written)' /\ Stands(disk, written)'
    BY <2>1 DEF Stands
  <2>5. StackStands' /\ FileIsCovered'
    BY <2>1, <2>2 DEF StackStands, FileIsCovered
  <2> QED BY <2>1, <2>2, <2>3, <2>4, <2>5
<1>6. CASE Rollback
  <2>1. /\ saving = "no" /\ backup_stack # <<>>
        /\ accounts' = Top(backup_stack) /\ backup_stack' = Popped(backup_stack)
        /\ discarded' = discarded \union (Top(begun) + 1 .. written) /\ begun' = Popped(begun)
        /\ UNCHANGED <<saving, temp, disk, written, offered>>
    BY <1>6 DEF Rollback
  <2>2. begun \in Seq(Nat) /\ backup_stack \in Seq(Tables) /\ begun # <<>> /\ Len(begun) = Len(backup_stack)
    BY <2>1 DEF StateTypeOK
  <2> DEFINE n == Len(begun)
  <2>3. /\ begun' \in Seq(Nat) /\ Len(begun') = n - 1 /\ \A i \in 1 .. n - 1 : begun'[i] = begun[i]
        /\ n \in 1 .. n /\ n \in Nat /\ Top(begun) = begun[n] /\ begun[n] \in Nat
    BY <2>1, <2>2, PoppedStack
  <2>4. /\ backup_stack' \in Seq(Tables) /\ Len(backup_stack') = n - 1
        /\ \A i \in 1 .. n - 1 : backup_stack'[i] = backup_stack[i]
        /\ accounts' = backup_stack[n] /\ accounts' \in Tables
    BY <2>1, <2>2, PoppedStack
  <2>5. discarded' = discarded \union (begun[n] + 1 .. written)
    BY <2>1, <2>3
  <2>6. StateTypeOK'
    <3>1. discarded' \subseteq 1 .. written
      <4>1. \A v \in begun[n] + 1 .. written : v \in 1 .. written
        BY <1>0, <2>3
      <4> QED BY <2>5, <4>1 DEF StateTypeOK
    <3>2. Len(begun') = Len(backup_stack')
      BY <2>3, <2>4
    <3> QED BY <2>1, <2>3, <2>4, <3>1, <3>2 DEF StateTypeOK
  <2>7. /\ Stands(backup_stack[n], begun[n]) /\ begun[n] <= written
        /\ \A id \in AccountIds : disk[id] <= begun[n]
    BY <2>3 DEF StackStands
  <2>8. \A i \in 1 .. n - 1 : i \in 1 .. n /\ begun[i] <= begun[n] /\ begun[i] \in Nat
    <3>1. \A i \in 1 .. n : begun[i] \in Nat
      BY <2>2
    <3>2. \A i \in 1 .. n - 1 : i \in 1 .. n /\ i < n
      BY <2>3
    <3> QED BY <2>3, <3>1, <3>2 DEF StackStands
  <2>9. ASSUME NEW table \in Tables, NEW upto \in Nat, upto <= begun[n], Stands(table, upto)
        PROVE  \A id \in AccountIds : table[id] <= upto /\ table[id] <= written' /\ table[id] \notin discarded'
    <3>1. \A id \in AccountIds : table[id] \in Nat /\ table[id] <= upto /\ table[id] \notin discarded
      BY <2>9 DEF Stands, Tables
    <3> QED BY <1>0, <2>1, <2>3, <2>5, <2>7, <2>9, <3>1
  <2>10. Stands(accounts, written)'
    <3>1. PICK table \in Tables : table = backup_stack[n]
      BY <2>2, <2>3
    <3>2. PICK top \in Nat : top = begun[n]
      BY <2>3
    <3>3. Stands(table, top) /\ top <= begun[n]
      BY <2>3, <2>7, <3>1, <3>2
    <3>4. \A id \in AccountIds : table[id] <= written' /\ table[id] \notin discarded'
      BY <2>9, <3>3
    <3>5. accounts' = table
      BY <2>4, <3>1
    <3> QED BY <3>4, <3>5 DEF Stands
  <2>11. Stands(disk, written)'
    BY <1>0, <2>1, <2>5, <2>7, <2>3 DEF Stands, StateTypeOK, Tables
  <2>12. StackStands'
    <3>1. ASSUME NEW i \in 1 .. n - 1
          PROVE  \A id \in AccountIds : backup_stack'[i][id] <= begun'[i] /\ backup_stack'[i][id] \notin discarded'
      <4>1. PICK table \in Tables : table = backup_stack[i]
        BY <2>2, <2>8
      <4>2. PICK top \in Nat : top = begun[i]
        BY <2>8
      <4>3. Stands(table, top) /\ top <= begun[n]
        BY <2>8, <4>1, <4>2 DEF StackStands
      <4>4. \A id \in AccountIds : table[id] <= top /\ table[id] \notin discarded'
        BY <2>9, <4>3
      <4>5. backup_stack'[i] = table /\ begun'[i] = top
        BY <2>3, <2>4, <4>1, <4>2
      <4> QED BY <4>4, <4>5
    <3>2. \A i \in 1 .. n - 1 : begun'[i] <= written'
      BY <1>0, <2>1, <2>3, <2>8 DEF StackStands
    <3>3. \A i, j \in 1 .. n - 1 : i < j => begun'[i] <= begun'[j]
      BY <2>3, <2>8 DEF StackStands
    <3>4. \A i \in 1 .. n - 1 : \A id \in AccountIds : disk'[id] <= begun'[i]
      BY <2>1, <2>3, <2>8 DEF StackStands
    <3> QED BY <2>3, <3>1, <3>2, <3>3, <3>4 DEF StackStands, Stands
  <2>13. FileIsCovered'
    BY <2>1, <2>3, <2>4, <2>8 DEF FileIsCovered
  <2> QED BY <2>1, <2>6, <2>10, <2>11, <2>12, <2>13
<1>7. CASE Crash
  <2>1. /\ accounts' = disk /\ backup_stack' = <<>> /\ saving' = "no" /\ begun' = <<>>
        /\ discarded' = discarded \union (In(accounts) \ In(disk))
        /\ UNCHANGED <<disk, written, offered>>
    BY <1>7 DEF Crash
  <2>2. In(accounts) = {accounts[id] : id \in AccountIds} /\ In(disk) = {disk[id] : id \in AccountIds}
    BY DEF In
  <2>3. In(accounts) \ In(disk) \subseteq 1 .. written
    <3> SUFFICES ASSUME NEW id \in AccountIds, accounts[id] \notin In(disk)
                 PROVE  accounts[id] \in 1 .. written
      BY <2>2
    <3>1. accounts[id] # 0
      BY <2>2 DEF FileIsCovered
    <3> QED BY <1>0, <3>1 DEF Stands, StateTypeOK, Tables
  <2>4. StateTypeOK'
    <3>1. discarded' \subseteq 1 .. written
      BY <2>1, <2>3 DEF StateTypeOK
    <3>2. begun' \in Seq(Nat) /\ backup_stack' \in Seq(Tables) /\ Len(begun') = Len(backup_stack')
      BY <2>1
    <3> QED BY <2>1, <3>1, <3>2 DEF StateTypeOK
  <2>5. Stands(accounts, written)' /\ Stands(disk, written)'
    BY <2>1, <2>2 DEF Stands
  <2>6. Len(begun') = 0
    BY <2>1
  <2>7. StackStands' /\ FileIsCovered'
    BY <2>1, <2>6 DEF StackStands, FileIsCovered
  <2> QED BY <2>1, <2>4, <2>5, <2>7
<1>8. CASE UNCHANGED stateVars
  BY <1>8 DEF stateVars, StateTypeOK, Stands, StackStands, FileIsCovered
<1> QED BY <1>1, <1>2, <1>3, <1>4, <1>5, <1>6, <1>7, <1>8 DEF StateNext

\* The invariant holds throughout.
LEMMA StoreStands == StateSpec => []StoreInv
BY StoreStarts, StoreStep, PTL DEF StateSpec

\* Whenever the process ends, what it loads again is a table an outermost commit
\* saw, and nothing rolled back or lost comes back: a save cut short or failing
\* between any two of its steps does not change it.
THEOREM FileWasCommitted == StateSpec => []LoadedWasCommitted
<1>1. StoreInv => LoadedWasCommitted
  BY DEF StoreInv, Stands, LoadedWasCommitted
<1> QED BY <1>1, StoreStands, PTL


\* --- the account state: the tree --------------------------------------------

\* The functions the tree is defined by, as far as n: the masks, the hashes of
\* empty trees, the roots of subtrees, the way down to an account, and the way up
\* from its hash.
IsMasks(f, n) == f = [k \in 0 .. n |-> IF k = 0 THEN 1 ELSE 2 * f[k - 1]]
IsEmpties(f, n) == f = [k \in 0 .. n |-> IF k = 0 THEN <<"empty">> ELSE Node(f[k - 1], f[k - 1])]
LeafRoots == [t \in Subtrees |-> IF t.leaves = {} THEN EmptyHash[0] ELSE HashAccount(accounts[Min(t.leaves)])]
RootsAbove(g, k) ==
    [t \in Subtrees |-> IF t.leaves = {} THEN EmptyHash[k]
                       ELSE Node(g[Half(t, k - 1, FALSE)], g[Half(t, k - 1, TRUE)])]
IsRoots(f, n) == f = [k \in 0 .. n |-> IF k = 0 THEN LeafRoots ELSE RootsAbove(f[k - 1], k)]
IsWay(f, id, n) ==
    f = [k \in 0 .. n |-> IF k = 0 THEN Whole ELSE Half(f[k - 1], DEPTH - k, BitSet(id, DEPTH - k))]
IsAscent(f, id, hash, proof, n) ==
    f = [k \in 0 .. n |-> IF k = 0 THEN hash
                          ELSE IF BitSet(id, k - 1) THEN Node(SiblingAt(proof, k - 1), f[k - 1])
                                                    ELSE Node(f[k - 1], SiblingAt(proof, k - 1))]

\* There are masks for any depth.
LEMMA MasksExist ==
    ASSUME NEW n \in Nat
    PROVE  \E f : IsMasks(f, n)
<1> SUFFICES ASSUME ~ \E f : IsMasks(f, n) PROVE FALSE
  OBVIOUS
<1> DEFINE T == {m \in Nat : ~ \E f : IsMasks(f, m)}
<1>1. PICK m \in T : \A y \in T : ~(y < m)
  <2>1. n \in T /\ T \subseteq Nat
    OBVIOUS
  <2> HIDE DEF T
  <2> QED BY <2>1, SmallestNat
<1>2. m \in Nat /\ ~ \E f : IsMasks(f, m)
  BY <1>1
<1>3. m # 0
  <2> DEFINE f == [k \in 0 .. 0 |-> 1]
  <2>1. IsMasks(f, 0)
    BY DEF IsMasks
  <2> QED BY <1>2, <2>1
<1>4. PICK g : IsMasks(g, m - 1)
  <2>1. m - 1 \in Nat /\ m - 1 < m
    BY <1>2, <1>3
  <2>2. m - 1 \notin T
    BY <1>1, <2>1
  <2> QED BY <2>1, <2>2
<1> DEFINE f == [k \in 0 .. m |-> IF k = 0 THEN 1 ELSE 2 * g[k - 1]]
<1>5. \A k \in 0 .. m - 1 : k \in 0 .. m /\ f[k] = g[k]
  BY <1>2, <1>4 DEF IsMasks
<1>6. \A k \in 0 .. m : k # 0 => k - 1 \in 0 .. m - 1
  BY <1>2
<1>7. \A k \in 0 .. m : k # 0 => g[k - 1] = f[k - 1]
  BY <1>5, <1>6
<1>8. f = [k \in 0 .. m |-> IF k = 0 THEN 1 ELSE 2 * f[k - 1]]
  <2> DEFINE h == [k \in 0 .. m |-> IF k = 0 THEN 1 ELSE 2 * f[k - 1]]
  <2>1. \A k \in 0 .. m : f[k] = h[k]
    BY <1>7
  <2> QED BY <2>1
<1>9. IsMasks(f, m)
  BY <1>8 DEF IsMasks
<1> QED BY <1>2, <1>9

\* There are empty trees of any depth.
LEMMA EmptiesExist ==
    ASSUME NEW n \in Nat
    PROVE  \E f : IsEmpties(f, n)
<1> SUFFICES ASSUME ~ \E f : IsEmpties(f, n) PROVE FALSE
  OBVIOUS
<1> DEFINE T == {m \in Nat : ~ \E f : IsEmpties(f, m)}
<1>1. PICK m \in T : \A y \in T : ~(y < m)
  <2>1. n \in T /\ T \subseteq Nat
    OBVIOUS
  <2> HIDE DEF T
  <2> QED BY <2>1, SmallestNat
<1>2. m \in Nat /\ ~ \E f : IsEmpties(f, m)
  BY <1>1
<1>3. m # 0
  <2> DEFINE f == [k \in 0 .. 0 |-> <<"empty">>]
  <2>1. IsEmpties(f, 0)
    BY DEF IsEmpties
  <2> QED BY <1>2, <2>1
<1>4. PICK g : IsEmpties(g, m - 1)
  <2>1. m - 1 \in Nat /\ m - 1 < m
    BY <1>2, <1>3
  <2>2. m - 1 \notin T
    BY <1>1, <2>1
  <2> QED BY <2>1, <2>2
<1> DEFINE f == [k \in 0 .. m |-> IF k = 0 THEN <<"empty">> ELSE Node(g[k - 1], g[k - 1])]
<1>5. \A k \in 0 .. m - 1 : k \in 0 .. m /\ f[k] = g[k]
  BY <1>2, <1>4 DEF IsEmpties
<1>6. \A k \in 0 .. m : k # 0 => k - 1 \in 0 .. m - 1
  BY <1>2
<1>7. \A k \in 0 .. m : k # 0 => g[k - 1] = f[k - 1]
  BY <1>5, <1>6
<1>8. f = [k \in 0 .. m |-> IF k = 0 THEN <<"empty">> ELSE Node(f[k - 1], f[k - 1])]
  <2> DEFINE h == [k \in 0 .. m |-> IF k = 0 THEN <<"empty">> ELSE Node(f[k - 1], f[k - 1])]
  <2>1. \A k \in 0 .. m : f[k] = h[k]
    BY <1>7
  <2> QED BY <2>1
<1>9. IsEmpties(f, m)
  BY <1>8 DEF IsEmpties
<1> QED BY <1>2, <1>9

\* The subtrees of any depth have roots.
LEMMA RootsExist ==
    ASSUME NEW n \in Nat
    PROVE  \E f : IsRoots(f, n)
<1> SUFFICES ASSUME ~ \E f : IsRoots(f, n) PROVE FALSE
  OBVIOUS
<1> DEFINE T == {m \in Nat : ~ \E f : IsRoots(f, m)}
<1>1. PICK m \in T : \A y \in T : ~(y < m)
  <2>1. n \in T /\ T \subseteq Nat
    OBVIOUS
  <2> HIDE DEF T
  <2> QED BY <2>1, SmallestNat
<1>2. m \in Nat /\ ~ \E f : IsRoots(f, m)
  BY <1>1
<1>3. m # 0
  <2> DEFINE f == [k \in 0 .. 0 |-> LeafRoots]
  <2>1. IsRoots(f, 0)
    BY DEF IsRoots
  <2> QED BY <1>2, <2>1
<1>4. PICK g : IsRoots(g, m - 1)
  <2>1. m - 1 \in Nat /\ m - 1 < m
    BY <1>2, <1>3
  <2>2. m - 1 \notin T
    BY <1>1, <2>1
  <2> QED BY <2>1, <2>2
<1> DEFINE f == [k \in 0 .. m |-> IF k = 0 THEN LeafRoots ELSE RootsAbove(g[k - 1], k)]
<1>5. \A k \in 0 .. m - 1 : k \in 0 .. m /\ f[k] = g[k]
  BY <1>2, <1>4 DEF IsRoots
<1>6. \A k \in 0 .. m : k # 0 => k - 1 \in 0 .. m - 1
  BY <1>2
<1>7. \A k \in 0 .. m : k # 0 => g[k - 1] = f[k - 1]
  BY <1>5, <1>6
<1>8. f = [k \in 0 .. m |-> IF k = 0 THEN LeafRoots ELSE RootsAbove(f[k - 1], k)]
  <2> DEFINE h == [k \in 0 .. m |-> IF k = 0 THEN LeafRoots ELSE RootsAbove(f[k - 1], k)]
  <2>1. \A k \in 0 .. m : f[k] = h[k]
    BY <1>7
  <2> QED BY <2>1
<1>9. IsRoots(f, m)
  BY <1>8 DEF IsRoots
<1> QED BY <1>2, <1>9

\* There is a way down of any length.
LEMMA WayExists ==
    ASSUME NEW id, NEW n \in Nat
    PROVE  \E f : IsWay(f, id, n)
<1> SUFFICES ASSUME ~ \E f : IsWay(f, id, n) PROVE FALSE
  OBVIOUS
<1> DEFINE T == {m \in Nat : ~ \E f : IsWay(f, id, m)}
<1>1. PICK m \in T : \A y \in T : ~(y < m)
  <2>1. n \in T /\ T \subseteq Nat
    OBVIOUS
  <2> HIDE DEF T
  <2> QED BY <2>1, SmallestNat
<1>2. m \in Nat /\ ~ \E f : IsWay(f, id, m)
  BY <1>1
<1>3. m # 0
  <2> DEFINE f == [k \in 0 .. 0 |-> Whole]
  <2>1. IsWay(f, id, 0)
    BY DEF IsWay
  <2> QED BY <1>2, <2>1
<1>4. PICK g : IsWay(g, id, m - 1)
  <2>1. m - 1 \in Nat /\ m - 1 < m
    BY <1>2, <1>3
  <2>2. m - 1 \notin T
    BY <1>1, <2>1
  <2> QED BY <2>1, <2>2
<1> DEFINE f == [k \in 0 .. m |-> IF k = 0 THEN Whole ELSE Half(g[k - 1], DEPTH - k, BitSet(id, DEPTH - k))]
<1>5. \A k \in 0 .. m - 1 : k \in 0 .. m /\ f[k] = g[k]
  BY <1>2, <1>4 DEF IsWay
<1>6. \A k \in 0 .. m : k # 0 => k - 1 \in 0 .. m - 1
  BY <1>2
<1>7. \A k \in 0 .. m : k # 0 => g[k - 1] = f[k - 1]
  BY <1>5, <1>6
<1>8. f = [k \in 0 .. m |-> IF k = 0 THEN Whole ELSE Half(f[k - 1], DEPTH - k, BitSet(id, DEPTH - k))]
  <2> DEFINE h == [k \in 0 .. m |-> IF k = 0 THEN Whole ELSE Half(f[k - 1], DEPTH - k, BitSet(id, DEPTH - k))]
  <2>1. \A k \in 0 .. m : f[k] = h[k]
    BY <1>7
  <2> QED BY <2>1
<1>9. IsWay(f, id, m)
  BY <1>8 DEF IsWay
<1> QED BY <1>2, <1>9

\* And one up.
LEMMA AscentExists ==
    ASSUME NEW id, NEW hash, NEW proof, NEW n \in Nat
    PROVE  \E f : IsAscent(f, id, hash, proof, n)
<1> SUFFICES ASSUME ~ \E f : IsAscent(f, id, hash, proof, n) PROVE FALSE
  OBVIOUS
<1> DEFINE T == {m \in Nat : ~ \E f : IsAscent(f, id, hash, proof, m)}
<1>1. PICK m \in T : \A y \in T : ~(y < m)
  <2>1. n \in T /\ T \subseteq Nat
    OBVIOUS
  <2> HIDE DEF T
  <2> QED BY <2>1, SmallestNat
<1>2. m \in Nat /\ ~ \E f : IsAscent(f, id, hash, proof, m)
  BY <1>1
<1>3. m # 0
  <2> DEFINE f == [k \in 0 .. 0 |-> hash]
  <2>1. IsAscent(f, id, hash, proof, 0)
    BY DEF IsAscent
  <2> QED BY <1>2, <2>1
<1>4. PICK g : IsAscent(g, id, hash, proof, m - 1)
  <2>1. m - 1 \in Nat /\ m - 1 < m
    BY <1>2, <1>3
  <2>2. m - 1 \notin T
    BY <1>1, <2>1
  <2> QED BY <2>1, <2>2
<1> DEFINE f == [k \in 0 .. m |-> IF k = 0 THEN hash ELSE IF BitSet(id, k - 1) THEN Node(SiblingAt(proof, k - 1), g[k - 1]) ELSE Node(g[k - 1], SiblingAt(proof, k - 1))]
<1>5. \A k \in 0 .. m - 1 : k \in 0 .. m /\ f[k] = g[k]
  BY <1>2, <1>4 DEF IsAscent
<1>6. \A k \in 0 .. m : k # 0 => k - 1 \in 0 .. m - 1
  BY <1>2
<1>7. \A k \in 0 .. m : k # 0 => g[k - 1] = f[k - 1]
  BY <1>5, <1>6
<1>8. f = [k \in 0 .. m |-> IF k = 0 THEN hash ELSE IF BitSet(id, k - 1) THEN Node(SiblingAt(proof, k - 1), f[k - 1]) ELSE Node(f[k - 1], SiblingAt(proof, k - 1))]
  <2> DEFINE h == [k \in 0 .. m |-> IF k = 0 THEN hash ELSE IF BitSet(id, k - 1) THEN Node(SiblingAt(proof, k - 1), f[k - 1]) ELSE Node(f[k - 1], SiblingAt(proof, k - 1))]
  <2>1. \A k \in 0 .. m : f[k] = h[k]
    BY <1>7
  <2> QED BY <2>1
<1>9. IsAscent(f, id, hash, proof, m)
  BY <1>8 DEF IsAscent
<1> QED BY <1>2, <1>9

\* What these functions are, from one depth to the next.
LEMMA MaskStep == Mask[0] = 1 /\ \A k \in 1 .. DEPTH : Mask[k] = 2 * Mask[k - 1]
<1>1. Mask = CHOOSE f : IsMasks(f, DEPTH)
  BY DEF Mask, IsMasks
<1>2. IsMasks(Mask, DEPTH)
  BY <1>1, MasksExist, StateConstants
<1>3. Mask = [k \in 0 .. DEPTH |-> IF k = 0 THEN 1 ELSE 2 * Mask[k - 1]]
  BY <1>2 DEF IsMasks
<1>4. 0 \in 0 .. DEPTH /\ \A k \in 1 .. DEPTH : k \in 0 .. DEPTH /\ k # 0
  BY StateConstants
<1> DEFINE f == Mask
<1> HIDE DEF f
<1>5. f = [k \in 0 .. DEPTH |-> IF k = 0 THEN 1 ELSE 2 * f[k - 1]]
  BY <1>3 DEF f
<1>6. f[0] = 1 /\ \A k \in 1 .. DEPTH : f[k] = 2 * f[k - 1]
  BY <1>4, <1>5
<1> QED BY <1>6 DEF f

\* The hash of an empty tree.
LEMMA EmptyStep ==
    EmptyHash[0] = <<"empty">> /\ \A k \in 1 .. DEPTH : EmptyHash[k] = Node(EmptyHash[k - 1], EmptyHash[k - 1])
<1>1. EmptyHash = CHOOSE f : IsEmpties(f, DEPTH)
  BY DEF EmptyHash, IsEmpties
<1>2. IsEmpties(EmptyHash, DEPTH)
  BY <1>1, EmptiesExist, StateConstants
<1> DEFINE f == EmptyHash
<1>4. 0 \in 0 .. DEPTH /\ \A k \in 1 .. DEPTH : k \in 0 .. DEPTH /\ k # 0
  BY StateConstants
<1>5. f = [k \in 0 .. DEPTH |-> IF k = 0 THEN <<"empty">> ELSE Node(f[k - 1], f[k - 1])]
  BY <1>2 DEF IsEmpties
<1> HIDE DEF f
<1>6. f[0] = <<"empty">> /\ \A k \in 1 .. DEPTH : f[k] = Node(f[k - 1], f[k - 1])
  BY <1>4, <1>5
<1> QED BY <1>6 DEF f

\* The root of a subtree.
LEMMA RootStep ==
    ASSUME NEW t \in Subtrees
    PROVE  /\ \A k \in 0 .. DEPTH : t.leaves = {} => SubtreeRoot[k][t] = EmptyHash[k]
           /\ t.leaves # {} => SubtreeRoot[0][t] = HashAccount(accounts[Min(t.leaves)])
           /\ \A k \in 1 .. DEPTH : t.leaves # {} =>
                SubtreeRoot[k][t] = Node(SubtreeRoot[k - 1][Half(t, k - 1, FALSE)], SubtreeRoot[k - 1][Half(t, k - 1, TRUE)])
<1> DEFINE D(f) == [k \in 0 .. DEPTH |->
                      [u \in Subtrees |->
                         IF u.leaves = {} THEN EmptyHash[k]
                         ELSE IF k = 0 THEN HashAccount(accounts[Min(u.leaves)])
                         ELSE Node(f[k - 1][Half(u, k - 1, FALSE)], f[k - 1][Half(u, k - 1, TRUE)])]]
<1>1. SubtreeRoot = CHOOSE f : f = D(f)
  BY DEF SubtreeRoot
<1>2. PICK g : IsRoots(g, DEPTH)
  BY RootsExist, StateConstants
<1>3. g = D(g)
  <2>1. g = [k \in 0 .. DEPTH |-> IF k = 0 THEN LeafRoots ELSE RootsAbove(g[k - 1], k)]
    BY <1>2 DEF IsRoots
  <2>2. ASSUME NEW k \in 0 .. DEPTH
        PROVE  g[k] = D(g)[k]
    <3>1. CASE k = 0
      <4>1. g[k] = LeafRoots
        BY <2>1, <3>1
      <4> QED BY <3>1, <4>1 DEF LeafRoots
    <3>2. CASE k # 0
      <4>1. g[k] = RootsAbove(g[k - 1], k)
        BY <2>1, <3>2
      <4> QED BY <3>2, <4>1 DEF RootsAbove
    <3> QED BY <3>1, <3>2
  <2> QED BY <2>1, <2>2
<1>4. SubtreeRoot = D(SubtreeRoot)
  <2> HIDE DEF D
  <2> QED BY <1>1, <1>3
<1> DEFINE f == SubtreeRoot
<1>5. f = D(f)
  BY <1>4
<1>6. 0 \in 0 .. DEPTH /\ \A k \in 1 .. DEPTH : k \in 0 .. DEPTH /\ k # 0
  BY StateConstants
<1> HIDE DEF f
<1>7. ASSUME NEW k \in 0 .. DEPTH
      PROVE  f[k][t] = IF t.leaves = {} THEN EmptyHash[k]
                       ELSE IF k = 0 THEN HashAccount(accounts[Min(t.leaves)])
                       ELSE Node(f[k - 1][Half(t, k - 1, FALSE)], f[k - 1][Half(t, k - 1, TRUE)])
  <2> DEFINE V(u) == IF u.leaves = {} THEN EmptyHash[k]
                     ELSE IF k = 0 THEN HashAccount(accounts[Min(u.leaves)])
                     ELSE Node(f[k - 1][Half(u, k - 1, FALSE)], f[k - 1][Half(u, k - 1, TRUE)])
  <2>1. f[k] = [u \in Subtrees |-> V(u)]
    BY <1>5
  <2>2. f[k][t] = V(t)
    <3> HIDE DEF V
    <3> QED BY <2>1
  <2> QED BY <2>2
<1>8. /\ \A k \in 0 .. DEPTH : t.leaves = {} => f[k][t] = EmptyHash[k]
      /\ t.leaves # {} => f[0][t] = HashAccount(accounts[Min(t.leaves)])
      /\ \A k \in 1 .. DEPTH : t.leaves # {} =>
           f[k][t] = Node(f[k - 1][Half(t, k - 1, FALSE)], f[k - 1][Half(t, k - 1, TRUE)])
  BY <1>6, <1>7
<1> QED BY <1>8 DEF f

\* The way down.
LEMMA WayStep ==
    ASSUME NEW id
    PROVE  /\ Way(id)[0] = Whole
           /\ \A k \in 1 .. DEPTH : Way(id)[k] = Half(Way(id)[k - 1], DEPTH - k, BitSet(id, DEPTH - k))
<1>1. Way(id) = CHOOSE f : IsWay(f, id, DEPTH)
  BY DEF Way, IsWay
<1>2. IsWay(Way(id), id, DEPTH)
  BY <1>1, WayExists, StateConstants
<1> DEFINE f == Way(id)
<1>4. 0 \in 0 .. DEPTH /\ \A k \in 1 .. DEPTH : k \in 0 .. DEPTH /\ k # 0
  BY StateConstants
<1>5. f = [k \in 0 .. DEPTH |-> IF k = 0 THEN Whole ELSE Half(f[k - 1], DEPTH - k, BitSet(id, DEPTH - k))]
  BY <1>2 DEF IsWay
<1> HIDE DEF f
<1>6. f[0] = Whole /\ \A k \in 1 .. DEPTH : f[k] = Half(f[k - 1], DEPTH - k, BitSet(id, DEPTH - k))
  BY <1>4, <1>5
<1> QED BY <1>6 DEF f

\* The way up.
LEMMA AscentStep ==
    ASSUME NEW id, NEW hash, NEW proof
    PROVE  /\ Climb(id, hash, proof)[0] = hash
           /\ \A k \in 1 .. DEPTH :
                Climb(id, hash, proof)[k] =
                  IF BitSet(id, k - 1) THEN Node(SiblingAt(proof, k - 1), Climb(id, hash, proof)[k - 1])
                                       ELSE Node(Climb(id, hash, proof)[k - 1], SiblingAt(proof, k - 1))
<1>1. Climb(id, hash, proof) = CHOOSE f : IsAscent(f, id, hash, proof, DEPTH)
  BY DEF Climb, IsAscent
<1>2. IsAscent(Climb(id, hash, proof), id, hash, proof, DEPTH)
  BY <1>1, AscentExists, StateConstants
<1> DEFINE f == Climb(id, hash, proof)
<1>4. 0 \in 0 .. DEPTH /\ \A k \in 1 .. DEPTH : k \in 0 .. DEPTH /\ k # 0
  BY StateConstants
<1>5. f = [k \in 0 .. DEPTH |-> IF k = 0 THEN hash
                                ELSE IF BitSet(id, k - 1) THEN Node(SiblingAt(proof, k - 1), f[k - 1])
                                                          ELSE Node(f[k - 1], SiblingAt(proof, k - 1))]
  BY <1>2 DEF IsAscent
<1> HIDE DEF f
<1>6. f[0] = hash /\ \A k \in 1 .. DEPTH :
        f[k] = IF BitSet(id, k - 1) THEN Node(SiblingAt(proof, k - 1), f[k - 1])
                                    ELSE Node(f[k - 1], SiblingAt(proof, k - 1))
  BY <1>4, <1>5
<1> QED BY <1>6 DEF f

\* A mask is positive, and none is larger than the highest.
LEMMA MaskType ==
    /\ \A k \in 0 .. DEPTH : Mask[k] \in Nat /\ Mask[k] > 0
    /\ \A k \in 1 .. DEPTH : Mask[k] = 2 * Mask[k - 1]
<1> DEFINE T == {k \in 0 .. DEPTH : ~(Mask[k] \in Nat /\ Mask[k] > 0)}
<1>1. T = {}
  <2> SUFFICES ASSUME T # {} PROVE FALSE
    OBVIOUS
  <2>1. PICK k \in T : \A y \in T : ~(y < k)
    <3>1. T \subseteq Nat
      BY StateConstants
    <3> HIDE DEF T
    <3> QED BY <3>1, SmallestNat
  <2>2. k \in 0 .. DEPTH /\ ~(Mask[k] \in Nat /\ Mask[k] > 0)
    BY <2>1
  <2>3. k # 0
    BY <2>2, MaskStep
  <2>4. k \in 1 .. DEPTH /\ k - 1 \in 0 .. DEPTH /\ k - 1 < k
    BY <2>2, <2>3, StateConstants
  <2>5. Mask[k - 1] \in Nat /\ Mask[k - 1] > 0
    BY <2>1, <2>4
  <2> QED BY <2>2, <2>4, <2>5, MaskStep
<1> QED BY <1>1, MaskStep

\* A bit of a number, read off its place in a subtree.
LEMMA BitOf ==
    ASSUME NEW M \in Nat, M > 0, NEW q \in Nat, NEW x \in Nat, q * (2 * M) <= x, x < q * (2 * M) + 2 * M
    PROVE  (x \div M) % 2 = 1 <=> x >= q * (2 * M) + M
<1> DEFINE s == x - q * (2 * M)
<1>0. q * (2 * M) = M * (2 * q) /\ M * (2 * q) \in Nat /\ s \in Nat /\ x = M * (2 * q) + s
  OBVIOUS
<1>1. CASE s < M
  <2>1. (M * (2 * q) + s) \div M = 2 * q
    <3> DEFINE c == 2 * q
    <3>1. c \in Nat
      OBVIOUS
    <3> HIDE DEF c, s
    <3>2. (M * c + s) \div M = c
      BY <1>0, <1>1, <3>1
    <3> QED BY <3>2 DEF c
  <2>2. (2 * q) % 2 = 0
    OBVIOUS
  <2> QED BY <1>0, <1>1, <2>1, <2>2
<1>2. CASE s >= M
  <2> DEFINE r == s - M
             c == 2 * q + 1
  <2>1. c \in Nat /\ r \in Nat /\ r < M /\ x = M * c + r
    BY <1>0, <1>2
  <2>2. c % 2 = 1
    OBVIOUS
  <2> HIDE DEF c, r, s
  <2>3. (M * c + r) \div M = c
    BY <2>1
  <2> QED BY <1>0, <1>2, <2>1, <2>2, <2>3
<1> QED BY <1>0, <1>1, <1>2

\* Half a subtree is a subtree, and of nothing it is nothing.
LEMMA HalfType ==
    ASSUME NEW t \in Subtrees, NEW d \in 0 .. DEPTH, t.prefix + Mask[d] <= Mask[DEPTH], NEW b \in BOOLEAN
    PROVE  Half(t, d, b) \in Subtrees /\ (t.leaves = {} => Half(t, d, b).leaves = {})
<1>1. t.leaves \subseteq AccountIds /\ t.prefix \in 0 .. Mask[DEPTH]
  BY DEF Subtrees
<1>2. Mask[d] \in Nat /\ Mask[DEPTH] \in Nat
  BY MaskType, StateConstants
<1>3. t.prefix + Mask[d] \in 0 .. Mask[DEPTH]
  BY <1>1, <1>2
<1>4. RightOf(t, d) \subseteq t.leaves
  BY DEF RightOf
<1> QED BY <1>1, <1>3, <1>4 DEF Half, Subtrees

\* Where the way down to an account has come after k steps: a subtree with exactly
\* the leaves that share its upper bits.
Reaches(id, k) ==
    LET t == Way(id)[k]
        m == Mask[DEPTH - k]
    IN  /\ t \in Subtrees /\ t.prefix <= id /\ id < t.prefix + m /\ t.prefix + m <= Mask[DEPTH]
        /\ \E q \in Nat : t.prefix = q * m
        /\ t.leaves = {a \in Leaves : t.prefix <= a /\ a < t.prefix + m}

\* The next step halves it, on the side of the account's bit.
LEMMA WayStays ==
    ASSUME NEW id \in 0 .. Mask[DEPTH] - 1, NEW k \in 1 .. DEPTH, Reaches(id, k - 1)
    PROVE  Reaches(id, k) /\ BitSet(id, DEPTH - k) \in BOOLEAN
<1> DEFINE d == DEPTH - k
           m == Mask[d]
           b == BitSet(id, d)
<1>1. d \in 0 .. DEPTH /\ d + 1 \in 1 .. DEPTH /\ DEPTH - (k - 1) = d + 1 /\ DEPTH \in 0 .. DEPTH
  BY StateConstants
<1>2. m \in Nat /\ m > 0 /\ Mask[d + 1] = 2 * m /\ Mask[DEPTH] \in Nat /\ id \in Nat
  <2>1. Mask[d + 1] = 2 * Mask[(d + 1) - 1] /\ (d + 1) - 1 = d
    BY <1>1, MaskType
  <2> QED BY <1>1, <2>1, MaskType
<1>3. PICK t : t = Way(id)[k - 1]
  OBVIOUS
<1>4. /\ t \in Subtrees /\ t.prefix <= id /\ id < t.prefix + 2 * m /\ t.prefix + 2 * m <= Mask[DEPTH]
      /\ \E q \in Nat : t.prefix = q * (2 * m)
      /\ t.leaves = {a \in Leaves : t.prefix <= a /\ a < t.prefix + 2 * m}
  BY <1>1, <1>2, <1>3 DEF Reaches
<1>5. Way(id)[k] = Half(t, d, b)
  BY <1>3, WayStep
<1>6. b \in BOOLEAN
  BY DEF BitSet
<1>7. PICK q \in Nat : t.prefix = q * (2 * m)
  BY <1>4
<1>8. b <=> id >= t.prefix + m
  <2>1. (id \div m) % 2 = 1 <=> id >= q * (2 * m) + m
    <3> HIDE DEF m
    <3> QED BY <1>2, <1>4, <1>7, BitOf
  <2> QED BY <1>7, <2>1 DEF BitSet
<1>9. t.prefix \in Nat /\ t.prefix + m \in Nat /\ Leaves \subseteq Nat
  <2>1. Leaves \subseteq AccountIds
    BY DEF Leaves
  <2>2. AccountIds \subseteq 0 .. Mask[DEPTH] - 1
    BY StateConstants
  <2>3. t.prefix \in Nat
    BY <1>4 DEF Subtrees
  <2> QED BY <1>2, <2>1, <2>2, <2>3
<1>10. Half(t, d, b) \in Subtrees
  <2>1. t.prefix + Mask[d] <= Mask[DEPTH]
    BY <1>2, <1>4, <1>9
  <2> QED BY <1>1, <1>4, <1>6, <2>1, HalfType
<1>11. RightOf(t, d) = {a \in t.leaves : a >= t.prefix + m}
  BY DEF RightOf
<1> DEFINE u == Half(t, d, b)
<1>12. CASE b
  <2>1. u = [leaves |-> RightOf(t, d), prefix |-> t.prefix + m]
    BY <1>12 DEF Half
  <2>2. u.prefix = t.prefix + m /\ u.leaves = RightOf(t, d)
    BY <2>1
  <2>3. u.prefix <= id /\ id < u.prefix + m /\ u.prefix + m <= Mask[DEPTH]
    BY <1>2, <1>4, <1>8, <1>9, <1>12, <2>2
  <2>4. t.prefix + m = (2 * q + 1) * m /\ 2 * q + 1 \in Nat
    BY <1>2, <1>7
  <2>5. u.leaves = {a \in Leaves : u.prefix <= a /\ a < u.prefix + m}
    <3>1. \A a \in Leaves : (t.prefix <= a /\ a < t.prefix + 2 * m /\ a >= t.prefix + m)
                              <=> (t.prefix + m <= a /\ a < t.prefix + m + m)
      BY <1>2, <1>9
    <3> QED BY <1>4, <1>11, <2>2, <3>1
  <2>6. \E c \in Nat : u.prefix = c * m
    BY <2>2, <2>4
  <2> HIDE DEF u, b, m
  <2> QED BY <1>5, <1>6, <1>10, <2>3, <2>5, <2>6 DEF Reaches, u, b, m
<1>13. CASE ~b
  <2>1. u = [leaves |-> t.leaves \ RightOf(t, d), prefix |-> t.prefix]
    BY <1>13 DEF Half
  <2>2. u.prefix = t.prefix /\ u.leaves = t.leaves \ RightOf(t, d)
    BY <2>1
  <2>3. u.prefix <= id /\ id < u.prefix + m /\ u.prefix + m <= Mask[DEPTH]
    BY <1>2, <1>4, <1>8, <1>9, <1>13, <2>2
  <2>4. t.prefix = (2 * q) * m /\ 2 * q \in Nat
    BY <1>2, <1>7
  <2>5. u.leaves = {a \in Leaves : u.prefix <= a /\ a < u.prefix + m}
    <3>1. \A a \in Leaves : (t.prefix <= a /\ a < t.prefix + 2 * m /\ ~(a >= t.prefix + m))
                              <=> (t.prefix <= a /\ a < t.prefix + m)
      BY <1>2, <1>9
    <3> QED BY <1>4, <1>11, <2>2, <3>1
  <2>6. \E c \in Nat : u.prefix = c * m
    BY <2>2, <2>4
  <2> HIDE DEF u, b, m
  <2> QED BY <1>5, <1>6, <1>10, <2>3, <2>5, <2>6 DEF Reaches, u, b, m
<1> QED BY <1>6, <1>12, <1>13

\* The way stays with the account all the way down.
LEMMA WayReaches ==
    ASSUME NEW id \in 0 .. Mask[DEPTH] - 1, NEW k0 \in 0 .. DEPTH
    PROVE  Reaches(id, k0)
<1> SUFFICES ASSUME ~Reaches(id, k0) PROVE FALSE
  OBVIOUS
<1> DEFINE T == {k \in 0 .. DEPTH : ~Reaches(id, k)}
<1>1. PICK k \in T : \A y \in T : ~(y < k)
  <2>1. k0 \in T /\ T \subseteq Nat
    BY StateConstants
  <2> HIDE DEF T
  <2> QED BY <2>1, SmallestNat
<1>2. k \in 0 .. DEPTH /\ ~Reaches(id, k)
  BY <1>1
<1>3. k # 0
  <2>1. Mask[DEPTH] \in Nat /\ DEPTH \in 0 .. DEPTH /\ DEPTH - 0 = DEPTH
    BY MaskType, StateConstants
  <2>2. Leaves \subseteq 0 .. Mask[DEPTH] - 1 /\ Leaves \subseteq AccountIds
    BY StateConstants DEF Leaves
  <2>3. Whole \in Subtrees /\ Whole.prefix = 0 /\ Whole.leaves = Leaves
    BY <2>1, <2>2 DEF Whole, Subtrees
  <2>4. \A a \in Leaves : 0 <= a /\ a < 0 + Mask[DEPTH]
    BY <2>1, <2>2
  <2>5. 0 <= id /\ id < 0 + Mask[DEPTH] /\ 0 + Mask[DEPTH] <= Mask[DEPTH] /\ 0 = 0 * Mask[DEPTH]
    BY <2>1
  <2>6. Leaves = {a \in Leaves : 0 <= a /\ a < 0 + Mask[DEPTH]}
    BY <2>4
  <2>7. Reaches(id, 0)
    BY <2>1, <2>3, <2>5, <2>6, WayStep DEF Reaches
  <2> QED BY <1>2, <2>7
<1>4. k \in 1 .. DEPTH /\ k - 1 \in 0 .. DEPTH /\ k - 1 < k
  BY <1>2, <1>3, StateConstants
<1>5. Reaches(id, k - 1)
  BY <1>1, <1>4
<1> QED BY <1>2, <1>4, <1>5, WayStays

\* What a node on the way is the hash of: the next one, and what the proof keeps of
\* the other side.
LEMMA NodeOnTheWay ==
    ASSUME NEW id \in 0 .. Mask[DEPTH] - 1, NEW d \in 0 .. DEPTH - 1
    PROVE  LET own == SubtreeRoot[d][Way(id)[DEPTH - d]]
               other == SubtreeRoot[d][Half(Way(id)[DEPTH - (d + 1)], d, ~BitSet(id, d))]
           IN  SubtreeRoot[d + 1][Way(id)[DEPTH - (d + 1)]] =
                 IF BitSet(id, d) THEN Node(other, own) ELSE Node(own, other)
<1> DEFINE k == DEPTH - d
           b == BitSet(id, d)
<1>1. k \in 1 .. DEPTH /\ k - 1 \in 0 .. DEPTH /\ DEPTH - k = d /\ DEPTH - (d + 1) = k - 1
      /\ d \in 0 .. DEPTH /\ d + 1 \in 1 .. DEPTH /\ d + 1 \in 0 .. DEPTH /\ (d + 1) - 1 = d /\ DEPTH - (k - 1) = d + 1
  BY StateConstants
<1>2. PICK t : t = Way(id)[k - 1]
  OBVIOUS
<1>3. Reaches(id, k - 1)
  BY <1>1, WayReaches
<1>4. t \in Subtrees /\ t.prefix + Mask[d] <= Mask[DEPTH] /\ b \in BOOLEAN
  <2>1. t \in Subtrees /\ t.prefix + Mask[d + 1] <= Mask[DEPTH]
    BY <1>1, <1>2, <1>3 DEF Reaches
  <2>2. Mask[d + 1] = 2 * Mask[d] /\ Mask[d] \in Nat /\ Mask[DEPTH] \in Nat
    BY <1>1, MaskType, StateConstants
  <2>3. t.prefix \in Nat
    <3>1. t.prefix \in 0 .. Mask[DEPTH]
      BY <2>1 DEF Subtrees
    <3> QED BY <2>2, <3>1
  <2> QED BY <2>1, <2>2, <2>3 DEF BitSet
<1>5. Way(id)[k] = Half(t, d, b)
  BY <1>1, <1>2, WayStep
<1>6. /\ Half(t, d, TRUE) \in Subtrees /\ Half(t, d, FALSE) \in Subtrees
      /\ t.leaves = {} => Half(t, d, TRUE).leaves = {} /\ Half(t, d, FALSE).leaves = {}
  BY <1>1, <1>4, HalfType
<1>7. SubtreeRoot[d + 1][t] = Node(SubtreeRoot[d][Half(t, d, FALSE)], SubtreeRoot[d][Half(t, d, TRUE)])
  <2>1. CASE t.leaves # {}
    BY <1>1, <1>4, <2>1, RootStep
  <2>2. CASE t.leaves = {}
    <3>1. SubtreeRoot[d + 1][t] = EmptyHash[d + 1] /\ EmptyHash[d + 1] = Node(EmptyHash[d], EmptyHash[d])
      BY <1>1, <1>4, <2>2, RootStep, EmptyStep
    <3>2. SubtreeRoot[d][Half(t, d, FALSE)] = EmptyHash[d] /\ SubtreeRoot[d][Half(t, d, TRUE)] = EmptyHash[d]
      BY <1>1, <1>6, <2>2, RootStep
    <3> QED BY <3>1, <3>2
  <2> QED BY <2>1, <2>2
<1>8. Way(id)[DEPTH - d] = Half(t, d, b) /\ Way(id)[DEPTH - (d + 1)] = t
  BY <1>1, <1>2, <1>5
<1>9. CASE b
  <2>1. Half(t, d, b) = Half(t, d, TRUE) /\ Half(t, d, ~b) = Half(t, d, FALSE)
    BY <1>9 DEF Half
  <2> QED BY <1>7, <1>8, <1>9, <2>1
<1>10. CASE ~b
  <2>1. Half(t, d, b) = Half(t, d, FALSE) /\ Half(t, d, ~b) = Half(t, d, TRUE)
    BY <1>10 DEF Half
  <2> QED BY <1>7, <1>8, <1>10, <2>1
<1> QED BY <1>9, <1>10

\* At its end there is the account, or nothing.
LEMMA WayEnds ==
    ASSUME NEW id \in 0 .. Mask[DEPTH] - 1
    PROVE  SubtreeRoot[0][Way(id)[DEPTH]] = There(id)
<1>1. DEPTH \in 0 .. DEPTH /\ 0 \in 0 .. DEPTH /\ DEPTH - DEPTH = 0 /\ id \in Nat
  BY StateConstants, MaskType
<1>2. PICK t : t = Way(id)[DEPTH]
  OBVIOUS
<1>3. /\ t \in Subtrees /\ t.prefix <= id /\ id < t.prefix + 1
      /\ t.leaves = {a \in Leaves : t.prefix <= a /\ a < t.prefix + 1}
  BY <1>1, <1>2, WayReaches, MaskStep DEF Reaches
<1>4. t.prefix = id
  <2>1. t.prefix \in 0 .. Mask[DEPTH] /\ Mask[DEPTH] \in Nat
    BY <1>1, <1>3, MaskType DEF Subtrees
  <2> QED BY <1>1, <1>3, <2>1
<1>5. Leaves \subseteq Nat
  <2>1. Leaves \subseteq AccountIds
    BY DEF Leaves
  <2>2. AccountIds \subseteq 0 .. Mask[DEPTH] - 1 /\ Mask[DEPTH] \in Nat
    BY <1>1, MaskType, StateConstants
  <2> QED BY <2>1, <2>2
<1>6. t.leaves = {a \in Leaves : a = id}
  <2>1. \A a \in Leaves : (t.prefix <= a /\ a < t.prefix + 1) <=> a = id
    BY <1>1, <1>4, <1>5
  <2> QED BY <1>3, <2>1
<1>7. CASE id \in Leaves
  <2>1. t.leaves = {id}
    BY <1>6, <1>7
  <2>2. Min({id}) = id
    BY <1>1 DEF Min
  <2>3. SubtreeRoot[0][t] = HashAccount(accounts[Min(t.leaves)])
    BY <1>3, <2>1, RootStep
  <2>4. SubtreeRoot[0][t] = HashAccount(accounts[id])
    BY <2>1, <2>2, <2>3
  <2> QED BY <1>2, <1>7, <2>4 DEF There
<1>8. CASE id \notin Leaves
  <2>1. t.leaves = {}
    BY <1>6, <1>8
  <2> QED BY <1>1, <1>2, <1>3, <1>8, <2>1, RootStep, EmptyStep DEF There
<1> QED BY <1>7, <1>8

\* The proof handed out has one sibling for every level.
LEMMA SiblingsOf ==
    ASSUME NEW id
    PROVE  /\ Len(AccountProof(id)) = DEPTH
           /\ \A d \in 0 .. DEPTH - 1 :
                SiblingAt(AccountProof(id), d) = SubtreeRoot[d][Half(Way(id)[DEPTH - (d + 1)], d, ~BitSet(id, d))]
<1> DEFINE F(k) == SubtreeRoot[DEPTH - k][Half(Way(id)[k - 1], DEPTH - k, ~BitSet(id, DEPTH - k))]
<1>1. AccountProof(id) = [k \in 1 .. DEPTH |-> F(k)]
  BY DEF AccountProof
<1>2. \A d \in 0 .. DEPTH - 1 :
        F(DEPTH - d) = SubtreeRoot[d][Half(Way(id)[DEPTH - (d + 1)], d, ~BitSet(id, d))]
  <2> SUFFICES ASSUME NEW d \in 0 .. DEPTH - 1
               PROVE  F(DEPTH - d) = SubtreeRoot[d][Half(Way(id)[DEPTH - (d + 1)], d, ~BitSet(id, d))]
    OBVIOUS
  <2>1. DEPTH - (DEPTH - d) = d /\ (DEPTH - d) - 1 = DEPTH - (d + 1)
    BY StateConstants
  <2> QED BY <2>1
<1> HIDE DEF F
<1>3. Len(AccountProof(id)) = DEPTH
  BY <1>1, StateConstants
<1>4. \A d \in 0 .. DEPTH - 1 : DEPTH - d \in 1 .. DEPTH
  BY StateConstants
<1>5. \A d \in 0 .. DEPTH - 1 : SiblingAt(AccountProof(id), d) = F(DEPTH - d)
  BY <1>1, <1>3, <1>4 DEF SiblingAt
<1> QED BY <1>2, <1>3, <1>5

\* The proof of an account leads to the root.
LEMMA HandedOutProves ==
    ASSUME NEW id \in 0 .. Mask[DEPTH] - 1
    PROVE  VerifyAccountProof(StateRoot, id, There(id), AccountProof(id))
<1> DEFINE up == Climb(id, There(id), AccountProof(id))
           T == {d \in 0 .. DEPTH : up[d] # SubtreeRoot[d][Way(id)[DEPTH - d]]}
<1>1. DEPTH \in Nat /\ DEPTH - 0 = DEPTH /\ DEPTH - DEPTH = 0 /\ DEPTH \in 0 .. DEPTH
  BY StateConstants
<1>2. T = {}
  <2> SUFFICES ASSUME T # {} PROVE FALSE
    OBVIOUS
  <2>1. PICK d \in T : \A y \in T : ~(y < d)
    <3>1. T \subseteq Nat
      BY <1>1
    <3> HIDE DEF T
    <3> QED BY <3>1, SmallestNat
  <2>2. d \in 0 .. DEPTH /\ up[d] # SubtreeRoot[d][Way(id)[DEPTH - d]]
    BY <2>1
  <2>3. d # 0
    BY <1>1, <2>2, AscentStep, WayEnds
  <2> DEFINE c == d - 1
  <2>4. c \in 0 .. DEPTH - 1 /\ c \in 0 .. DEPTH /\ c < d /\ c + 1 = d /\ d \in 1 .. DEPTH
    BY <1>1, <2>2, <2>3
  <2>5. up[c] = SubtreeRoot[c][Way(id)[DEPTH - c]]
    BY <2>1, <2>4
  <2>6. up[d] = IF BitSet(id, c) THEN Node(SiblingAt(AccountProof(id), c), up[c])
                                 ELSE Node(up[c], SiblingAt(AccountProof(id), c))
    BY <2>4, AscentStep
  <2> HIDE DEF c, up
  <2>7. SiblingAt(AccountProof(id), c) = SubtreeRoot[c][Half(Way(id)[DEPTH - (c + 1)], c, ~BitSet(id, c))]
    BY <2>4, SiblingsOf
  <2>8. SubtreeRoot[c + 1][Way(id)[DEPTH - (c + 1)]] =
          IF BitSet(id, c) THEN Node(SiblingAt(AccountProof(id), c), up[c])
                           ELSE Node(up[c], SiblingAt(AccountProof(id), c))
    BY <2>4, <2>5, <2>7, NodeOnTheWay
  <2>9. SubtreeRoot[d][Way(id)[DEPTH - d]] = up[d]
    BY <2>4, <2>6, <2>8
  <2> QED BY <2>2, <2>9
<1>3. up[DEPTH] = SubtreeRoot[DEPTH][Way(id)[0]]
  BY <1>1, <1>2
<1> QED BY <1>3, SiblingsOf, WayStep DEF VerifyAccountProof, StateRoot

\* And whatever leads to the root from a place is what is there.
LEMMA NothingElseProves ==
    ASSUME NEW id \in 0 .. Mask[DEPTH] - 1, NEW hash, NEW proof, VerifyAccountProof(StateRoot, id, hash, proof)
    PROVE  hash = There(id)
<1> DEFINE up == Climb(id, hash, proof)
           T == {k \in 0 .. DEPTH : up[DEPTH - k] # SubtreeRoot[DEPTH - k][Way(id)[k]]}
<1>1. DEPTH \in Nat /\ DEPTH - 0 = DEPTH /\ DEPTH - DEPTH = 0 /\ DEPTH \in 0 .. DEPTH
  BY StateConstants
<1>2. up[DEPTH] = SubtreeRoot[DEPTH][Way(id)[0]]
  BY WayStep DEF VerifyAccountProof, StateRoot
<1>3. T = {}
  <2> SUFFICES ASSUME T # {} PROVE FALSE
    OBVIOUS
  <2>1. PICK k \in T : \A y \in T : ~(y < k)
    <3>1. T \subseteq Nat
      BY <1>1
    <3> HIDE DEF T
    <3> QED BY <3>1, SmallestNat
  <2>2. k \in 0 .. DEPTH /\ up[DEPTH - k] # SubtreeRoot[DEPTH - k][Way(id)[k]]
    BY <2>1
  <2>3. k # 0
    BY <1>1, <1>2, <2>2
  <2> DEFINE d == DEPTH - k
  <2>4. /\ k - 1 \in 0 .. DEPTH /\ k - 1 < k /\ DEPTH - (k - 1) = d + 1
        /\ d \in 0 .. DEPTH - 1 /\ d + 1 \in 1 .. DEPTH /\ (d + 1) - 1 = d /\ DEPTH - (d + 1) = k - 1 /\ DEPTH - d = k
    BY <1>1, <2>2, <2>3
  <2>5. up[d + 1] = SubtreeRoot[d + 1][Way(id)[k - 1]]
    <3>1. up[DEPTH - (k - 1)] = SubtreeRoot[DEPTH - (k - 1)][Way(id)[k - 1]]
      BY <2>1, <2>4
    <3> QED BY <2>4, <3>1
  <2>6. up[d + 1] = IF BitSet(id, d) THEN Node(SiblingAt(proof, d), up[d]) ELSE Node(up[d], SiblingAt(proof, d))
    BY <2>4, AscentStep
  <2> DEFINE other == SubtreeRoot[d][Half(Way(id)[k - 1], d, ~BitSet(id, d))]
             own == SubtreeRoot[d][Way(id)[k]]
  <2> HIDE DEF up
  <2>7. SubtreeRoot[d + 1][Way(id)[k - 1]] = IF BitSet(id, d) THEN Node(other, own) ELSE Node(own, other)
    <3> HIDE DEF d
    <3>1. SubtreeRoot[d + 1][Way(id)[DEPTH - (d + 1)]] =
            IF BitSet(id, d)
            THEN Node(SubtreeRoot[d][Half(Way(id)[DEPTH - (d + 1)], d, ~BitSet(id, d))], SubtreeRoot[d][Way(id)[DEPTH - d]])
            ELSE Node(SubtreeRoot[d][Way(id)[DEPTH - d]], SubtreeRoot[d][Half(Way(id)[DEPTH - (d + 1)], d, ~BitSet(id, d))])
      BY <2>4, NodeOnTheWay
    <3> QED BY <2>4, <3>1
  <2> HIDE DEF d, own, other
  <2>8. up[d] = own
    <3>1. \A a, b, x, y : Node(a, b) = Node(x, y) => a = x /\ b = y
      BY DEF Node
    <3>2. CASE BitSet(id, d)
      <4>1. Node(SiblingAt(proof, d), up[d]) = Node(other, own)
        BY <2>5, <2>6, <2>7, <3>2
      <4> QED BY <3>1, <4>1
    <3>3. CASE ~BitSet(id, d)
      <4>1. Node(up[d], SiblingAt(proof, d)) = Node(own, other)
        BY <2>5, <2>6, <2>7, <3>3
      <4> QED BY <3>1, <4>1
    <3> QED BY <3>2, <3>3
  <2> QED BY <2>2, <2>8 DEF own, d
<1>4. up[0] = SubtreeRoot[0][Way(id)[DEPTH]]
  BY <1>1, <1>3
<1> QED BY <1>4, AscentStep, WayEnds

\* Whatever was written, begun, committed and taken back: the proof of an account
\* leads from its hash to the root, an empty place is proved empty, and no proof at
\* all leads there from anything else, whatever id it is presented for.
THEOREM RootsProve == StateSpec => [](AccountsProve /\ RootProvesAccounts)
<1>1. AccountsProve
  BY HandedOutProves, NothingElseProves DEF AccountsProve
<1>2. AccountsProve => RootProvesAccounts
  BY DEF RootProvesAccounts
<1> QED BY <1>1, <1>2, PTL

\* --- the relay ---------------------------------------------------------------

\* What a report that says ok has passed.
Passed(d) ==
    /\ d.inputs.program \in Range(tree.pins) /\ d.program = d.inputs.program
    /\ d.envelope.inputs = d.inputs

\* A report is a record of these fields, signed.
Report(s, p, c, e, a, g) ==
    [status |-> s, program |-> p, canonical |-> c, envelope |-> e, alarm |-> a, sig |-> g]
Signed(r) == \E s, p, c, e, a : r = Report(s, p, c, e, a, <<s, p, c, e, a>>)

\* Signing a report covers what it says, whatever signature it had.
LEMMA SigningSigns ==
    ASSUME NEW s, NEW p, NEW c, NEW e, NEW a, NEW g
    PROVE  SignReport(Report(s, p, c, e, a, g)) = Report(s, p, c, e, a, <<s, p, c, e, a>>)
<1> DEFINE r == Report(s, p, c, e, a, g)
<1>1. Payload(r) = <<s, p, c, e, a>>
  BY DEF Payload, Report
<1> QED BY <1>1 DEF SignReport, Report

\* A report on a document is signed, and says ok only of one that passed.
LEMMA OutcomeIsSigned ==
    ASSUME NEW d
    PROVE  /\ Signed(FromOutcome(d))
           /\ FromOutcome(d).status = "ok" => Passed(d)
<1> DEFINE ok == Failing(d) = {}
           st == IF ok THEN "ok" ELSE "alarm"
           al == IF ok THEN "none" ELSE VerifyChecks(d)[Min(Failing(d))][2]
           ca == SetHasDigest /\ IsCanonical(d.inputs.program)
           fields == <<st, d.inputs.program, ca, d.envelope, al>>
<1>1. FromOutcome(d) = SignReport(Report(st, d.inputs.program, ca, d.envelope, al, <<>>))
  BY DEF FromOutcome, Report
<1>2. FromOutcome(d) = Report(st, d.inputs.program, ca, d.envelope, al, fields)
  <2> HIDE DEF st, al, ca
  <2> QED BY <1>1, SigningSigns
<1>3. Signed(FromOutcome(d))
  BY <1>2 DEF Signed
<1>4. ASSUME FromOutcome(d).status = "ok" PROVE Passed(d)
  <2>1. Failing(d) = {}
    BY <1>2, <1>4 DEF Report
  <2>2. \A i \in 1..8 : VerifyChecks(d)[i][1]
    BY <2>1 DEF Failing, VerifyChecks
  <2>3. VerifyChecks(d)[5][1] /\ VerifyChecks(d)[7][1] /\ VerifyChecks(d)[8][1]
    BY <2>2
  <2> QED BY <2>3 DEF VerifyChecks, StarkAccepts, IsCanonical, Passed
<1> QED BY <1>3, <1>4

\* A report turned into a violation is signed again, and says ok no more.
LEMMA ViolationIsSigned ==
    ASSUME NEW r, Signed(r)
    PROVE  Signed(MarkTransferViolation(r)) /\ MarkTransferViolation(r).status = "alarm"
<1>1. PICK s, p, c, e, a : r = Report(s, p, c, e, a, <<s, p, c, e, a>>)
  BY DEF Signed
<1>2. [r EXCEPT !.status = "alarm"] = Report("alarm", p, c, e, a, <<s, p, c, e, a>>)
  BY <1>1 DEF Report
<1>3. [r EXCEPT !.status = "alarm", !.alarm = "TransferViolation"]
        = [Report("alarm", p, c, e, a, <<s, p, c, e, a>>) EXCEPT !.alarm = "TransferViolation"]
  BY <1>2
<1>4. [r EXCEPT !.status = "alarm", !.alarm = "TransferViolation"]
        = Report("alarm", p, c, e, "TransferViolation", <<s, p, c, e, a>>)
  BY <1>3 DEF Report
<1>5. MarkTransferViolation(r)
        = Report("alarm", p, c, e, "TransferViolation", <<"alarm", p, c, e, "TransferViolation">>)
  BY <1>4, SigningSigns DEF MarkTransferViolation
<1>6. MarkTransferViolation(r).status = "alarm"
  BY <1>5 DEF Report
<1> QED BY <1>5, <1>6 DEF Signed

\* The signature of a signed report is its payload.
LEMMA SignedMeansPayload ==
    ASSUME NEW r, Signed(r)
    PROVE  r.sig = Payload(r)
BY DEF Signed, Report, Payload

\* The relay's machine, and how far it has come with the transfer: the sums are
\* compared in the sixth step, and the first of the two events is the answer.
Fields == {"pc", "registers", "stack", "memory", "storage", "events", "trace", "halted", "gas_used",
           "error", "state_writes"}
ComparesSums(m) ==
    /\ DOMAIN m = Fields /\ DOMAIN m.registers = 0 .. FILE - 1
    /\ m.error # "none" => m.halted
    /\ m.error = "none" =>
         /\ m.pc \in 0 .. 11
         /\ m.pc > 5 /\ m.registers[7] = 1 => m.registers[5] = m.registers[6]
         /\ m.pc < 10 => m.events = <<>>
         /\ m.pc = 10 => m.events = <<m.registers[7]>>
         /\ m.pc = 11 => m.events[1] = m.registers[7]

\* An error ends the run.
LEMMA StopsRun ==
    ASSUME ComparesSums(r_vm), NEW error, error # "none", NEW gas, Fresh!Stops(error, gas)
    PROVE  ComparesSums(r_vm')
<1>1. DOMAIN r_vm' = Fields /\ DOMAIN r_vm'.registers = 0 .. FILE - 1
  BY DEF ComparesSums, Fields, Fresh!Stops
<1>2. r_vm'.error = error /\ r_vm'.halted = TRUE
  BY DEF ComparesSums, Fields, Fresh!Stops
<1> QED BY <1>1, <1>2 DEF ComparesSums

\* What an instruction with a result leaves.
LEMMA ResultLeft ==
    ASSUME ComparesSums(r_vm), NEW v, r_vm' = Fresh!Result(v)
    PROVE  /\ DOMAIN r_vm' = Fields
           /\ r_vm'.pc = r_vm.pc + 1 /\ r_vm'.events = r_vm.events /\ r_vm'.error = r_vm.error /\ r_vm'.halted = r_vm.halted
           /\ r_vm'.registers = [r_vm.registers EXCEPT ![Fresh!Op.rd] = v, ![0] = 0]
BY DEF ComparesSums, Fields, Fresh!Result, Fresh!Yields, Fresh!Keeps

\* A register file after a result.
LEMMA FileAfter ==
    ASSUME NEW f, NEW n, DOMAIN f = 0 .. n, NEW d, NEW v, NEW r \in 1 .. n
    PROVE  [f EXCEPT ![d] = v, ![0] = 0][r] = IF r = d THEN v ELSE f[r]
<1>1. r \in DOMAIN f /\ r # 0
  OBVIOUS
<1> QED BY <1>1

\* What a log leaves.
LEMMA LogLeft ==
    ASSUME ComparesSums(r_vm), Fresh!LogOp
    PROVE  /\ DOMAIN r_vm' = Fields
           /\ r_vm'.pc = r_vm.pc + 1 /\ r_vm'.events = Append(r_vm.events, Fresh!Src1)
           /\ r_vm'.error = r_vm.error /\ r_vm'.halted = r_vm.halted /\ r_vm'.registers = r_vm.registers
BY DEF ComparesSums, Fields, Fresh!LogOp, Fresh!Becomes, Fresh!Quiet, Fresh!Keeps

\* And a halt.
LEMMA HaltLeft ==
    ASSUME ComparesSums(r_vm), Fresh!HaltOp
    PROVE  /\ DOMAIN r_vm' = Fields /\ r_vm'.pc = r_vm.pc /\ r_vm'.events = r_vm.events
           /\ r_vm'.error = r_vm.error /\ r_vm'.registers = r_vm.registers
BY DEF ComparesSums, Fields, Fresh!HaltOp, Fresh!Becomes, Fresh!Quiet, Fresh!Keeps

\* The instruction the machine is at.
LEMMA AtTransfer ==
    ASSUME r_code = TransferSlots, r_vm.pc \in 0 .. 11
    PROVE  /\ r_vm.pc \in {0, 1, 3, 4, 6, 7} => Fresh!Op.op = "Load" /\ Fresh!Op.rs1 = 0
           /\ r_vm.pc = 2 => Fresh!Op.op = "PrivacyCommit"
           /\ r_vm.pc = 5 => Fresh!Op.op = "SumConservation" /\ Fresh!Op.rd = 7 /\ Fresh!Op.rs1 = 5 /\ Fresh!Op.rs2 = 6
           /\ r_vm.pc = 8 => Fresh!Op.op = "NullifierCheck"
           /\ r_vm.pc \in {9, 10} => Fresh!Op.op = "Log"
           /\ r_vm.pc = 9 => Fresh!Op.rs1 = 7
           /\ r_vm.pc = 11 => Fresh!Op.op = "Halt"
           /\ r_vm.pc \in 6 .. 8 => Fresh!Op.rd \in 8 .. 10
<1>1. r_vm.pc \in {0, 1, 2, 3, 4, 5, 6, 7, 8, 9, 10, 11}
  OBVIOUS
<1> QED BY <1>1 DEF TransferSlots, Slot, Fresh!Op

\* Whatever instruction the transfer is at, it goes on comparing its sums.
LEMMA TransferStep ==
    ASSUME ComparesSums(r_vm), r_code = TransferSlots, Fresh!ZkNext
    PROVE  ComparesSums(r_vm')
<1>1. ~r_vm.halted
  BY DEF Fresh!ZkNext, Fresh!BadPc, Fresh!BadOpcode, Fresh!OutOfGas, Fresh!HaltOp, Fresh!Compute, Fresh!LoadImm,
         Fresh!LoadMem, Fresh!StoreMem, Fresh!BadAddress, Fresh!JumpOp, Fresh!AssertOp, Fresh!CallOp, Fresh!PushOp,
         Fresh!RetOp, Fresh!PopOp, Fresh!StackOverflow, Fresh!StackUnderflow, Fresh!StorageOp, Fresh!LogOp,
         Fresh!SyscallOp, Fresh!VerifyMerkle, Fresh!VerifyInference, Fresh!Runs, Fresh!Decoded
<1>2. r_vm.error = "none" /\ r_vm.pc \in 0 .. 11
  BY <1>1 DEF ComparesSums
<1>3. Fresh!Op.op \in {"Load", "PrivacyCommit", "SumConservation", "NullifierCheck", "Log", "Halt"}
      /\ (Fresh!Op.op = "Load" => Fresh!Op.rs1 = 0)
  <2>1. r_vm.pc \in {0, 1, 2, 3, 4, 5, 6, 7, 8, 9, 10, 11}
    BY <1>2
  <2> QED BY <1>2, <2>1, AtTransfer
<1>4. CASE \E error, gas : error # "none" /\ Fresh!Stops(error, gas)
  BY <1>4, StopsRun
<1>5. CASE \E v : r_vm' = Fresh!Result(v) /\ Fresh!Op.op \notin {"Log", "Halt"}
                  /\ (Fresh!Op.op = "SumConservation" => v = Fresh!OpValue("SumConservation", Fresh!Src1, Fresh!Src2, Fresh!Op.imm))
  <2>1. PICK v : /\ r_vm' = Fresh!Result(v) /\ Fresh!Op.op \notin {"Log", "Halt"}
                 /\ Fresh!Op.op = "SumConservation" => v = Fresh!OpValue("SumConservation", Fresh!Src1, Fresh!Src2, Fresh!Op.imm)
    BY <1>5
  <2>2. /\ DOMAIN r_vm' = Fields
        /\ r_vm'.pc = r_vm.pc + 1 /\ r_vm'.events = r_vm.events /\ r_vm'.error = r_vm.error /\ r_vm'.halted = r_vm.halted
        /\ r_vm'.registers = [r_vm.registers EXCEPT ![Fresh!Op.rd] = v, ![0] = 0]
    BY <2>1, ResultLeft
  <2>3. DOMAIN r_vm'.registers = 0 .. FILE - 1
    BY <2>2 DEF ComparesSums
  <2>4. r_vm.pc \in 0 .. 8
    BY <1>2, <2>1, AtTransfer
  <2>5. {5, 6, 7} \subseteq 0 .. FILE - 1
    BY DEF FILE
  <2>9. \A r \in {5, 6, 7} : r_vm'.registers[r] = IF r = Fresh!Op.rd THEN v ELSE r_vm.registers[r]
    <3>1. DOMAIN r_vm.registers = 0 .. FILE - 1 /\ \A r \in {5, 6, 7} : r \in 1 .. FILE - 1
      BY <2>5 DEF ComparesSums
    <3>2. PICK f, n, d, g : f = r_vm.registers /\ n = FILE - 1 /\ d = Fresh!Op.rd /\ g = r_vm'.registers
      OBVIOUS
    <3>3. g = [f EXCEPT ![d] = v, ![0] = 0] /\ DOMAIN f = 0 .. n /\ \A r \in {5, 6, 7} : r \in 1 .. n
      BY <2>2, <3>1, <3>2
    <3>4. \A r \in {5, 6, 7} : [f EXCEPT ![d] = v, ![0] = 0][r] = IF r = d THEN v ELSE f[r]
      BY <3>3, FileAfter
    <3>5. \A r \in {5, 6, 7} : g[r] = IF r = d THEN v ELSE f[r]
      BY <3>3, <3>4
    <3> QED BY <3>2, <3>5
  <2>6. CASE r_vm.pc \in 0 .. 4
    BY <1>2, <2>2, <2>3, <2>6 DEF ComparesSums
  <2>7. CASE r_vm.pc = 5
    <3>1. Fresh!Op.op = "SumConservation" /\ Fresh!Op.rd = 7 /\ Fresh!Op.rs1 = 5 /\ Fresh!Op.rs2 = 6
      BY <2>7, AtTransfer
    <3>2. v = 1 => r_vm.registers[5] = r_vm.registers[6]
      BY <2>1, <3>1 DEF Fresh!OpValue, Fresh!Flag, Fresh!Src1, Fresh!Src2
    <3>3. r_vm'.registers[7] = v /\ r_vm'.registers[5] = r_vm.registers[5] /\ r_vm'.registers[6] = r_vm.registers[6]
      BY <2>2, <2>9, <3>1
    <3>4. r_vm.events = <<>>
      BY <1>2, <2>7 DEF ComparesSums
    <3> QED BY <1>2, <2>2, <2>3, <2>7, <3>2, <3>3, <3>4 DEF ComparesSums
  <2>8. CASE r_vm.pc \in 6 .. 8
    <3>1. Fresh!Op.rd \in 8 .. 10
      BY <1>2, <2>8, AtTransfer
    <3>2. r_vm'.registers[7] = r_vm.registers[7] /\ r_vm'.registers[5] = r_vm.registers[5]
          /\ r_vm'.registers[6] = r_vm.registers[6]
      BY <2>2, <2>9, <3>1
    <3> QED BY <1>2, <2>2, <2>3, <2>8, <3>2 DEF ComparesSums
  <2> QED BY <2>4, <2>6, <2>7, <2>8
<1>6. CASE Fresh!LogOp
  <2>1. /\ DOMAIN r_vm' = Fields
        /\ r_vm'.pc = r_vm.pc + 1 /\ r_vm'.events = Append(r_vm.events, Fresh!Src1)
        /\ r_vm'.error = r_vm.error /\ r_vm'.halted = r_vm.halted /\ r_vm'.registers = r_vm.registers
    BY <1>6, LogLeft
  <2>2. Fresh!Op.op = "Log"
    BY <1>6 DEF Fresh!LogOp, Fresh!Runs
  <2>3. r_vm.pc \in {9, 10}
    <3>1. r_vm.pc \in {0, 1, 2, 3, 4, 5, 6, 7, 8, 9, 10, 11}
      BY <1>2
    <3> QED BY <1>2, <2>2, <3>1, AtTransfer
  <2>4. CASE r_vm.pc = 9
    <3>1. Fresh!Src1 = r_vm.registers[7]
      BY <2>4, AtTransfer DEF Fresh!Src1
    <3>2. r_vm.events = <<>>
      BY <1>2, <2>4 DEF ComparesSums
    <3>3. r_vm'.events = <<r_vm'.registers[7]>>
      BY <2>1, <3>1, <3>2
    <3> QED BY <1>2, <2>1, <2>4, <3>3 DEF ComparesSums
  <2>5. CASE r_vm.pc = 10
    <3>1. r_vm.events = <<r_vm.registers[7]>>
      BY <1>2, <2>5 DEF ComparesSums
    <3>2. PICK a, b : a = r_vm.registers[7] /\ b = Fresh!Src1
      OBVIOUS
    <3>3. Append(<<a>>, b)[1] = a
      <4>1. <<a>> \in Seq({a, b}) /\ Len(<<a>>) = 1
        OBVIOUS
      <4> QED BY <4>1
    <3>4. r_vm'.events[1] = r_vm'.registers[7]
      BY <2>1, <3>1, <3>2, <3>3
    <3> QED BY <1>2, <2>1, <2>5, <3>4 DEF ComparesSums
  <2> QED BY <2>3, <2>4, <2>5
<1>7. CASE Fresh!HaltOp
  <2>1. /\ DOMAIN r_vm' = Fields /\ r_vm'.pc = r_vm.pc /\ r_vm'.events = r_vm.events
        /\ r_vm'.error = r_vm.error /\ r_vm'.registers = r_vm.registers
    BY <1>7, HaltLeft
  <2> QED BY <1>2, <2>1 DEF ComparesSums
<1>8. \/ \E error, gas : error # "none" /\ Fresh!Stops(error, gas)
      \/ \E v : r_vm' = Fresh!Result(v) /\ Fresh!Op.op \notin {"Log", "Halt"}
                /\ (Fresh!Op.op = "SumConservation" => v = Fresh!OpValue("SumConservation", Fresh!Src1, Fresh!Src2, Fresh!Op.imm))
      \/ Fresh!LogOp \/ Fresh!HaltOp
  <2>1. CASE \/ Fresh!BadPc \/ Fresh!BadOpcode \/ Fresh!OutOfGas \/ Fresh!BadAddress \/ Fresh!StackOverflow \/ Fresh!StackUnderflow
    BY <2>1 DEF Fresh!BadPc, Fresh!BadOpcode, Fresh!OutOfGas, Fresh!BadAddress, Fresh!StackOverflow, Fresh!StackUnderflow
  <2>2. CASE Fresh!Compute
    BY <2>2 DEF Fresh!Compute, Fresh!Becomes, Fresh!Runs, Fresh!Pure
  <2>3. CASE Fresh!LoadImm
    BY <2>3 DEF Fresh!LoadImm, Fresh!Becomes, Fresh!Runs
  <2>4. CASE Fresh!LoadMem \/ Fresh!StoreMem \/ Fresh!JumpOp \/ Fresh!AssertOp \/ Fresh!CallOp \/ Fresh!PushOp \/ Fresh!RetOp
             \/ Fresh!PopOp \/ Fresh!StorageOp \/ Fresh!SyscallOp \/ Fresh!VerifyMerkle \/ Fresh!VerifyInference
    BY <1>3, <2>4 DEF Fresh!LoadMem, Fresh!StoreMem, Fresh!JumpOp, Fresh!AssertOp, Fresh!CallOp, Fresh!PushOp, Fresh!RetOp,
             Fresh!PopOp, Fresh!StorageOp, Fresh!SyscallOp, Fresh!VerifyMerkle, Fresh!VerifyInference, Fresh!Runs
  <2> QED BY <2>1, <2>2, <2>3, <2>4 DEF Fresh!ZkNext
<1> QED BY <1>4, <1>5, <1>6, <1>7, <1>8

\* From the host's last row to the verdict: a signed report that says ok has passed;
\* the transfer that is run again is the one presented, and in an attested tree
\* its machine compares the sums; once judged lawful, the verdict holds for good.
AgainInv ==
    stage = "again" =>
        /\ entry_point # "report" /\ report.status = "ok" /\ r_code = doc.program
        /\ boot_check = "attested" /\ doc.program = tree.pins[3] => doc.program = TransferSlots /\ ComparesSums(r_vm)
Judged ==
    /\ r_vm.error = "none" /\ r_vm.events[1] = 1
    /\ doc.inputs.gas_used = r_vm.gas_used /\ doc.inputs.trace_len = Len(r_vm.trace)
    /\ entry_point = "with_spentset" => answers /\ r_vm.registers[8] \notin spent
    /\ boot_check = "attested" => doc.program = TransferSlots /\ r_vm.registers[5] = r_vm.registers[6]
RelayInv ==
    /\ boot_check = "attested" => Attests
    /\ stage \in {"host", "verify", "again", "done"}
    /\ stage \in {"again", "done"} => Signed(report) /\ (report.status = "ok" => Passed(doc))
    /\ AgainInv
    /\ stage = "done" /\ report.status = "ok" /\ entry_point # "report" /\ doc.program = tree.pins[3] => Judged

\* A relay that was started has reported nothing.
LEMMA RelayStarts == RelayInit => RelayInv
BY DEF RelayInit, RelayInv, AgainInv

\* Nothing but the relay's program and the account of its inputs is in the verdict.
LEMMA LawfulIsJudged ==
    ASSUME RelayInv, Judge, Lawful, doc.program = tree.pins[3]
    PROVE  Judged'
<1>1. r_vm.error = "none" /\ Len(r_vm.events) = 2 /\ r_vm.events[1] = 1
  BY DEF Lawful, Conserves
<1>2. doc.inputs.gas_used = r_vm.gas_used /\ doc.inputs.trace_len = Len(r_vm.trace)
  BY DEF Lawful, MatchesRun, InputsOf, Fresh!RunReceipt
<1>3. entry_point = "with_spentset" => answers /\ r_vm.registers[8] \notin spent
  BY DEF Lawful, Unspent
<1>4. ASSUME boot_check = "attested" PROVE doc.program = TransferSlots /\ r_vm.registers[5] = r_vm.registers[6]
  <2>1. doc.program = TransferSlots /\ ComparesSums(r_vm)
    BY <1>4 DEF RelayInv, AgainInv, Judge
  <2>2. ~(r_vm.pc < 10) /\ r_vm.pc \in 0 .. 11
    BY <1>1, <2>1 DEF ComparesSums
  <2>3. r_vm.registers[7] = 1
    BY <1>1, <2>1, <2>2 DEF ComparesSums
  <2> QED BY <1>1, <2>1, <2>2, <2>3 DEF ComparesSums
<1> QED BY <1>1, <1>2, <1>3, <1>4 DEF Judge, Judged, TransferSlots

\* Every step of the relay, of its host and of the oracle keeps the invariant.
LEMMA RelaySteps ==
    ASSUME RelayInv, [RelayNext]_relayVars
    PROVE  RelayInv'
<1>1. CASE UNCHANGED relayVars
  BY <1>1, ZenonT(30) DEF RelayInv, AgainInv, Judged, Passed, Attests, TransferSlots, SyscallSlots, TransferPinReconciles, ComparesSums, relayVars
<1>2. CASE Boot
  BY <1>2 DEF Boot, RelayInv, AgainInv, Attests, TransferSlots, SyscallSlots, TransferPinReconciles
<1>3. CASE HostRuns
  BY <1>3 DEF HostRuns, RelayInv, AgainInv, Attests, TransferSlots, SyscallSlots, TransferPinReconciles
<1>4. CASE Prove
  BY <1>4 DEF Prove, RelayInv, AgainInv, Attests, TransferSlots, SyscallSlots, TransferPinReconciles
<1>5. CASE Relay
  <2>1. Signed(report') /\ (report'.status = "ok" => Passed(doc))
    BY <1>5, OutcomeIsSigned DEF Relay
  <2>2. (boot_check = "attested" => Attests)'
    BY <1>5 DEF Relay, RelayInv, Attests, TransferSlots, SyscallSlots, TransferPinReconciles
  <2>3. Passed(doc)' <=> Passed(doc)
    BY <1>5 DEF Relay, Passed
  <2>4. CASE report'.status = "ok" /\ entry_point' # "report" /\ IsCanonicalTransfer(doc.inputs.program)
    <3>1. stage' = "again" /\ r_code' = doc.program /\ r_vm' = Fresh!Started(r_entry') /\ r_entry'.registers = Zeros(0, FILE - 1)
          /\ doc' = doc /\ tree' = tree /\ boot_check' = boot_check
      BY <1>5, <2>4 DEF Relay
    <3>2. ComparesSums(r_vm')
      BY <3>1 DEF ComparesSums, Fields, Fresh!Started, Zeros
    <3>3. boot_check = "attested" /\ doc.program = tree.pins[3] => doc.program = TransferSlots
      BY DEF RelayInv, Attests
    <3>4. TransferSlots' = TransferSlots
      BY <3>1 DEF TransferSlots
    <3>5. AgainInv'
      BY <2>4, <3>1, <3>2, <3>3, <3>4 DEF AgainInv
    <3> QED BY <2>1, <2>2, <2>3, <3>1, <3>5 DEF RelayInv
  <2>5. CASE ~(report'.status = "ok" /\ entry_point' # "report" /\ IsCanonicalTransfer(doc.inputs.program))
    <3>1. stage' = "done" /\ doc' = doc /\ tree' = tree
      BY <1>5, <2>5 DEF Relay
    <3>2. ~(report'.status = "ok" /\ entry_point' # "report" /\ doc.program = tree.pins[3])
      BY <2>1, <2>5 DEF Passed, IsCanonicalTransfer
    <3> QED BY <2>1, <2>2, <2>3, <3>1, <3>2 DEF RelayInv, AgainInv
  <2> QED BY <2>4, <2>5
<1>6. CASE Reexecute
  <2>1. stage = "again" /\ stage' = "again" /\ tree' = tree /\ boot_check' = boot_check /\ doc' = doc
        /\ entry_point' = entry_point /\ report' = report
    BY <1>6 DEF Reexecute
  <2>2. r_code' = r_code
    BY <1>6 DEF Reexecute, Fresh!ZkNext, Fresh!BadPc, Fresh!BadOpcode, Fresh!OutOfGas, Fresh!HaltOp, Fresh!Compute, Fresh!LoadImm,
         Fresh!LoadMem, Fresh!StoreMem, Fresh!BadAddress, Fresh!JumpOp, Fresh!AssertOp, Fresh!CallOp, Fresh!PushOp,
         Fresh!RetOp, Fresh!PopOp, Fresh!StackOverflow, Fresh!StackUnderflow, Fresh!StorageOp, Fresh!LogOp,
         Fresh!SyscallOp, Fresh!VerifyMerkle, Fresh!VerifyInference, Fresh!Stops, Fresh!Becomes
  <2>3. TransferSlots' = TransferSlots
    BY <2>1 DEF TransferSlots
  <2>4. boot_check = "attested" /\ doc.program = tree.pins[3] => doc.program = TransferSlots /\ ComparesSums(r_vm')
    BY <1>6, <2>1, TransferStep DEF RelayInv, AgainInv, Reexecute
  <2>5. AgainInv'
    BY <2>1, <2>2, <2>3, <2>4 DEF RelayInv, AgainInv
  <2>6. (boot_check = "attested" => Attests)'
    BY <2>1 DEF RelayInv, Attests, TransferSlots, SyscallSlots, TransferPinReconciles
  <2> QED BY <2>1, <2>5, <2>6 DEF RelayInv, Passed
<1>7. CASE Judge
  <2>1. stage = "again" /\ stage' = "done" /\ tree' = tree /\ boot_check' = boot_check /\ doc' = doc
    BY <1>7 DEF Judge
  <2>2. (boot_check = "attested" => Attests)'
    BY <2>1 DEF RelayInv, Attests, TransferSlots, SyscallSlots, TransferPinReconciles
  <2>3. CASE Lawful
    <3>1. report' = report
      BY <1>7, <2>3 DEF Judge
    <3>2. doc.program = tree.pins[3] => Judged'
      BY <1>7, <2>3, LawfulIsJudged
    <3> QED BY <2>1, <2>2, <3>1, <3>2 DEF RelayInv, AgainInv, Passed
  <2>4. CASE ~Lawful
    <3>1. Signed(report') /\ report'.status = "alarm"
      BY <1>7, <2>1, <2>4, ViolationIsSigned DEF Judge, RelayInv
    <3> QED BY <2>1, <2>2, <3>1 DEF RelayInv, AgainInv
  <2> QED BY <2>3, <2>4
<1>8. CASE Spend \/ OracleFails
  <2>1. stage = "again" /\ stage' = "again" /\ tree' = tree /\ boot_check' = boot_check /\ doc' = doc
        /\ entry_point' = entry_point /\ report' = report /\ r_code' = r_code /\ r_vm' = r_vm
    BY <1>8 DEF Spend, OracleFails
  <2>2. (boot_check = "attested" => Attests)'
    BY <2>1 DEF RelayInv, Attests, TransferSlots, SyscallSlots, TransferPinReconciles
  <2>3. AgainInv'
    BY <2>1 DEF RelayInv, AgainInv, TransferSlots, ComparesSums
  <2> QED BY <2>1, <2>2, <2>3 DEF RelayInv, Passed
<1> QED BY <1>1, <1>2, <1>3, <1>4, <1>5, <1>6, <1>7, <1>8 DEF RelayNext

\* A report that says ok is lawful, whatever document the relay is given, whatever
\* tree it runs from and whenever the oracle fails (relayer.rs, verify_and_report_at
\* and the two r_entry points that run the transfer again).
THEOREM OkIsLawful == RelaySpec => []OkMeansLawful
<1>1. RelayInv => OkMeansLawful
  BY SignedMeansPayload DEF RelayInv, OkMeansLawful, Judged, Passed
<1> QED BY <1>1, RelayStarts, RelaySteps, PTL DEF RelaySpec
=============================================================================

------------------------ MODULE FinalityRegistryProofs ------------------------
(***************************************************************************)
(* What the finality registry guarantees for every set of accounts,        *)
(* domains, heights, keys, evidence and proofs.                            *)
(***************************************************************************)
EXTENDS FinalityRegistry, TLAPS

\* The type invariant holds initially.
LEMMA InitType == Init => TypeOK
<1> SUFFICES ASSUME Init PROVE TypeOK
  OBVIOUS
<1>1. NoDomain \in DomainRecords
  BY RegistryConstants DEF NoDomain, DomainRecords, DomainStates, SecurityBacking
<1> QED BY <1>1, RegistryConstants DEF Init, TypeOK, Slots

\* The bootstrap calls, with the five key setters as one.
LEMMA AdminCases ==
  AdminStep => \E a \in Accounts :
    \/ Initialize(a)
    \/ \E k \in VerifyingKeys, s \in Slots : SetKey(a, s, k)
    \/ RenounceAdmin(a)
    \/ \E d \in Domains :
          \/ \E v \in Versions, accepted \in SUBSET Versions : RegisterDomain(a, d, v, accepted)
          \/ AdmitDomain(a, d)
          \/ \E k \in PubKeys \cup OtherKeys, s \in Quorums, r \in Quorums :
                SetBlsPolicy(a, d, [key |-> k, signers |-> s, required |-> r])
  BY DEF AdminStep, SetVk, SetStepChainVk, SetExecutionVk, SetGateVmVk, SetGateVm32Vk,
         Slots, RecordingLanes

\* Bootstrap calls preserve the type invariant.
LEMMA AdminType == TypeOK /\ AdminStep => TypeOK'
<1> SUFFICES ASSUME TypeOK, AdminStep PROVE TypeOK'
  OBVIOUS
<1> PICK a \in Accounts :
          \/ Initialize(a)
          \/ \E k \in VerifyingKeys, s \in Slots : SetKey(a, s, k)
          \/ RenounceAdmin(a)
          \/ \E d \in Domains :
                \/ \E v \in Versions, accepted \in SUBSET Versions : RegisterDomain(a, d, v, accepted)
                \/ AdmitDomain(a, d)
                \/ \E k \in PubKeys \cup OtherKeys, s \in Quorums, r \in Quorums :
                      SetBlsPolicy(a, d, [key |-> k, signers |-> s, required |-> r])
  BY AdminCases
<1>1. CASE Initialize(a)
  BY <1>1 DEF Initialize, TypeOK
<1>2. ASSUME NEW k \in VerifyingKeys, NEW s \in Slots, SetKey(a, s, k) PROVE TypeOK'
  BY <1>2 DEF SetKey, TypeOK
<1>3. CASE RenounceAdmin(a)
  BY <1>3 DEF RenounceAdmin, TypeOK
<1>4. ASSUME NEW d \in Domains, NEW v \in Versions, NEW accepted \in SUBSET Versions,
             RegisterDomain(a, d, v, accepted)
      PROVE  TypeOK'
  <2>1. [NoDomain EXCEPT !.state = "Registered", !.versions = accepted] \in DomainRecords
    BY RegistryConstants DEF NoDomain, DomainRecords, DomainStates, SecurityBacking
  <2> QED BY <1>4, <2>1 DEF RegisterDomain, TypeOK
<1>5. ASSUME NEW d \in Domains, AdmitDomain(a, d) PROVE TypeOK'
  <2>1. [domain[d] EXCEPT !.state = "Admitted"] \in DomainRecords
    BY DEF TypeOK, DomainRecords, DomainStates
  <2> QED BY <1>5, <2>1 DEF AdmitDomain, TypeOK
<1>6. ASSUME NEW d \in Domains, NEW k \in PubKeys \cup OtherKeys, NEW s \in Quorums,
             NEW r \in Quorums,
             SetBlsPolicy(a, d, [key |-> k, signers |-> s, required |-> r])
      PROVE  TypeOK'
  <2>1. [key |-> k, signers |-> s, required |-> r] \in Policies
    BY <1>6 DEF SetBlsPolicy, Policies
  <2> QED BY <1>6, <2>1 DEF SetBlsPolicy, TypeOK
<1> QED BY <1>1, <1>2, <1>3, <1>4, <1>5, <1>6

\* A BLS submission preserves the type invariant.
LEMMA BlsType == ASSUME TypeOK, NEW e \in Evidences, SubmitBls(e) PROVE TypeOK'
<1> DEFINE d == e.domain
<1>1. /\ d \in Domains /\ e.height \in Heights /\ e.root \in Roots
      /\ e.payload.event \in Roots /\ policy[d] \in Policies
  BY RegistryConstants DEF SubmitBls, AnchorHeight, BlsAccepts, BlsReachesReplayCheck, Rederived, TypeOK
<1>2. domain'[d] \in DomainRecords
  <2>1. <<"SignatureSet", policy[d]>> \in SecurityBacking
    BY <1>1 DEF SecurityBacking
  <2>2. domain[d] \in DomainRecords
    BY <1>1 DEF TypeOK
  <2>3. domain'[d] = [domain[d] EXCEPT !.lastHeight = e.height, !.lastRoot = e.root,
                                       !.lastEvent = e.payload.event,
                                       !.security = <<"SignatureSet", policy[d]>>,
                                       !.state = "Active"]
    BY <1>1 DEF SubmitBls, AnchorHeight, TypeOK
  <2> QED BY <1>1, <2>1, <2>2, <2>3 DEF DomainRecords, DomainStates
<1>3. domain' \in [Domains -> DomainRecords]
  BY <1>1, <1>2 DEF SubmitBls, AnchorHeight, TypeOK
<1>4. finalized' \in [Domains -> [Heights -> FinalizedRecords \cup {None}]]
  BY <1>1 DEF SubmitBls, AnchorHeight, TypeOK, FinalizedRecords
<1> QED BY <1>3, <1>4 DEF SubmitBls, AnchorHeight, TypeOK

\* A Groth16 settlement submission preserves the type invariant.
LEMMA ZkType == ASSUME TypeOK, NEW e \in Evidences, NEW proof \in Proofs, SubmitZk(e, proof)
                PROVE TypeOK'
<1> DEFINE d == e.domain
<1>1. d \in Domains /\ e.height \in Heights /\ e.root \in Roots
  BY RegistryConstants
<1>2. domain'[d] \in DomainRecords
  <2>1. <<"ZkProof">> \in SecurityBacking
    BY DEF SecurityBacking
  <2>2. domain[d] \in DomainRecords
    BY <1>1 DEF TypeOK
  <2>3. domain'[d] = [domain[d] EXCEPT !.lastHeight = e.height, !.lastRoot = e.root,
                                       !.security = <<"ZkProof">>, !.state = "Active"]
    BY <1>1 DEF SubmitZk, ZkRecord, TypeOK
  <2> QED BY <1>1, <2>1, <2>2, <2>3 DEF DomainRecords, DomainStates
<1>3. domain' \in [Domains -> DomainRecords]
  BY <1>1, <1>2 DEF SubmitZk, ZkRecord, TypeOK
<1>4. finalized' \in [Domains -> [Heights -> FinalizedRecords \cup {None}]]
  BY <1>1, RegistryConstants DEF SubmitZk, ZkRecord, TypeOK, FinalizedRecords
<1> QED BY <1>3, <1>4 DEF SubmitZk, ZkRecord, TypeOK

\* Every recording submission is a Records step of one lane.
LEMMA RecordingStep ==
  ASSUME NEW e \in Evidences, NEW proof \in Proofs,
         \/ SubmitStepChain(e, proof) \/ SubmitExecution(e, proof)
         \/ SubmitGateVm(e, proof) \/ SubmitGateVm32(e, proof)
  PROVE  \E l \in RecordingLanes : Records(l, e, proof)
  BY DEF SubmitStepChain, SubmitExecution, SubmitGateVm, SubmitGateVm32, RecordingLanes

\* The three shapes of a submission.
LEMMA SubmitCases ==
  SubmitStep =>
    \E e \in Evidences :
        \/ SubmitBls(e)
        \/ \E proof \in Proofs : \/ SubmitZk(e, proof)
                                 \/ \E l \in RecordingLanes : Records(l, e, proof)
  BY RecordingStep DEF SubmitStep

\* A record on a trail keeps the types.
LEMMA RecordsType ==
  ASSUME TypeOK, NEW e \in Evidences, NEW proof \in Proofs, NEW l \in RecordingLanes,
         Records(l, e, proof)
  PROVE  TypeOK'
<1>1. e.domain \in Domains /\ e.payload.kind = PayloadOf[l]
  BY RegistryConstants DEF Records, MovesOn, Rederived
<1>2. TrailRecord(e) \in TrailRecords
  BY <1>1 DEF TrailRecords, PayloadOf, SettlementPayloads, RecordingLanes
<1> QED BY <1>1, <1>2 DEF Records, MovesOn, TypeOK

\* Every step preserves the type invariant.
LEMMA NextType == TypeOK /\ [Next]_registryVars => TypeOK'
<1> SUFFICES ASSUME TypeOK, [Next]_registryVars PROVE TypeOK'
  OBVIOUS
<1>1. CASE AdminStep
  BY <1>1, AdminType
<1>2. CASE SubmitStep
  BY <1>2, BlsType, ZkType, SubmitCases, RecordsType
<1>3. CASE UNCHANGED registryVars
  BY <1>3 DEF registryVars, TypeOK
<1> QED BY <1>1, <1>2, <1>3 DEF Next

\* Type correctness of the registry, for every value of the constants.
THEOREM TypeCorrect == Spec => []TypeOK
  BY InitType, NextType, PTL DEF Spec

\* What a bootstrap call may touch: never evidence, anchors or trails; the
\* admin entry only in initialize and renounce_admin; a domain only to register
\* or to admit it; a policy only of a registered domain.
AdminEffect ==
  /\ UNCHANGED <<finalized, evidence, trail>>
  /\ \/ UNCHANGED <<admin, renounced>>
     \/ renounced' = FALSE
     \/ admin' = DeadAdmin
  /\ \A d \in Domains :
        /\ \/ domain'[d] = domain[d]
           \/ domain[d].state = "Unregistered" /\ domain'[d].state = "Registered"
           \/ domain[d].state = "Registered" /\ domain'[d].state = "Admitted"
        /\ policy'[d] = policy[d] \/ domain'[d].state # "Unregistered"

\* No bootstrap call touches more than that.
LEMMA AdminFrame == TypeOK /\ AdminStep => AdminEffect
<1> SUFFICES ASSUME TypeOK, AdminStep PROVE AdminEffect
  OBVIOUS
<1> PICK a \in Accounts :
          \/ Initialize(a)
          \/ \E k \in VerifyingKeys, s \in Slots : SetKey(a, s, k)
          \/ RenounceAdmin(a)
          \/ \E d \in Domains :
                \/ \E v \in Versions, accepted \in SUBSET Versions : RegisterDomain(a, d, v, accepted)
                \/ AdmitDomain(a, d)
                \/ \E k \in PubKeys \cup OtherKeys, s \in Quorums, r \in Quorums :
                      SetBlsPolicy(a, d, [key |-> k, signers |-> s, required |-> r])
  BY AdminCases
<1>1. CASE Initialize(a)
  BY <1>1 DEF Initialize, AdminEffect
<1>2. ASSUME NEW k \in VerifyingKeys, NEW s \in Slots, SetKey(a, s, k) PROVE AdminEffect
  BY <1>2 DEF SetKey, AdminEffect
<1>3. CASE RenounceAdmin(a)
  BY <1>3 DEF RenounceAdmin, AdminEffect
<1>4. ASSUME NEW d \in Domains, NEW v \in Versions, NEW accepted \in SUBSET Versions,
             RegisterDomain(a, d, v, accepted)
      PROVE  AdminEffect
  <2>1. [NoDomain EXCEPT !.state = "Registered", !.versions = accepted].state = "Registered"
    BY DEF NoDomain
  <2> QED BY <1>4, <2>1 DEF RegisterDomain, AdminEffect, TypeOK
<1>5. ASSUME NEW d \in Domains, AdmitDomain(a, d) PROVE AdminEffect
  BY <1>5 DEF AdmitDomain, AdminEffect, TypeOK, DomainRecords
<1>6. ASSUME NEW d \in Domains, NEW k \in PubKeys \cup OtherKeys, NEW s \in Quorums,
             NEW r \in Quorums,
             SetBlsPolicy(a, d, [key |-> k, signers |-> s, required |-> r])
      PROVE  AdminEffect
  BY <1>6 DEF SetBlsPolicy, AdminEffect, TypeOK
<1> QED BY <1>1, <1>2, <1>3, <1>4, <1>5, <1>6

-----------------------------------------------------------------------------
(* Renouncing.  A renounced registry has the dead address as admin, which  *)
(* nobody signs for, so initialize and renounce_admin are closed as well.  *)

RenouncedHasNoAdmin == renounced => admin = DeadAdmin

\* The admin entry of a renounced registry is the dead address.
THEOREM RenouncedAdmin == Spec => []RenouncedHasNoAdmin
<1>1. Init => RenouncedHasNoAdmin
  BY DEF Init, RenouncedHasNoAdmin
<1>2. TypeOK /\ RenouncedHasNoAdmin /\ [Next]_registryVars => RenouncedHasNoAdmin'
  <2> SUFFICES ASSUME TypeOK, RenouncedHasNoAdmin, [Next]_registryVars PROVE RenouncedHasNoAdmin'
    OBVIOUS
  <2>1. CASE AdminStep
    <3>1. \/ UNCHANGED <<admin, renounced>>
          \/ renounced' = FALSE
          \/ admin' = DeadAdmin
      BY <2>1, AdminFrame DEF AdminEffect
    <3> QED BY <3>1, Zenon DEF RenouncedHasNoAdmin
  <2>2. CASE SubmitStep
    <3>1. UNCHANGED <<admin, renounced>>
      <4>1. ASSUME NEW e \in Evidences, SubmitBls(e) PROVE UNCHANGED <<admin, renounced>>
        BY <4>1 DEF SubmitBls, AnchorHeight
      <4>2. ASSUME NEW e \in Evidences, NEW proof \in Proofs, SubmitZk(e, proof)
            PROVE  UNCHANGED <<admin, renounced>>
        BY <4>2 DEF SubmitZk, ZkRecord
      <4>3. ASSUME NEW e \in Evidences, NEW proof \in Proofs, NEW l \in RecordingLanes,
                   Records(l, e, proof)
            PROVE  UNCHANGED <<admin, renounced>>
        BY <4>3 DEF Records, MovesOn
      <4> QED BY <2>2, <4>1, <4>2, <4>3, SubmitCases
    <3> QED BY <3>1, Zenon DEF RenouncedHasNoAdmin
  <2>3. CASE UNCHANGED registryVars
    BY <2>3 DEF registryVars, RenouncedHasNoAdmin
  <2> QED BY <2>1, <2>2, <2>3 DEF Next
<1> QED BY <1>1, <1>2, TypeCorrect, PTL DEF Spec

\* What a quorum's evidence writes: the anchor of its domain and the table at its height.
LEMMA BlsWrites ==
    ASSUME TypeOK, NEW e \in Evidences, SubmitBls(e)
    PROVE  /\ domain'[e.domain].lastHeight = e.height
           /\ domain'[e.domain].lastRoot = e.root
           /\ domain'[e.domain].lastEvent = e.payload.event
           /\ domain'[e.domain].security = <<"SignatureSet", policy[e.domain]>>
           /\ domain'[e.domain].state = "Active"
           /\ domain'[e.domain].versions = domain[e.domain].versions
           /\ finalized'[e.domain][e.height] = [root |-> e.root, event |-> e.payload.event]
           /\ \A d \in Domains \ {e.domain} : domain'[d] = domain[d] /\ finalized'[d] = finalized[d]
<1>1. e.domain \in Domains /\ e.height \in Heights
  BY RegistryConstants
<1>2. /\ domain \in [Domains -> DomainRecords]
      /\ finalized \in [Domains -> [Heights -> FinalizedRecords \cup {None}]]
  BY DEF TypeOK
<1>3. PICK old \in DomainRecords : old = domain[e.domain]
  BY <1>1, <1>2
<1> DEFINE new == [old EXCEPT !.lastHeight = e.height, !.lastRoot = e.root, !.lastEvent = e.payload.event,
                              !.security = <<"SignatureSet", policy[e.domain]>>, !.state = "Active"]
<1>4. domain' = [domain EXCEPT ![e.domain] = new]
  BY <1>1, <1>2, <1>3 DEF SubmitBls, AnchorHeight
<1>5. /\ new.lastHeight = e.height /\ new.lastRoot = e.root /\ new.lastEvent = e.payload.event
      /\ new.security = <<"SignatureSet", policy[e.domain]>> /\ new.state = "Active"
      /\ new.versions = old.versions
  BY <1>3 DEF DomainRecords
<1> HIDE DEF new
<1>6. domain'[e.domain] = new /\ \A d \in Domains \ {e.domain} : domain'[d] = domain[d]
  BY <1>1, <1>2, <1>4
<1>7. /\ finalized'[e.domain][e.height] = [root |-> e.root, event |-> e.payload.event]
      /\ \A d \in Domains \ {e.domain} : finalized'[d] = finalized[d]
  BY <1>1, <1>2 DEF SubmitBls
<1> QED BY <1>3, <1>5, <1>6, <1>7

\* After renounce_admin no key, policy, admission or version set ever changes.
THEOREM Frozen == Spec => FrozenAfterRenounce
<1> DEFINE Frz == renounced =>
        /\ UNCHANGED <<admin, renounced, vk, policy>>
        /\ \A d \in Domains :
              /\ domain'[d].versions = domain[d].versions
              /\ \/ domain'[d].state = domain[d].state
                 \/ domain[d].state = "Admitted" /\ domain'[d].state = "Active"
<1>1. TypeOK /\ RenouncedHasNoAdmin /\ [Next]_registryVars => [Frz]_registryVars
  <2> SUFFICES ASSUME TypeOK, RenouncedHasNoAdmin, Next, renounced PROVE Frz
    OBVIOUS
  <2>1. ~AdminStep
    BY RegistryConstants
    DEF AdminStep, Initialize, SetVk, SetStepChainVk, SetExecutionVk, SetGateVmVk, SetGateVm32Vk,
        SetKey, RenounceAdmin, RegisterDomain, AdmitDomain, SetBlsPolicy, IsAdmin,
        RenouncedHasNoAdmin
  <2>2. ASSUME NEW e \in Evidences, SubmitBls(e) PROVE Frz
    <3>1. /\ domain'[e.domain].versions = domain[e.domain].versions
          /\ domain'[e.domain].state = "Active"
          /\ \A d \in Domains \ {e.domain} : domain'[d] = domain[d]
      BY <2>2, BlsWrites
    <3>2. domain[e.domain].state \in {"Admitted", "Active"}
      BY <2>2 DEF SubmitBls, AnchorHeight, BlsAccepts, BlsReachesReplayCheck, DomainAccepts
    <3> QED BY <2>2, <3>1, <3>2 DEF SubmitBls, AnchorHeight
  <2>3. ASSUME NEW e \in Evidences, NEW proof \in Proofs, SubmitZk(e, proof) PROVE Frz
    <3>1. /\ domain'[e.domain].versions = domain[e.domain].versions
          /\ domain'[e.domain].state = "Active"
          /\ \A d \in Domains \ {e.domain} : domain'[d] = domain[d]
      BY <2>3, RegistryConstants DEF SubmitZk, ZkRecord, TypeOK, DomainRecords
    <3>2. domain[e.domain].state \in {"Admitted", "Active"}
      BY <2>3 DEF SubmitZk, ZkRecord, ZkAccepts, DomainAccepts
    <3> QED BY <2>3, <3>1, <3>2 DEF SubmitZk, ZkRecord
  <2>4. ASSUME NEW e \in Evidences, NEW proof \in Proofs, NEW l \in RecordingLanes,
               Records(l, e, proof)
        PROVE  Frz
    BY <2>4 DEF Records, MovesOn
  <2> QED BY <2>1, <2>2, <2>3, <2>4, SubmitCases DEF Next
<1> QED BY <1>1, TypeCorrect, RenouncedAdmin, PTL DEF Spec, FrozenAfterRenounce

-----------------------------------------------------------------------------
(* The settlement anchor.                                                  *)

\* The domain record and the per-height table always agree on the last anchor.
\* Inductive as it stands, on top of the types: a lane writes both at once,
\* and a domain that becomes active has just been written.
THEOREM AnchorsAgree == Spec => []AnchorAgrees
<1>1. Init => AnchorAgrees
  BY DEF Init, AnchorAgrees, NoDomain
<1>2. TypeOK /\ AnchorAgrees /\ [Next]_registryVars => AnchorAgrees'
  <2> SUFFICES ASSUME TypeOK, AnchorAgrees, [Next]_registryVars PROVE AnchorAgrees'
    OBVIOUS
  <2> USE DEF AnchorAgrees
  <2>1. CASE AdminStep
    <3>1. /\ finalized' = finalized
          /\ \A d \in Domains : \/ domain'[d] = domain[d]
                                \/ domain'[d].state # "Active"
      BY <2>1, AdminFrame DEF AdminEffect
    <3> QED BY <3>1
  <2>2. ASSUME NEW e \in Evidences, SubmitBls(e) PROVE AnchorAgrees'
    <3>1. e.domain \in Domains /\ e.height \in Heights
      BY RegistryConstants
    <3>2. /\ finalized'[e.domain][e.height] = [root |-> e.root, event |-> e.payload.event]
          /\ domain'[e.domain].lastHeight = e.height
          /\ domain'[e.domain].lastRoot = e.root
          /\ domain'[e.domain].lastEvent = e.payload.event
          /\ domain'[e.domain].security = <<"SignatureSet", policy[e.domain]>>
      BY <2>2, BlsWrites
    <3>3. domain'[e.domain].security # <<"ZkProof">>
      BY <3>2
    <3>4. \A d \in Domains \ {e.domain} : domain'[d] = domain[d] /\ finalized'[d] = finalized[d]
      BY <2>2, <3>1 DEF SubmitBls, AnchorHeight, TypeOK
    <3>5. e.payload.event \in Roots /\ e.root \in Roots
      BY <2>2, RegistryConstants DEF SubmitBls, AnchorHeight, BlsAccepts, Rederived
    <3>6. finalized'[e.domain][e.height] # None
      BY <3>2, <3>5, NoneIsNoRecord DEF FinalizedRecords
    <3> QED BY <3>1, <3>2, <3>3, <3>4, <3>6
  <2>3. ASSUME NEW e \in Evidences, NEW proof \in Proofs, SubmitZk(e, proof) PROVE AnchorAgrees'
    <3>1. e.domain \in Domains /\ e.height \in Heights
      BY RegistryConstants
    <3>2. /\ finalized'[e.domain][e.height] = [root |-> e.root, event |-> ZeroRoot]
          /\ domain'[e.domain].lastHeight = e.height
          /\ domain'[e.domain].lastRoot = e.root
          /\ domain'[e.domain].security = <<"ZkProof">>
      BY <2>3, <3>1 DEF SubmitZk, ZkRecord, TypeOK, DomainRecords
    <3>3. \A d \in Domains \ {e.domain} : domain'[d] = domain[d] /\ finalized'[d] = finalized[d]
      BY <2>3, <3>1 DEF SubmitZk, ZkRecord, TypeOK
    <3> QED BY <3>1, <3>2, <3>3, NoneIsNoRecord, RegistryConstants DEF FinalizedRecords
  <2>4. ASSUME NEW e \in Evidences, NEW proof \in Proofs, NEW l \in RecordingLanes,
               Records(l, e, proof)
        PROVE  AnchorAgrees'
    BY <2>4 DEF Records, MovesOn
  <2>5. CASE UNCHANGED registryVars
    BY <2>5 DEF registryVars
  <2> QED BY <2>1, <2>2, <2>3, <2>4, <2>5, SubmitCases DEF Next
<1> QED BY <1>1, <1>2, TypeCorrect, PTL DEF Spec

\* Every nonzero event root in the table is signed, at its height, by a
\* registered key.  A new anchor brings its own evidence along, and evidence is
\* never removed.
THEOREM EventRootsAreSigned == Spec => []EventRootsSigned
<1>1. Init => EventRootsSigned
  BY DEF Init, EventRootsSigned
<1>2. TypeOK /\ EventRootsSigned /\ [Next]_registryVars => EventRootsSigned'
  <2> SUFFICES ASSUME TypeOK, EventRootsSigned, [Next]_registryVars PROVE EventRootsSigned'
    OBVIOUS
  <2> USE DEF EventRootsSigned
  <2>1. CASE AdminStep
    BY <2>1, AdminFrame DEF AdminEffect
  <2>2. ASSUME NEW e \in Evidences, SubmitBls(e) PROVE EventRootsSigned'
    <3>1. e.domain \in Domains /\ e.height \in Heights
      BY RegistryConstants
    <3>2. /\ e.payload.kind = "bls368" /\ e.payload.sig.key \in PubKeys
          /\ e.payload.sig.msg = [height |-> e.height, root |-> e.root, event |-> e.payload.event]
      <4>1. policy[e.domain] \in Policies
        BY <2>2, <3>1 DEF SubmitBls, AnchorHeight, BlsAccepts, BlsReachesReplayCheck, TypeOK
      <4> QED BY <2>2, <4>1 DEF SubmitBls, AnchorHeight, BlsAccepts, Rederived, SignedMessage, Policies
    <3>3. /\ finalized'[e.domain][e.height] = [root |-> e.root, event |-> e.payload.event]
          /\ \A d \in Domains, h \in Heights :
                <<d, h>> # <<e.domain, e.height>> => finalized'[d][h] = finalized[d][h]
      BY <2>2, <3>1 DEF SubmitBls, AnchorHeight, TypeOK
    <3>4. evidence' = evidence \cup {e}
      BY <2>2 DEF SubmitBls, AnchorHeight
    <3> QED BY <3>1, <3>2, <3>3, <3>4
  <2>3. ASSUME NEW e \in Evidences, NEW proof \in Proofs, SubmitZk(e, proof) PROVE EventRootsSigned'
    <3>1. e.domain \in Domains /\ e.height \in Heights
      BY RegistryConstants
    <3>2. /\ finalized'[e.domain][e.height] = [root |-> e.root, event |-> ZeroRoot]
          /\ \A d \in Domains, h \in Heights :
                <<d, h>> # <<e.domain, e.height>> => finalized'[d][h] = finalized[d][h]
      BY <2>3, <3>1 DEF SubmitZk, ZkRecord, TypeOK
    <3>3. evidence' = evidence \cup {e}
      BY <2>3 DEF SubmitZk, ZkRecord
    <3> QED BY <3>1, <3>2, <3>3
  <2>4. ASSUME NEW e \in Evidences, NEW proof \in Proofs, NEW l \in RecordingLanes,
               Records(l, e, proof)
        PROVE  EventRootsSigned'
    BY <2>4 DEF Records, MovesOn
  <2>5. CASE UNCHANGED registryVars
    BY <2>5 DEF registryVars
  <2> QED BY <2>1, <2>2, <2>3, <2>4, <2>5, SubmitCases DEF Next
<1> QED BY <1>1, <1>2, TypeCorrect, PTL DEF Spec

\* Nothing is recorded for a domain before its admission.
THEOREM AdmissionGates == Spec => []UnadmittedIsSilent
<1>1. Init => UnadmittedIsSilent
  BY DEF Init, UnadmittedIsSilent
<1>2. TypeOK /\ UnadmittedIsSilent /\ [Next]_registryVars => UnadmittedIsSilent'
  <2> SUFFICES ASSUME TypeOK, UnadmittedIsSilent, [Next]_registryVars PROVE UnadmittedIsSilent'
    OBVIOUS
  <2> USE DEF UnadmittedIsSilent
  <2>1. CASE AdminStep
    BY <2>1, AdminFrame DEF AdminEffect
  <2>2. ASSUME NEW e \in Evidences, SubmitBls(e) PROVE UnadmittedIsSilent'
    <3>1. /\ e.domain \in Domains /\ domain'[e.domain].state = "Active"
          /\ \A d \in Domains \ {e.domain} : domain'[d] = domain[d] /\ finalized'[d] = finalized[d]
          /\ evidence' = evidence \cup {e} /\ UNCHANGED <<policy, trail>>
      <4>1. evidence' = evidence \cup {e} /\ UNCHANGED <<policy, trail>>
        BY <2>2 DEF SubmitBls
      <4>2. e.domain \in Domains
        BY RegistryConstants
      <4> QED BY <2>2, <4>1, <4>2, BlsWrites
    <3> QED BY <3>1
  <2>3. ASSUME NEW e \in Evidences, NEW proof \in Proofs, SubmitZk(e, proof)
        PROVE  UnadmittedIsSilent'
    <3>1. /\ e.domain \in Domains /\ domain'[e.domain].state = "Active"
          /\ \A d \in Domains \ {e.domain} : domain'[d] = domain[d] /\ finalized'[d] = finalized[d]
          /\ evidence' = evidence \cup {e} /\ UNCHANGED <<policy, trail>>
      BY <2>3, RegistryConstants DEF SubmitZk, ZkRecord, TypeOK, DomainRecords
    <3> QED BY <3>1
  <2>4. ASSUME NEW e \in Evidences, NEW proof \in Proofs, NEW l \in RecordingLanes,
               Records(l, e, proof)
        PROVE  UnadmittedIsSilent'
    <3>1. /\ e.domain \in Domains /\ domain[e.domain].state \in {"Admitted", "Active"}
          /\ \A d \in Domains \ {e.domain} : trail'[d] = trail[d]
          /\ evidence' = evidence \cup {e} /\ UNCHANGED <<domain, policy, finalized>>
      BY <2>4, RegistryConstants DEF Records, MovesOn, DomainAccepts, TypeOK
    <3> QED BY <3>1
  <2>5. CASE UNCHANGED registryVars
    BY <2>5 DEF registryVars
  <2> QED BY <2>1, <2>2, <2>3, <2>4, <2>5, SubmitCases DEF Next
<1> QED BY <1>1, <1>2, TypeCorrect, PTL DEF Spec

-----------------------------------------------------------------------------
(* The recording lanes.                                                    *)

\* What one recording does to the trails, seen from any lane.
LEMMA RecordsEffect ==
  ASSUME TypeOK, NEW e \in Evidences, NEW proof \in Proofs, NEW l \in RecordingLanes,
         Records(l, e, proof)
  PROVE  /\ e.domain \in Domains /\ e.height \in Nat /\ e.payload.kind = PayloadOf[l]
         /\ evidence' = evidence \cup {e}
         /\ trail'[e.domain][l] = TrailRecord(e) /\ trail'[e.domain][l] # None
         /\ trail[e.domain][l] # None => e.height > trail[e.domain][l].height
         /\ \A d \in Domains, k \in RecordingLanes :
               <<d, k>> # <<e.domain, l>> => trail'[d][k] = trail[d][k]
<1>1. e.domain \in Domains /\ e.height \in Nat /\ e.payload.kind = PayloadOf[l]
  BY RegistryConstants DEF Records, MovesOn, Rederived
<1>2. TrailRecord(e) \in TrailRecords
  BY <1>1 DEF TrailRecords, PayloadOf, SettlementPayloads, RecordingLanes
<1>3. trail'[e.domain][l] = TrailRecord(e)
  BY <1>1 DEF Records, MovesOn, TypeOK
<1>4. \A d \in Domains, k \in RecordingLanes :
         <<d, k>> # <<e.domain, l>> => trail'[d][k] = trail[d][k]
  BY <1>1 DEF Records, MovesOn, TypeOK
<1>5. TrailRecord(e) # None
  BY <1>2, NoneIsNoRecord
<1> QED BY <1>1, <1>3, <1>4, <1>5 DEF Records, MovesOn

\* A record carries the height of its evidence.
LEMMA RecordHeight == \A e \in Evidences : TrailRecord(e).height = e.height
  BY DEF TrailRecord

\* The heights in the trails are naturals.
LEMMA TrailHeights ==
  ASSUME TypeOK, NEW d \in Domains, NEW l \in RecordingLanes, trail[d][l] # None
  PROVE  trail[d][l].height \in Nat
<1>1. trail[d][l] \in TrailRecords
  BY DEF TypeOK
<1>2. PICK e \in Evidences : trail[d][l] = TrailRecord(e)
  BY <1>1 DEF TrailRecords
<1> QED BY <1>2, RecordHeight, RegistryConstants

\* The trail of a lane only moves forward.
THEOREM TrailsMoveForward == Spec => TrailMovesForward
<1> DEFINE Fwd == \A d \in Domains, l \in RecordingLanes :
        trail[d][l] # None /\ trail'[d][l] # trail[d][l] =>
            trail'[d][l] # None /\ trail'[d][l].height > trail[d][l].height
<1>1. TypeOK /\ [Next]_registryVars => [Fwd]_registryVars
  <2> SUFFICES ASSUME TypeOK, Next PROVE Fwd
    OBVIOUS
  <2>1. CASE AdminStep
    BY <2>1, AdminFrame DEF AdminEffect
  <2>2. ASSUME NEW e \in Evidences, SubmitBls(e) PROVE Fwd
    BY <2>2 DEF SubmitBls, AnchorHeight
  <2>3. ASSUME NEW e \in Evidences, NEW proof \in Proofs, SubmitZk(e, proof) PROVE Fwd
    BY <2>3 DEF SubmitZk, ZkRecord
  <2>4. ASSUME NEW e \in Evidences, NEW proof \in Proofs, NEW l \in RecordingLanes,
               Records(l, e, proof)
        PROVE  Fwd
    BY <2>4, RecordsEffect, RecordHeight
  <2> QED BY <2>1, <2>2, <2>3, <2>4, SubmitCases DEF Next
<1> QED BY <1>1, TypeCorrect, PTL DEF Spec, TrailMovesForward

\* Everything a recording lane accepted stays covered by a record of its layout.
THEOREM TrailsCoverAccepted == Spec => []TrailCoversAccepted
<1>1. Init => TrailCoversAccepted
  BY DEF Init, TrailCoversAccepted
<1>2. TypeOK /\ TrailCoversAccepted /\ [Next]_registryVars => TrailCoversAccepted'
  <2> SUFFICES ASSUME TypeOK, TrailCoversAccepted, [Next]_registryVars
               PROVE  TrailCoversAccepted'
    OBVIOUS
  <2> USE DEF TrailCoversAccepted
  <2>1. CASE AdminStep
    BY <2>1, AdminFrame DEF AdminEffect
  <2>2. ASSUME NEW e \in Evidences, SubmitBls(e) PROVE TrailCoversAccepted'
    BY <2>2 DEF SubmitBls, AnchorHeight, BlsAccepts, Rederived, SettlementPayloads
  <2>3. ASSUME NEW e \in Evidences, NEW proof \in Proofs, SubmitZk(e, proof)
        PROVE  TrailCoversAccepted'
    BY <2>3 DEF SubmitZk, ZkRecord, ZkAccepts, Rederived, SettlementPayloads
  <2>4. ASSUME NEW e \in Evidences, NEW proof \in Proofs, NEW l \in RecordingLanes,
               Records(l, e, proof)
        PROVE  TrailCoversAccepted'
    <3> SUFFICES ASSUME NEW x \in evidence', x.payload.kind \notin SettlementPayloads
                 PROVE  \E k \in RecordingLanes : /\ PayloadOf[k] = x.payload.kind
                                                  /\ trail'[x.domain][k] # None
                                                  /\ x.height <= trail'[x.domain][k].height
      OBVIOUS
    <3>1. CASE x = e
      BY <2>4, <3>1, RecordsEffect, RecordHeight
    <3>2. CASE x \in evidence
      <4>1. PICK k \in RecordingLanes : /\ PayloadOf[k] = x.payload.kind
                                        /\ trail[x.domain][k] # None
                                        /\ x.height <= trail[x.domain][k].height
        BY <3>2
      <4>2. x.domain \in Domains /\ x.height \in Nat
        BY <3>2, RegistryConstants DEF TypeOK
      <4>3. trail[x.domain][k].height \in Nat
        BY <4>1, <4>2, TrailHeights
      <4>4. CASE <<x.domain, k>> = <<e.domain, l>>
        BY <2>4, <4>1, <4>2, <4>3, <4>4, RecordsEffect, RecordHeight
      <4>5. CASE <<x.domain, k>> # <<e.domain, l>>
        BY <2>4, <4>1, <4>2, <4>5, RecordsEffect
      <4> QED BY <4>4, <4>5
    <3> QED BY <2>4, <3>1, <3>2, RecordsEffect
  <2>5. CASE UNCHANGED registryVars
    BY <2>5 DEF registryVars
  <2> QED BY <2>1, <2>2, <2>3, <2>4, <2>5, SubmitCases DEF Next
<1> QED BY <1>1, <1>2, TypeCorrect, PTL DEF Spec

\* One digest, one effect: a settlement call writes the table at the height of
\* its fresh evidence and nowhere else, a recording call writes one lane of one
\* domain for a fresh evidence of its layout and leaves the settlement alone.
THEOREM OneDigestOneEffect == Spec => OneEvidenceOneEffect
<1> DEFINE fresh == evidence' \ evidence
           Settled == \A d \in Domains, h \in Heights : finalized'[d][h] # finalized[d][h] =>
              \E e \in fresh : /\ e.domain = d /\ e.height = h
                               /\ e.payload.kind \in SettlementPayloads
           Recorded == \A d \in Domains, l \in RecordingLanes : trail'[d][l] # trail[d][l] =>
              /\ UNCHANGED <<finalized, domain>>
              /\ \E e \in fresh : e.domain = d /\ e.payload.kind = PayloadOf[l]
              /\ \A d2 \in Domains, l2 \in RecordingLanes :
                    <<d2, l2>> # <<d, l>> => trail'[d2][l2] = trail[d2][l2]
<1>1. TypeOK /\ [Next]_registryVars => [Settled /\ Recorded]_registryVars
  <2> SUFFICES ASSUME TypeOK, Next PROVE Settled /\ Recorded
    OBVIOUS
  <2>1. CASE AdminStep
    BY <2>1, AdminFrame DEF AdminEffect
  <2>2. ASSUME NEW e \in Evidences, SubmitBls(e) PROVE Settled /\ Recorded
    <3>1. e \in fresh /\ e.payload.kind \in SettlementPayloads /\ e.domain \in Domains
      BY <2>2, RegistryConstants
      DEF SubmitBls, BlsAccepts, Rederived, SettlementPayloads
    <3>2. \A d \in Domains, h \in Heights :
             <<d, h>> # <<e.domain, e.height>> => finalized'[d][h] = finalized[d][h]
      BY <2>2, <3>1 DEF SubmitBls, TypeOK
    <3> QED BY <2>2, <3>1, <3>2 DEF SubmitBls
  <2>3. ASSUME NEW e \in Evidences, NEW proof \in Proofs, SubmitZk(e, proof)
        PROVE  Settled /\ Recorded
    <3>1. e \in fresh /\ e.payload.kind \in SettlementPayloads /\ e.domain \in Domains
      BY <2>3, RegistryConstants DEF SubmitZk, ZkAccepts, Rederived, SettlementPayloads
    <3>2. \A d \in Domains, h \in Heights :
             <<d, h>> # <<e.domain, e.height>> => finalized'[d][h] = finalized[d][h]
      BY <2>3, <3>1 DEF SubmitZk, TypeOK
    <3> QED BY <2>3, <3>1, <3>2 DEF SubmitZk
  <2>4. ASSUME NEW e \in Evidences, NEW proof \in Proofs, NEW l \in RecordingLanes,
               Records(l, e, proof)
        PROVE  Settled /\ Recorded
    <3>1. e \in fresh /\ UNCHANGED <<finalized, domain>>
      BY <2>4 DEF Records, Fresh
    <3> QED BY <2>4, <3>1, RecordsEffect
  <2> QED BY <2>1, <2>2, <2>3, <2>4, SubmitCases DEF Next
<1> QED BY <1>1, TypeCorrect, PTL DEF Spec, OneEvidenceOneEffect
=============================================================================

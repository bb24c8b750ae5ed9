--------------------------- MODULE FinalityRegistry ---------------------------
(***************************************************************************)
(* The on-chain registry of contracts/finality_registry: who may configure *)
(* it, which domains it knows, and the six lanes through which anybody may *)
(* submit evidence.  Two lanes (BLS and Groth16) move the settlement       *)
(* anchor of a domain; four lanes only record a proof in a slot of their   *)
(* own.  A Soroban call is atomic and a failing call leaves no trace, so   *)
(* every action below is one successful call.                              *)
(***************************************************************************)
EXTENDS Integers

CONSTANTS
    Accounts,      \* addresses somebody can sign for
    DeadAdmin,     \* the all-zero address renounce_admin installs
    Unset,         \* the admin entry before initialize
    Domains,       \* values of sha256(adapter_id || network)
    Versions,      \* evidence versions
    Heights,       \* source heights an evidence may declare
    Roots,         \* 32-byte roots
    ZeroRoot,      \* 32 zero bytes
    PubKeys,       \* aggregate G2 keys on the curve and in the subgroup
    OtherKeys,     \* byte strings that are not such a point
    VerifyingKeys, \* Groth16 verifying keys: [circuit, bytes]
    None,          \* an absent storage entry
    Evidences,     \* evidence anybody may submit: the digest of an evidence
                   \* is the evidence itself (collision-free sha256), and it
                   \* does not cover the submitter
    Proofs,        \* Groth16 proofs, each named by the statement it proves
    Quorums        \* values of signer_count and required

ASSUME RegistryConstants ==
    /\ DeadAdmin \notin Accounts
    /\ Unset \notin Accounts
    /\ Unset # DeadAdmin
    /\ Heights \subseteq Nat
    /\ Quorums \subseteq Nat
    /\ ZeroRoot \in Roots
    /\ \A k \in VerifyingKeys : k.bytes > 0
    /\ PubKeys \cap OtherKeys = {}
    /\ \A e \in Evidences : /\ e.domain \in Domains
                            /\ e.height \in Heights
                            /\ e.root \in Roots
                            /\ e.payload.kind = "bls368" => e.payload.event \in Roots

VARIABLES
    admin,      \* DataKey::Admin
    renounced,  \* DataKey::AdminRenounced
    vk,         \* the five verifying-key slots
    domain,     \* DataKey::Domain
    policy,     \* DataKey::BlsPolicy
    finalized,  \* DataKey::FinalizedFull, (domain, height) -> roots
    evidence,   \* DataKey::Evidence, the digests already used
    trail       \* the four recording lanes' last record of each domain

registryVars == <<admin, renounced, vk, domain, policy, finalized, evidence, trail>>

-----------------------------------------------------------------------------

RecordingLanes == {"step_chain", "execution", "gate_vm", "gate_vm32"}
Slots == {"settle"} \cup RecordingLanes

\* What an unset slot reads as.
NoKey == [circuit |-> "none", bytes |-> 0]

\* The length of a payload tells the lanes' layouts apart; the two gate-vm
\* lanes share one layout.
PayloadOf == [step_chain |-> "step112", execution |-> "exec232",
              gate_vm |-> "gate144", gate_vm32 |-> "gate144"]

SettlementPayloads == {"bls368", "zk40"}

\* The tag the circuit publishes: one per circuit, shared by the two
\* compilations of the gate-vm.
TagOf == [step_chain |-> "step", execution |-> "exec",
          gate_vm |-> "gate", gate_vm32 |-> "gate"]

SlotBytes == [settle |-> 768, step_chain |-> 896, execution |-> 1920,
              gate_vm |-> 896, gate_vm32 |-> 896]

StepChainMaxSteps == 4
StepChainQuorum == 2
ExecutionProgramWords == 16
ExecutionMaxSteps == 20
ExecutionMaxGas == 3 * ExecutionMaxSteps
GateVmMaxHashSteps == 7
GateVm32MaxHashSteps == 31

DomainStates == {"Unregistered", "Registered", "Admitted", "Active"}

Policies == [key : PubKeys, signers : Quorums, required : Quorums]
SecurityBacking == {<<"None">>, <<"ZkProof">>}
                     \cup {<<"SignatureSet", p>> : p \in Policies}

DomainRecords == [state : DomainStates, versions : SUBSET Versions,
                  lastHeight : Heights \cup {0}, lastRoot : Roots,
                  lastEvent : Roots, security : SecurityBacking]
FinalizedRecords == [root : Roots, event : Roots]

\* What a recording lane stores for an evidence.
TrailRecord(e) == [height |-> e.height, root |-> e.root, claim |-> e.payload.claim,
                   settlement_anchored |-> FALSE]

TrailRecords == {TrailRecord(e) : e \in {x \in Evidences : x.payload.kind \notin SettlementPayloads}}

ASSUME NoneIsNoRecord == None \notin FinalizedRecords \cup TrailRecords

NoDomain == [state |-> "Unregistered", versions |-> {}, lastHeight |-> 0,
             lastRoot |-> ZeroRoot, lastEvent |-> ZeroRoot, security |-> <<"None">>]

-----------------------------------------------------------------------------
(* Bootstrap.  Every admin call needs the stored admin's own signature and *)
(* is refused for good once the admin is renounced.                        *)

Init ==
    /\ admin = Unset
    /\ renounced = FALSE
    /\ vk = [s \in Slots |-> NoKey]
    /\ domain = [d \in Domains |-> NoDomain]
    /\ policy = [d \in Domains |-> None]
    /\ finalized = [d \in Domains |-> [h \in Heights |-> None]]
    /\ evidence = {}
    /\ trail = [d \in Domains |-> [l \in RecordingLanes |-> None]]

Initialize(a) ==
    /\ admin = Unset
    /\ admin' = a
    /\ renounced' = FALSE
    /\ vk' = [vk EXCEPT !["settle"] = NoKey]
    /\ UNCHANGED <<domain, policy, finalized, evidence, trail>>

\* Mutant: a setter asks for a signature only.
IsAnybody(a) == TRUE
IsAdmin(a) == ~renounced /\ admin = a

SetKey(a, slot, k) ==
    /\ IsAdmin(a)
    /\ k.bytes = SlotBytes[slot]
    /\ vk' = [vk EXCEPT ![slot] = k]
    /\ UNCHANGED <<admin, renounced, domain, policy, finalized, evidence, trail>>

SetVk(a, k) == SetKey(a, "settle", k)
SetStepChainVk(a, k) == SetKey(a, "step_chain", k)
SetExecutionVk(a, k) == SetKey(a, "execution", k)
SetGateVmVk(a, k) == SetKey(a, "gate_vm", k)
SetGateVm32Vk(a, k) == SetKey(a, "gate_vm32", k)

RenounceAdmin(a) ==
    /\ admin = a
    /\ renounced' = TRUE
    /\ admin' = DeadAdmin
    /\ UNCHANGED <<vk, domain, policy, finalized, evidence, trail>>

RegisterDomain(a, d, version, accepted) ==
    /\ IsAdmin(a)
    /\ version \in accepted
    /\ domain[d].state = "Unregistered"
    /\ domain' = [domain EXCEPT ![d] = [NoDomain EXCEPT !.state = "Registered",
                                                        !.versions = accepted]]
    /\ UNCHANGED <<admin, renounced, vk, policy, finalized, evidence, trail>>

\* Admitting a domain that is not merely registered succeeds and changes
\* nothing; admitting an unknown one fails.
AdmitDomain(a, d) ==
    /\ IsAdmin(a)
    /\ domain[d].state = "Registered"
    /\ domain' = [domain EXCEPT ![d].state = "Admitted"]
    /\ UNCHANGED <<admin, renounced, vk, policy, finalized, evidence, trail>>

SetBlsPolicy(a, d, p) ==
    /\ IsAdmin(a)
    /\ p.signers # 0 /\ p.required # 0 /\ p.required <= p.signers
    /\ p.key \in PubKeys
    /\ domain[d].state # "Unregistered"
    /\ policy' = [policy EXCEPT ![d] = p]
    /\ UNCHANGED <<admin, renounced, vk, domain, finalized, evidence, trail>>

-----------------------------------------------------------------------------
(* The settlement lanes.                                                   *)

\* Mutant: registered is good enough.
DomainAcceptsRegistered(e) ==
    /\ domain[e.domain].state # "Unregistered"
    /\ e.version \in domain[e.domain].versions

\* The checks every lane makes before it looks for the digest.
DomainAccepts(e) ==
    /\ domain[e.domain].state \in {"Admitted", "Active"}
    /\ e.version \in domain[e.domain].versions

\* The payload's own height and root, parsed again, against the declared ones.
Rederived(e, kind) ==
    /\ e.payload.kind = kind
    /\ e.payload.height = e.height
    /\ e.payload.root = e.root

\* Mutant: the event root is not signed.
SignedWithoutEvents(pl) == [height |-> pl.height, root |-> pl.root, event |-> pl.sig.msg.event]

\* What the aggregate signature is made over.
SignedMessage(pl) == [height |-> pl.height, root |-> pl.root, event |-> pl.event]

BlsReachesReplayCheck(e) == policy[e.domain] # None /\ DomainAccepts(e)

\* The call fails with EvidenceAlreadyProcessed, the one error the relayer
\* takes for success.
BlsAlreadyProcessed(e) == BlsReachesReplayCheck(e) /\ e \in evidence

\* Mutant: the signature is not verified.
BlsAcceptsUnsigned(e) ==
    /\ BlsReachesReplayCheck(e)
    /\ e \notin evidence
    /\ Rederived(e, "bls368")
    /\ e.payload.key = policy[e.domain].key

BlsAccepts(e) ==
    /\ BlsReachesReplayCheck(e)
    /\ e \notin evidence
    /\ Rederived(e, "bls368")
    /\ e.payload.signers = policy[e.domain].signers
    /\ e.payload.required = policy[e.domain].required
    /\ e.payload.key = policy[e.domain].key
    /\ e.payload.sig = [key |-> e.payload.key, msg |-> SignedMessage(e.payload)]

\* Mutant: the height of the anchor keeps its maximum, its roots do not.
HeightKeptHighest(e) ==
    IF e.height < domain[e.domain].lastHeight THEN domain[e.domain].lastHeight ELSE e.height
AnchorHeight(e) == e.height

\* No comparison with the last height: the anchor follows the last evidence.
SubmitBls(e) ==
    /\ BlsAccepts(e)
    /\ domain' = [domain EXCEPT ![e.domain].lastHeight = AnchorHeight(e),
                                ![e.domain].lastRoot = e.root,
                                ![e.domain].lastEvent = e.payload.event,
                                ![e.domain].security = <<"SignatureSet", policy[e.domain]>>,
                                ![e.domain].state = "Active"]
    /\ finalized' = [finalized EXCEPT ![e.domain][e.height] =
                        [root |-> e.root, event |-> e.payload.event]]
    /\ evidence' = evidence \cup {e}
    /\ UNCHANGED <<admin, renounced, vk, policy, trail>>

\* groth16::verify: the proof's statement under the key in the slot.
Verifies(proof, slot) == proof.vk = vk[slot]

\* Of the four public inputs only the last, the state root, is bound.
ZkAccepts(e, proof) ==
    /\ DomainAccepts(e)
    /\ e \notin evidence
    /\ Rederived(e, "zk40")
    /\ vk["settle"] # NoKey
    /\ proof.root = e.root
    /\ Verifies(proof, "settle")

ZkRecord(e) == [root |-> e.root, event |-> ZeroRoot]

\* The event root of the height becomes zero, the domain's own copy stays.
SubmitZk(e, proof) ==
    /\ ZkAccepts(e, proof)
    /\ domain' = [domain EXCEPT ![e.domain].lastHeight = e.height,
                                ![e.domain].lastRoot = e.root,
                                ![e.domain].security = <<"ZkProof">>,
                                ![e.domain].state = "Active"]
    /\ finalized' = [finalized EXCEPT ![e.domain][e.height] = ZkRecord(e)]
    /\ evidence' = evidence \cup {e}
    /\ UNCHANGED <<admin, renounced, vk, policy, trail>>

-----------------------------------------------------------------------------
(* The recording lanes.  A payload is its height, its end root and a claim *)
(* (the other public inputs); the height is not part of the statement.     *)

\* Mutant: the height is not compared.
MovesAnywhere(lane, e) == TRUE
MovesOn(lane, e) == trail[e.domain][lane] # None => e.height > trail[e.domain][lane].height

\* Mutant: digests are kept per lane only.
FreshEnough(lane, e) == e \notin evidence \/ e.payload.kind \notin SettlementPayloads
Fresh(lane, e) == e \notin evidence

\* What the four entry points share, in the order they check it.
Records(lane, e, proof) ==
    /\ DomainAccepts(e)
    /\ Fresh(lane, e)
    /\ Rederived(e, PayloadOf[lane])
    /\ e.height # 0
    /\ vk[lane].bytes = SlotBytes[lane]
    /\ proof.root = e.root
    /\ proof.claim = e.payload.claim
    /\ proof.tag = TagOf[lane]
    /\ MovesOn(lane, e)
    /\ Verifies(proof, lane)
    /\ trail' = [trail EXCEPT ![e.domain][lane] = TrailRecord(e)]
    /\ evidence' = evidence \cup {e}
    /\ UNCHANGED <<admin, renounced, vk, domain, policy, finalized>>

StepChainInRange(e) ==
    /\ e.payload.claim.length \in 1..StepChainMaxSteps
    /\ e.payload.claim.start # e.root

SubmitStepChain(e, proof) ==
    /\ Records("step_chain", e, proof)
    /\ StepChainInRange(e)
    /\ proof.threshold = StepChainQuorum

\* Slots past the code are zero and every word decodes: "padded".
ExecutionInRange(c) ==
    /\ c.pc < ExecutionProgramWords
    /\ c.steps \in 1..ExecutionMaxSteps
    /\ c.gas <= ExecutionMaxGas
    /\ c.words \in 1..ExecutionProgramWords
    /\ c.padded

SubmitExecution(e, proof) ==
    /\ Records("execution", e, proof)
    /\ ExecutionInRange(e.payload.claim)

SubmitGateVm(e, proof) ==
    /\ Records("gate_vm", e, proof)
    /\ e.payload.claim.hashSteps <= GateVmMaxHashSteps

SubmitGateVm32(e, proof) ==
    /\ Records("gate_vm32", e, proof)
    /\ e.payload.claim.hashSteps <= GateVm32MaxHashSteps

-----------------------------------------------------------------------------

\* get_finalized_full, the read the gateway makes.
GetFinalizedFull(d, h) == IF h \in Heights THEN finalized[d][h] ELSE None

\* is_machine_approved.
MachineApproved(d) ==
    /\ domain[d].state = "Active"
    /\ domain[d].lastHeight > 0
    /\ domain[d].security = <<"ZkProof">>

AdminStep ==
    \E a \in Accounts :
        \/ Initialize(a)
        \/ \E k \in VerifyingKeys : \/ SetVk(a, k)
                                    \/ SetStepChainVk(a, k)
                                    \/ SetExecutionVk(a, k)
                                    \/ SetGateVmVk(a, k)
                                    \/ SetGateVm32Vk(a, k)
        \/ RenounceAdmin(a)
        \/ \E d \in Domains :
              \/ \E v \in Versions, accepted \in SUBSET Versions : RegisterDomain(a, d, v, accepted)
              \/ AdmitDomain(a, d)
              \/ \E k \in PubKeys \cup OtherKeys, s \in Quorums, r \in Quorums :
                    SetBlsPolicy(a, d, [key |-> k, signers |-> s, required |-> r])

SubmitStep ==
    \E e \in Evidences :
        \/ SubmitBls(e)
        \/ \E proof \in Proofs : \/ SubmitZk(e, proof)
                                 \/ SubmitStepChain(e, proof)
                                 \/ SubmitExecution(e, proof)
                                 \/ SubmitGateVm(e, proof)
                                 \/ SubmitGateVm32(e, proof)

Next == AdminStep \/ SubmitStep

Spec == Init /\ [][Next]_registryVars

-----------------------------------------------------------------------------
(* Correctness.                                                            *)

\* Every entry of the contract's storage has the shape its type declares.
TypeOK ==
    /\ admin \in Accounts \cup {DeadAdmin, Unset}
    /\ renounced \in BOOLEAN
    /\ vk \in [Slots -> VerifyingKeys \cup {NoKey}]
    /\ domain \in [Domains -> DomainRecords]
    /\ policy \in [Domains -> Policies \cup {None}]
    /\ finalized \in [Domains -> [Heights -> FinalizedRecords \cup {None}]]
    /\ evidence \subseteq Evidences
    /\ trail \in [Domains -> [RecordingLanes -> TrailRecords \cup {None}]]

\* The domain record and the per-height table are written by two stores of one
\* call: the last root a reader gets from get_domain is the root the gateway
\* reads at the last height, and the event root agrees unless the last
\* evidence came from the Groth16 lane, which publishes none.
AnchorAgrees ==
    \A d \in Domains : domain[d].state = "Active" =>
        LET f == finalized[d][domain[d].lastHeight]
        IN  /\ f # None
            /\ f.root = domain[d].lastRoot
            /\ IF domain[d].security = <<"ZkProof">> THEN f.event = ZeroRoot
                                                     ELSE f.event = domain[d].lastEvent

\* An event root the gateway mints under is covered by a valid signature of a
\* registered key over exactly this height, state root and event root.
EventRootsSigned ==
    \A d \in Domains, h \in Heights :
        finalized[d][h] # None /\ finalized[d][h].event # ZeroRoot =>
            \E e \in evidence :
                /\ e.domain = d
                /\ e.payload.kind = "bls368"
                /\ e.payload.sig.key \in PubKeys
                /\ e.payload.sig.msg = [height |-> h, root |-> finalized[d][h].root,
                                        event |-> finalized[d][h].event]

\* A domain that is not admitted leaves no trace in any lane, and one that is
\* not registered has no policy.
UnadmittedIsSilent ==
    \A d \in Domains :
        /\ domain[d].state \in {"Unregistered", "Registered"} =>
              /\ \A h \in Heights : finalized[d][h] = None
              /\ \A l \in RecordingLanes : trail[d][l] = None
              /\ \A e \in evidence : e.domain # d
        /\ domain[d].state = "Unregistered" => policy[d] = None

\* Every evidence a recording lane ever accepted is at or below that lane's
\* last record: the trail never loses sight of a height it has covered.
TrailCoversAccepted ==
    \A e \in evidence : e.payload.kind \notin SettlementPayloads =>
        \E l \in RecordingLanes :
            /\ PayloadOf[l] = e.payload.kind
            /\ trail[e.domain][l] # None
            /\ e.height <= trail[e.domain][l].height

\* After renounce_admin no step changes a verifying key, a quorum policy, the
\* set of domains, an admission or the versions a domain accepts, and no step
\* brings an admin back: "machine approval only".
FrozenAfterRenounce ==
    [][renounced =>
        /\ UNCHANGED <<admin, renounced, vk, policy>>
        /\ \A d \in Domains :
              /\ domain'[d].versions = domain[d].versions
              /\ \/ domain'[d].state = domain[d].state
                 \/ domain[d].state = "Admitted" /\ domain'[d].state = "Active"]_registryVars

\* One digest buys one effect: whatever changes in the settlement table changes
\* at the height of a fresh settlement evidence for that domain, and whatever
\* changes in a trail changes in one lane, for a fresh evidence of its layout,
\* while the settlement state of every domain stays as it was.
OneEvidenceOneEffect ==
    [][LET fresh == evidence' \ evidence IN
        /\ \A d \in Domains, h \in Heights : finalized'[d][h] # finalized[d][h] =>
              \E e \in fresh : /\ e.domain = d /\ e.height = h
                               /\ e.payload.kind \in SettlementPayloads
        /\ \A d \in Domains, l \in RecordingLanes : trail'[d][l] # trail[d][l] =>
              /\ UNCHANGED <<finalized, domain>>
              /\ \E e \in fresh : e.domain = d /\ e.payload.kind = PayloadOf[l]
              /\ \A d2 \in Domains, l2 \in RecordingLanes :
                    <<d2, l2>> # <<d, l>> => trail'[d2][l2] = trail[d2][l2]]_registryVars

\* A recording lane's height only grows.
TrailMovesForward ==
    [][\A d \in Domains, l \in RecordingLanes :
        trail[d][l] # None /\ trail'[d][l] # trail[d][l] =>
            trail'[d][l] # None /\ trail'[d][l].height > trail[d][l].height]_registryVars
=============================================================================

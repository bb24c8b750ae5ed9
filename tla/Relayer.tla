------------------------------- MODULE Relayer -------------------------------
(***************************************************************************)
(* The relayer of crates/relayer between the source simulator, the         *)
(* registry and the gateway.  It is one endless loop of network calls; a   *)
(* step below is one call with everything the loop does up to the next     *)
(* one, so the other parties move between any two of its steps.  A call    *)
(* may fail before it has an effect, and a call that had its effect may    *)
(* be reported as failed.  A restart forgets all the relayer knows.        *)
(*                                                                         *)
(* The contracts are past their bootstrap: one domain is admitted with the *)
(* policy of the source's validators, and administration takes no part.    *)
(* The Groth16 lane is quarantined by default and names another domain.    *)
(***************************************************************************)
EXTENDS Integers, Sequences, Sums

CONSTANTS
    Source, Target, Home,
    Users,          \* who locks on the source and burns on Stellar
    RelayerAccount, \* the relayer's own account
    Gateway, DeadAdmin, Unset, None,
    Key, OtherKey,  \* the validators' aggregate key, and somebody else's
    LockAmounts, Counts, BurnAmounts, Expiries,
    StartBalance,   \* wrapped tokens each user holds before the first call
    Fee,            \* RELAYER_FEE
    Pinned,         \* --height, or None
    Forged,         \* messages nobody locked, offered to the contracts
    MaxAmount,      \* u64::MAX
    PageLimit,      \* pagination limit of getEvents
    Window,         \* ledgers a starting relayer looks back
    MaxHeight, MaxLedger, MaxBurns, MaxFailures, MaxRestarts, MaxSourceRestarts \* bounds

ASSUME RelayerConstants ==
    /\ IsFiniteSet(Users) /\ RelayerAccount \notin Users /\ Key # OtherKey
    /\ Fee \in Nat /\ StartBalance \in Nat /\ MaxAmount \in Nat
    /\ LockAmounts \subseteq Nat /\ Counts \subseteq Nat \ {0} /\ BurnAmounts \subseteq Int
    /\ \A m \in Forged : m.source = Source
    /\ Pinned \in Nat \cup {None} /\ MaxHeight \in Nat
    /\ PageLimit \in Nat /\ Window \in Nat /\ MaxBurns \in Nat
    /\ MaxFailures \in Nat /\ MaxRestarts \in Nat /\ MaxSourceRestarts \in Nat

VARIABLES
    blocks, events, eventNonce, burnUnlocks, released,  \* the source
    domain, evidence, finalized,                        \* the registry
    highWater, outbound, processed, rewards, balance, mints, burns, ledger,
                                                        \* the gateway
    pc,              \* the call the loop makes next
    cursor,          \* burn_cursor
    sourceUnlocks,   \* source_unlocks
    submitted,       \* submitted, the heights of kind "bls"
    gatewaySubmitted,\* gateway_submitted
    queue,           \* the burns of this pass still to be unlocked
    block,           \* the block of this pass
    list,            \* its events, as fetched
    next,            \* the event to be presented next
    merkle,          \* the event root the first event's fetched proof leads to
    failures, restarts, sourceRestarts,                 \* what the bounds bound
    everLocked,      \* history: every event of any life of the source
    everReleased,    \* history: what any life of the source released
    cutOff           \* history: the burns behind the end of the last page that was cut

sourceVars == <<blocks, events, eventNonce, burnUnlocks, released>>
registryVars == <<domain, evidence, finalized>>
gatewayVars == <<highWater, outbound, processed, rewards, balance, mints, burns, ledger>>
memory == <<cursor, sourceUnlocks, submitted, gatewaySubmitted>>
passVars == <<block, list, next, merkle>>
relayerVars == <<pc, memory, queue, passVars, failures, restarts, cutOff>>
historyVars == <<sourceRestarts, everLocked, everReleased>>
vars == <<sourceVars, registryVars, gatewayVars, relayerVars, historyVars>>

-----------------------------------------------------------------------------

Heights == 0..MaxHeight
Accounts == Users \cup {RelayerAccount}
Commits(root) == root

Sim == INSTANCE SourceSimulator WITH
    Senders <- Users, UnlockRequests <- {}, unlocked <- {}

\* What the bootstrap left behind and no step below changes.
Deployed == [policy |-> [d \in {Source} |-> [key |-> Key, signers |-> 3, required |-> 2]],
             registryAdmin |-> DeadAdmin, renounced |-> TRUE,
             gatewayAdmin |-> RelayerAccount]

Reg == INSTANCE FinalityRegistry WITH
    Domains <- {Source}, Versions <- {1}, Roots <- {}, ZeroRoot <- {},
    PubKeys <- {Key}, OtherKeys <- {OtherKey}, VerifyingKeys <- {}, Evidences <- {},
    Proofs <- {}, Quorums <- {2, 3}, admin <- Deployed.registryAdmin,
    renounced <- Deployed.renounced, policy <- Deployed.policy, vk <- << >>, trail <- << >>

Gw == INSTANCE SettlementGateway WITH
    SourceDomains <- {Source}, OutDomains <- {Target, Source}, Roots <- {}, Messages <- {},
    Leaves <- Commits, Amounts <- BurnAmounts, Fees <- {Fee}, MaxCalls <- 0,
    InitialBalance <- [a \in Accounts \cup {Gateway} |-> IF a \in Users THEN StartBalance ELSE 0],
    admin <- Deployed.gatewayAdmin, collector <- Deployed.gatewayAdmin, locks <- << >>

EventsAt(h) == IF h \in DOMAIN events THEN events[h] ELSE << >>

\* What /proof?kind=bls returns for a block, as evidence for the registry.
Evidence(b, key) ==
    [domain |-> Source, version |-> 1, height |-> b.height, root |-> b.root,
     payload |-> [kind |-> "bls368", height |-> b.height, root |-> b.root,
                  event |-> b.event, signers |-> 3, required |-> 2, key |-> Key,
                  sig |-> [key |-> key, msg |-> [height |-> b.height, root |-> b.root,
                                                 event |-> b.event]]]]
BlsEvidence(b) == Evidence(b, Key)

\* The body of /burn-unlock for a burn event.  The account a burn names on the
\* source is opaque bytes to the gateway; here it is the burner's own.
UnlockRequest(m) ==
    [id |-> m, amount |-> m.amount, height |-> m.height, expiry |-> m.expiry,
     recipient |-> m.sender, payload |-> <<m.amount, m.sender>>, target |-> m.target]

NoBlock == Sim!Genesis

Init ==
    /\ Sim!Init
    /\ domain = [d \in {Source} |-> [Reg!NoDomain EXCEPT !.state = "Admitted",
                                                         !.versions = {1}]]
    /\ evidence = {}
    /\ Gw!Init
    /\ pc = "poll"
    /\ cursor = 0
    /\ sourceUnlocks = {} /\ submitted = {} /\ gatewaySubmitted = {}
    /\ queue = << >> /\ block = NoBlock /\ list = << >> /\ next = 1 /\ merkle = {}
    /\ failures = 0 /\ restarts = 0 /\ sourceRestarts = 0
    /\ everLocked = {} /\ everReleased = 0 /\ cutOff = {}

-----------------------------------------------------------------------------
(* The relayer's loop.                                                     *)

\* A call that fails, or whose answer does.
Fails == failures < MaxFailures /\ failures' = failures + 1
Answers == UNCHANGED failures

\* The RPC knows the ledgers that have closed.
Closed == ledger - 1

\* The burns of the ledgers from the cursor on, a page of them: ledgers close in
\* order, so the burns of the ledgers up to one are the first there are.
UpTo(l) == Cardinality({i \in DOMAIN burns : burns[i].height <= l})
PageEnd == IF UpTo(Closed) < UpTo(cursor - 1) + PageLimit THEN UpTo(Closed)
           ELSE UpTo(cursor - 1) + PageLimit
Page == SubSeq(burns, UpTo(cursor - 1) + 1, PageEnd)

\* Burns the RPC holds for these ledgers too, on no page the relayer asks for.
BehindPage == Range(SubSeq(burns, PageEnd + 1, UpTo(Closed)))

\* decode_burn_event
Decodes(m) == m.amount <= MaxAmount /\ m.height <= m.expiry

Batch(page) == IF \A i \in DOMAIN page : Decodes(page[i]) THEN page ELSE << >>

\* The cursor moves when the answer arrives, before an event is decoded, and it moves
\* behind the newest ledger however few of the burns the page had room for.
PollBurns ==
    /\ pc = "poll"
    /\ \/ /\ cursor <= Closed
          /\ Answers
          /\ cursor' = Closed + 1
          /\ queue' = Batch(Page)
          /\ cutOff' = (cutOff \ Range(Page)) \cup BehindPage
       \/ /\ (cursor > Closed /\ Answers) \/ Fails
          /\ queue' = << >>
          /\ UNCHANGED <<cursor, cutOff>>
    /\ pc' = IF queue' = << >> THEN "block" ELSE "unlock"
    /\ UNCHANGED <<sourceUnlocks, submitted, gatewaySubmitted, passVars, restarts,
                   sourceVars, registryVars, gatewayVars, historyVars>>

NotReleased(m) == UNCHANGED sourceUnlocks

\* Whatever the answer, the next burn is taken.
UnlockSource ==
    /\ pc = "unlock"
    /\ LET m == Head(queue)
           q == UnlockRequest(m)
       IN  \/ /\ m \in sourceUnlocks
              /\ Answers
              /\ UNCHANGED <<sourceUnlocks, sourceVars, everReleased>>
           \/ /\ m \notin sourceUnlocks
              /\ Sim!ConsumeBurnUnlock(q)
              /\ everReleased' = everReleased + q.amount
              /\ \/ Answers /\ sourceUnlocks' = sourceUnlocks \cup {m}
                 \/ Fails /\ NotReleased(m)
           \/ /\ m \notin sourceUnlocks
              /\ (~Sim!UnlockAccepts(q) /\ Answers) \/ Fails
              /\ NotReleased(m)
              /\ UNCHANGED <<sourceVars, everReleased>>
    /\ queue' = Tail(queue)
    /\ pc' = IF queue' = << >> THEN "block" ELSE "unlock"
    /\ UNCHANGED <<cursor, submitted, gatewaySubmitted, passVars, restarts, cutOff,
                   registryVars, gatewayVars, sourceRestarts, everLocked>>

\* Mutant: a height whose evidence was submitted is not looked at again.
AfterBlockOnce(h) == IF h \in submitted THEN "sleep" ELSE "events"

\* Only the Groth16 lane skips a height whose evidence was submitted.
AfterBlock(h) == "events"

\* The block this pass is about: the newest, or the pinned one once it exists.
FetchBlock ==
    /\ pc = "block"
    /\ LET h == IF Pinned = None THEN Sim!LatestHeight ELSE Pinned
       IN  \/ /\ h <= Sim!LatestHeight
              /\ Answers
              /\ block' = Sim!Block(h)
              /\ pc' = AfterBlock(h)
           \/ /\ (h > Sim!LatestHeight /\ Answers) \/ Fails
              /\ pc' = "sleep"
              /\ UNCHANGED block
    /\ UNCHANGED <<memory, queue, list, next, merkle, restarts, cutOff,
                   sourceVars, registryVars, gatewayVars, historyVars>>

\* A failed request reads as a block without events.
FetchEvents ==
    /\ pc = "events"
    /\ \/ Answers /\ list' = EventsAt(block.height)
       \/ Fails /\ list' = << >>
    /\ pc' = "proof"
    /\ UNCHANGED <<memory, queue, block, next, merkle, restarts, cutOff,
                   sourceVars, registryVars, gatewayVars, historyVars>>

\* The event root the Merkle proof of m leads to, fetched now.  When the source
\* has none the relayer sends the empty proof, which proves m alone.
MerkleProof(m) ==
    LET siblings == Range(EventsAt(block.height)) IN IF m \in siblings THEN siblings ELSE {m}

EnvelopeIsCoherent ==
    /\ block.height <= Sim!LatestHeight
    /\ Sim!Block(block.height) = block

FetchProof ==
    /\ pc = "proof"
    /\ \/ /\ EnvelopeIsCoherent
          /\ Answers
          /\ pc' = "submit"
          /\ merkle' = IF list = << >> THEN {} ELSE MerkleProof(Head(list))
       \/ /\ (~EnvelopeIsCoherent /\ Answers) \/ Fails
          /\ pc' = "sleep"
          /\ UNCHANGED merkle
    /\ UNCHANGED <<memory, queue, block, list, next, restarts, cutOff,
                   sourceVars, registryVars, gatewayVars, historyVars>>

\* submit_bls: error 9, already processed, counts as success.
EvidenceAccepted ==
    /\ submitted' = submitted \cup {block.height}
    /\ pc' = IF list = << >> THEN "sleep" ELSE "mint"

\* Mutant: a submission that failed is logged and the events are tried anyway.
RefusedIgnored == UNCHANGED submitted /\ pc' = IF list = << >> THEN "sleep" ELSE "mint"
EvidenceRefused == UNCHANGED submitted /\ pc' = "sleep"

AlreadyAnchored(e) == Reg!BlsAlreadyProcessed(e)

SubmitEvidence ==
    /\ pc = "submit"
    /\ LET e == BlsEvidence(block)
       IN  \/ /\ block.height \in submitted \/ AlreadyAnchored(e)
              /\ Answers
              /\ EvidenceAccepted
              /\ UNCHANGED registryVars
           \/ /\ block.height \notin submitted
              /\ Reg!SubmitBls(e)
              /\ \/ Answers /\ EvidenceAccepted
                 \/ Fails /\ EvidenceRefused
           \/ /\ block.height \notin submitted
              /\ \/ ~Reg!BlsAccepts(e) /\ ~AlreadyAnchored(e) /\ Answers
                 \/ Fails
              /\ EvidenceRefused
              /\ UNCHANGED registryVars
    /\ UNCHANGED <<cursor, sourceUnlocks, gatewaySubmitted, queue, passVars, restarts, cutOff,
                   sourceVars, gatewayVars, historyVars>>

ProofFor(m) == IF next = 1 THEN merkle ELSE MerkleProof(m)

\* The gateway mints, with this proof.
GatewayAccepts(m) ==
    /\ Gw!FeeInRange(m, Fee)
    /\ Gw!InboundAccepts(m, Fee)
    /\ ProofFor(m) = finalized[m.source][m.height].event

\* Gateway error 4, read as "this message was already minted".
GatewayHasIt(m) == Gw!FeeInRange(m, Fee) /\ Gw!InboundAlreadyProcessed(m)

Done(m) == gatewaySubmitted' = gatewaySubmitted \cup {m}

\* Mutant: the id is noted whatever the answer.
DoneAnyway(m) == Done(m)
NotDone(m) == UNCHANGED gatewaySubmitted

\* One event of the block; the Merkle proof of a later event is fetched first,
\* which changes nothing, so fetch and call are one step.
SubmitGateway ==
    /\ pc = "mint"
    /\ LET m == list[next]
       IN  \/ /\ m \in gatewaySubmitted
              /\ Answers
              /\ UNCHANGED <<gatewaySubmitted, gatewayVars, finalized>>
           \/ /\ m \notin gatewaySubmitted
              /\ GatewayAccepts(m)
              /\ Gw!FinalizeInboundGasless(RelayerAccount, m, Fee)
              /\ \/ Answers /\ Done(m)
                 \/ Fails /\ NotDone(m)
           \/ /\ m \notin gatewaySubmitted
              /\ \/ GatewayHasIt(m) /\ Answers /\ Done(m)
                 \/ ~GatewayHasIt(m) /\ ~GatewayAccepts(m) /\ Answers /\ NotDone(m)
                 \/ Fails /\ NotDone(m)
              /\ UNCHANGED <<gatewayVars, finalized>>
    /\ next' = next + 1
    /\ pc' = IF next = Len(list) THEN "sleep" ELSE "mint"
    /\ UNCHANGED <<cursor, sourceUnlocks, submitted, queue, block, list, merkle, restarts, cutOff,
                   sourceVars, domain, evidence, historyVars>>

PassIsOver ==
    /\ queue' = << >> /\ block' = NoBlock /\ list' = << >> /\ next' = 1 /\ merkle' = {}
    /\ pc' = "poll"

\* Five seconds.
Sleep ==
    /\ pc = "sleep"
    /\ PassIsOver
    /\ UNCHANGED <<memory, failures, restarts, cutOff, sourceVars, registryVars, gatewayVars,
                   historyVars>>

RelayerStep ==
    \/ PollBurns \/ UnlockSource \/ FetchBlock \/ FetchEvents \/ FetchProof
    \/ SubmitEvidence \/ SubmitGateway \/ Sleep

\* Mutant: a starting relayer asks for new events only.
StartAtClosed == Closed + 1
StartLedger == IF Closed > Window THEN Closed - Window ELSE 0

RelayerRestart ==
    /\ restarts < MaxRestarts
    /\ restarts' = restarts + 1
    /\ cursor' = StartLedger
    /\ sourceUnlocks' = {} /\ submitted' = {} /\ gatewaySubmitted' = {}
    /\ PassIsOver
    /\ UNCHANGED <<failures, cutOff, sourceVars, registryVars, gatewayVars, historyVars>>

-----------------------------------------------------------------------------
(* Everybody else.                                                         *)

SourceMoves ==
    /\ \/ /\ Sim!ProduceBlock
          /\ UNCHANGED historyVars
       \/ \E amount \in LockAmounts, recipient \in Users, sender \in Users, count \in Counts :
             /\ Sim!PostLock(amount, recipient, sender, count)
             /\ everLocked' = everLocked \cup Range(events'[Len(events')])
             /\ UNCHANGED <<sourceRestarts, everReleased>>
       \/ /\ sourceRestarts < MaxSourceRestarts
          /\ sourceRestarts' = sourceRestarts + 1
          /\ Sim!Restart
          /\ UNCHANGED <<everLocked, everReleased>>
    /\ UNCHANGED <<registryVars, gatewayVars, relayerVars>>

\* A burn can still be read: it is not in the last ledger of the bound.
HolderBurns ==
    /\ ledger < MaxLedger /\ Len(burns) < MaxBurns
    /\ \E from \in Users, amount \in BurnAmounts, expiry \in Expiries :
          Gw!BurnAndRelay(from, amount, Source, expiry)
    /\ UNCHANGED <<sourceVars, domain, evidence, relayerVars, historyVars>>

CloseLedger ==
    /\ Gw!CloseLedger
    /\ UNCHANGED <<sourceVars, domain, evidence, relayerVars, historyVars>>

\* Evidence and messages are public and both contracts take them from anybody;
\* somebody may also make some up, signed with a key of their own.
OthersSubmit ==
    /\ \/ \E h \in 0..Sim!LatestHeight : Reg!SubmitBls(BlsEvidence(Sim!Block(h)))
       \/ \E m \in Forged :
             Reg!SubmitBls(Evidence([height |-> m.height, root |-> m.height,
                                     event |-> {m}], OtherKey))
    /\ UNCHANGED <<sourceVars, gatewayVars, relayerVars, historyVars>>

OthersFinalize ==
    /\ \E m \in everLocked \cup Forged : Gw!FinalizeInbound(m)
    /\ UNCHANGED <<sourceVars, domain, evidence, relayerVars, historyVars>>

Next ==
    \/ RelayerStep \/ RelayerRestart
    \/ SourceMoves \/ HolderBurns \/ CloseLedger
    \/ OthersSubmit \/ OthersFinalize

Spec == Init /\ [][Next]_vars

\* The loop never stops by itself, and ledgers close.
FairSpec == Spec /\ WF_vars(RelayerStep) /\ WF_vars(CloseLedger)

-----------------------------------------------------------------------------
(* Correctness.                                                            *)

Locked == SumOf([m \in everLocked |-> m.amount], everLocked)
Burned == SumOf(Gw!AmountsOf(burns), DOMAIN burns)

\* What both sides hold is covered by what was ever locked, whatever calls fail, are
\* repeated or are made by others, and however often the relayer restarts: the
\* wrapped supply plus what the source's accounts were paid since it started never
\* exceeds it; and plus all the source ever released, it exceeds it by no more than
\* all burns once more for every restart of the source, which forgets what it
\* released (burn_unlocks is memory) and may be asked by a relayer that starts again.
Covered ==
    /\ Gw!Supply + SumOf(released, Users) <= Gw!InitialSupply + Locked
    /\ Gw!Supply + everReleased <= Gw!InitialSupply + Locked + sourceRestarts * Burned

\* Every mint is of a message somebody locked, even across lives of the source.
MintsWereLocked == Gw!Settled \subseteq everLocked

\* When the relayer presents the events of a block, the registry holds the
\* roots of that block, although "already processed" counted as success.  A
\* restarted source may overwrite them in between.
AnchoredBeforeMint ==
    sourceRestarts = 0 /\ pc = "mint" =>
        finalized[Source][block.height] = [root |-> block.root, event |-> block.event]

\* What the relayer takes for done settled, or can never settle any more
\* because the route has moved past its nonce; and a burn it will not ask for
\* again was released, as long as the source has not forgotten it.
DoneIsOutOfReach ==
    /\ \A m \in gatewaySubmitted : m \in Gw!Settled \/ Gw!IsProcessed(m)
    /\ sourceRestarts = 0 => \A m \in sourceUnlocks : \E q \in burnUnlocks : q.id = m

\* crates/relayer/src/main.rs:637 says of what the gateway answers with error 4
\* that "this message was already minted".
DoneMeansMinted == gatewaySubmitted \subseteq Gw!Settled

\* A relayer pinned to a height works that block off: every event that pays for
\* its fee is eventually done, through failures and restarts.
PinnedHeightIsWorkedOff ==
    (Pinned # None /\ Pinned <= Len(blocks)) ~>
        [](\A m \in Range(EventsAt(Pinned)) :
              m.amount > Fee /\ m.amount > 0 => m \in gatewaySubmitted)

ReleasedBurns == {q.id : q \in burnUnlocks}

\* README.md:330: a burn event can be "consumed exactly once by the source
\* side": every burn whose event decodes is in the end released, unless a call
\* fails or a page was cut before it, in spite of a restart between reading and
\* releasing it.  A burn stays one, so each is eventually released for good, or is
\* never made.
BurnsAreReleased ==
    \A i \in 1 .. MaxBurns :
        <>[](i \in DOMAIN burns /\ Decodes(burns[i])
                => failures > 0 \/ burns[i] \in ReleasedBurns \cup cutOff)
=============================================================================

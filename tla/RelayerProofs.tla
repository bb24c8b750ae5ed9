---------------------------- MODULE RelayerProofs ----------------------------
(***************************************************************************)
(* The relay between the two chains, for any users, amounts, fees, windows *)
(* and bounds: what it mints was locked and what both sides hold is        *)
(* covered, whatever calls fail, are repeated or are made by others, and   *)
(* however often the relayer is started again; what the source forgets it  *)
(* released when it starts again it may release once more.                 *)
(***************************************************************************)
EXTENDS Relayer, SumTheorems, SequenceTheorems, FiniteSetTheorems

-----------------------------------------------------------------------------
(* The inductive invariant, one part for each party.                       *)

IsSeq(s) == s \in Seq({s[i] : i \in DOMAIN s})

\* What every event of any life of the source looks like.
IsLock(m) ==
    /\ m.source = Source /\ m.target = Target /\ m.nonce \in Nat
    /\ m.sender \in Users /\ m.recipient \in Users /\ m.amount \in Nat

\* A block commits to the events placed in it, and those were locked.
SourceInv ==
    /\ IsSeq(blocks) /\ IsSeq(events)
    /\ Len(events) = Len(blocks) /\ Len(blocks) <= MaxHeight
    /\ eventNonce \in Nat /\ sourceRestarts \in Nat
    /\ \A h \in 1 .. Len(blocks) :
          /\ blocks[h] = [height |-> h, root |-> h, event |-> Range(events[h])]
          /\ IsSeq(events[h]) /\ Range(events[h]) \subseteq everLocked
    /\ IsFiniteSet(everLocked) /\ \A m \in everLocked : IsLock(m)

\* The registry holds the roots of the block the source has at this height.
Anchored(h) ==
    /\ h \in 0 .. Len(blocks)
    /\ finalized[Source][h] = [root |-> Sim!Block(h).root, event |-> Sim!Block(h).event]

\* An anchored event root commits to what was locked; while the source lives on,
\* evidence once used is still evidence of its blocks.
RegistryInv ==
    /\ finalized = [d \in {Source} |-> [h \in Heights |-> finalized[Source][h]]]
    /\ \A h \in Heights :
          finalized[Source][h] # None => finalized[Source][h].event \subseteq everLocked
    /\ sourceRestarts = 0 => \A e \in evidence : Anchored(e.height)

MintedAmount == SumOf(Gw!LockedAmounts, DOMAIN mints)

\* A message on record was minted once and was locked before, and the supply is
\* what was there, what was minted and what was burned.
GatewayInv ==
    /\ highWater \in [Gw!Keys -> Int] /\ outbound \in [{Target, Source} \X Accounts -> Int]
    /\ balance \in [Gw!Holders -> Int]
    /\ IsSeq(mints) /\ IsSeq(burns)
    /\ \A i \in DOMAIN mints : mints[i].msg \in everLocked /\ mints[i].msg \in processed
    /\ \A i, j \in DOMAIN mints : mints[i].msg = mints[j].msg => i = j
    /\ \A i \in DOMAIN burns : burns[i].amount \in Nat /\ burns[i].sender \in Users
    /\ Gw!Supply + Burned = Gw!InitialSupply + MintedAmount

\* What a life of the source released it released for burns there are, once each;
\* each life before this one released no more than all of them.
ReleaseInv ==
    /\ IsFiniteSet(burnUnlocks) /\ released \in [Users -> Nat]
    /\ \A q \in burnUnlocks : q = UnlockRequest(q.id) /\ q.id \in Range(burns)
    /\ SumOf(released, Users) <= SumOf([q \in burnUnlocks |-> q.amount], burnUnlocks)
    /\ everReleased \in Nat
    /\ everReleased <= sourceRestarts * Burned + SumOf([q \in burnUnlocks |-> q.amount], burnUnlocks)

\* While the source lives on, the block is one it has.
IsCurrent(b) == sourceRestarts = 0 => b.height \in 0 .. Len(blocks) /\ b = Sim!Block(b.height)

\* What the relayer takes for done is done, or out of its reach.
MemoryInv ==
    /\ sourceRestarts = 0 => \A h \in submitted : Anchored(h)
    /\ \A m \in gatewaySubmitted : m \in everLocked /\ (m \in Gw!Settled \/ Gw!IsProcessed(m))
    /\ sourceRestarts = 0 => \A m \in sourceUnlocks : \E q \in burnUnlocks : q.id = m

\* What a pass works on: burns there are, then a block and its events.
PassInv ==
    /\ IsSeq(queue) /\ Range(queue) \subseteq Range(burns)
    /\ pc = "unlock" => queue # << >>
    /\ pc \in {"events", "proof", "submit", "mint"} =>
          /\ block.height \in Heights /\ block.event \subseteq everLocked /\ IsCurrent(block)
    /\ pc \in {"proof", "submit", "mint"} => IsSeq(list) /\ Range(list) \subseteq everLocked
    /\ pc \notin {"mint", "sleep"} => next = 1
    /\ pc = "mint" => /\ next \in 1 .. Len(list)
                      /\ sourceRestarts = 0 => Anchored(block.height)

LoopInv == MemoryInv /\ PassInv
WorldInv == SourceInv /\ RegistryInv /\ GatewayInv /\ ReleaseInv
RelayInv == WorldInv /\ LoopInv

-----------------------------------------------------------------------------
(* What a step does to the two chains.                                     *)

\* A block is placed with the events that wait for it.
Grows(waiting) ==
    /\ Len(blocks) < MaxHeight
    /\ blocks' = Append(blocks, [height |-> Len(blocks) + 1, root |-> Len(blocks) + 1,
                                 event |-> Range(waiting)])
    /\ events' = Append(events, waiting)
    /\ IsSeq(waiting) /\ IsFiniteSet(Range(waiting)) /\ \A m \in Range(waiting) : IsLock(m)
    /\ eventNonce' \in Nat
    /\ everLocked' = everLocked \cup Range(waiting)
    /\ UNCHANGED <<burnUnlocks, released, registryVars, gatewayVars, sourceRestarts, everReleased>>

Forgets ==
    /\ blocks' = << >> /\ events' = << >> /\ eventNonce' = 0
    /\ burnUnlocks' = {} /\ released' = [a \in Users |-> 0]
    /\ sourceRestarts' = sourceRestarts + 1
    /\ UNCHANGED <<registryVars, gatewayVars, everLocked, everReleased>>

Releases(q) ==
    /\ q = UnlockRequest(q.id) /\ q.id \in Range(burns)
    /\ \A u \in burnUnlocks : u.id # q.id
    /\ released' = [released EXCEPT ![q.recipient] = Sim!Saturating(@ + q.amount)]
    /\ burnUnlocks' = burnUnlocks \cup {q}
    /\ everReleased' = everReleased + q.amount
    /\ UNCHANGED <<blocks, events, eventNonce, registryVars, gatewayVars,
                   sourceRestarts, everLocked>>

Anchors(b) ==
    /\ b.height \in Heights /\ b.event \subseteq everLocked /\ IsCurrent(b)
    /\ finalized' = [finalized EXCEPT ![Source][b.height] =
                        [root |-> b.root, event |-> b.event]]
    /\ evidence' = evidence \cup {BlsEvidence(b)}
    /\ UNCHANGED <<sourceVars, gatewayVars, historyVars>>

Mints(m, receiver, fee) ==
    /\ receiver \in Accounts /\ fee \in Nat /\ m.amount - fee > 0
    /\ m \in everLocked /\ m \notin processed /\ ~Gw!IsProcessed(m)
    /\ highWater' = [highWater EXCEPT ![Gw!KeyOf(m)] = m.nonce]
    /\ processed' = processed \cup {m}
    /\ balance' = Gw!Credit(balance, m, receiver, fee)
    /\ mints' = Append(mints, [msg |-> m, receiver |-> receiver, fee |-> fee])
    /\ UNCHANGED <<outbound, burns, finalized, sourceVars, evidence, historyVars>>

Burns(from, m) ==
    /\ from \in Users /\ m.amount \in Nat
    /\ m.source = Home /\ m.target = Source /\ m.sender = from
    /\ m.nonce = outbound[<<Source, from>>] /\ ~Gw!IsProcessed(m)
    /\ balance' = [balance EXCEPT ![from] = @ - m.amount]
    /\ outbound' = [outbound EXCEPT ![<<Source, from>>] = @ + 1]
    /\ highWater' = [highWater EXCEPT ![Gw!KeyOf(m)] = m.nonce]
    /\ burns' = Append(burns, m)
    /\ UNCHANGED <<processed, mints, finalized, sourceVars, evidence, historyVars>>

Rests == UNCHANGED <<sourceVars, evidence, finalized, highWater, outbound, processed,
                     balance, mints, burns, historyVars>>

-----------------------------------------------------------------------------
(* Every step is one of these.                                             *)

\* What a list holds is finite, and an empty list holds nothing.
LEMMA RangeFinite ==
    ASSUME NEW s, IsSeq(s)
    PROVE  /\ IsFiniteSet(Range(s)) /\ Len(s) \in Nat /\ DOMAIN s = 1 .. Len(s)
           /\ Range(s) = {s[i] : i \in 1 .. Len(s)}
<1>1. Len(s) \in Nat /\ DOMAIN s = 1 .. Len(s)
  BY DEF IsSeq
<1> DEFINE f == [i \in 1 .. Len(s) |-> s[i]]
           D == 1 .. Len(s)
<1>2. f \in Surjection(D, Range(s))
  BY <1>1 DEF Surjection, Range
<1>3. IsFiniteSet(D)
  BY <1>1, FS_Interval
<1> HIDE DEF f, D
<1>4. IsFiniteSet(Range(s))
  BY <1>2, <1>3, FS_Surjection
<1> QED BY <1>1, <1>4 DEF Range

\* The empty list holds nothing.
LEMMA EmptyList ==
    IsSeq(<< >>) /\ Range(<< >>) = {} /\ Len(<< >>) = 0
BY DEF IsSeq, Range

\* A sequence with one more at its end.
LEMMA AppendAtEnd ==
    ASSUME NEW s, IsSeq(s), NEW e
    PROVE  /\ IsSeq(Append(s, e)) /\ Len(Append(s, e)) = Len(s) + 1
           /\ DOMAIN Append(s, e) = 1 .. Len(s) + 1
           /\ Append(s, e)[Len(s) + 1] = e
           /\ \A i \in 1 .. Len(s) : Append(s, e)[i] = s[i]
           /\ Range(Append(s, e)) = Range(s) \cup {e}
<1> DEFINE S == {s[i] : i \in DOMAIN s} \cup {e}
           t == Append(s, e)
<1>1. s \in Seq(S) /\ e \in S /\ Len(s) \in Nat /\ DOMAIN s = 1 .. Len(s)
  BY DEF IsSeq
<1> HIDE DEF S
<1>2. /\ t \in Seq(S) /\ Len(t) = Len(s) + 1 /\ DOMAIN t = 1 .. Len(s) + 1
      /\ t[Len(s) + 1] = e /\ \A i \in 1 .. Len(s) : t[i] = s[i]
  BY <1>1
<1> HIDE DEF t
<1>3. IsSeq(t)
  BY <1>2 DEF IsSeq
<1>4. Range(t) = Range(s) \cup {e}
  <2>1. 1 .. Len(s) + 1 = 1 .. Len(s) \cup {Len(s) + 1}
    BY <1>1
  <2> QED BY <1>1, <1>2, <2>1 DEF Range
<1> QED BY <1>2, <1>3, <1>4 DEF t

\* The source places a block, empty or with the events of one request, or forgets.
LEMMA SourceCases ==
    ASSUME SourceInv, SourceMoves
    PROVE  Forgets \/ \E list0 : Grows(list0)
<1>1. CASE Sim!ProduceBlock /\ UNCHANGED historyVars
  <2>1. Grows(<< >>)
    <3>1. IsFiniteSet(Range(<< >>))
      BY EmptyList, FS_EmptySet
    <3>2. /\ Len(blocks) < MaxHeight /\ events' = Append(events, << >>)
          /\ blocks' = Append(blocks, [height |-> Len(blocks) + 1, root |-> Len(blocks) + 1,
                                       event |-> Range(<< >>)])
          /\ UNCHANGED <<eventNonce, burnUnlocks, released>>
      BY <1>1 DEF Sim!ProduceBlock, Sim!ProduceWith, Sim!LatestHeight, Sim!EventRoot,
               Sim!Range, Range
    <3>3. UNCHANGED <<registryVars, gatewayVars, sourceRestarts, everLocked, everReleased>>
      BY <1>1, SMTT(30) DEF SourceMoves, historyVars
    <3>4. eventNonce' \in Nat /\ everLocked' = everLocked \cup Range(<< >>)
      BY <3>2, <3>3, EmptyList DEF SourceInv
    <3> QED BY <3>1, <3>2, <3>3, <3>4, EmptyList DEF Grows
  <2> QED BY <2>1
<1>2. ASSUME NEW amount \in LockAmounts, NEW recipient \in Users, NEW sender \in Users,
             NEW count \in Counts, Sim!PostLock(amount, recipient, sender, count),
             everLocked' = everLocked \cup Range(events'[Len(events')]),
             UNCHANGED <<sourceRestarts, everReleased, registryVars, gatewayVars>>
      PROVE  \E list0 : Grows(list0)
  <2> DEFINE waiting == [i \in 1 .. count |-> Sim!LockEvent(i, amount, recipient, sender)]
  <2>1. amount \in Nat /\ count \in Nat /\ eventNonce \in Nat /\ Len(blocks) \in Nat
    BY RelayerConstants DEF SourceInv, IsSeq
  <2>2. IsSeq(waiting) /\ \A m \in Range(waiting) : IsLock(m)
    <3>1. \A i \in 1 .. count : IsLock(waiting[i])
      BY <2>1 DEF Sim!LockEvent, Sim!NonceOf, IsLock
    <3>2. IsSeq(waiting)
      BY <2>1 DEF IsSeq
    <3> QED BY <3>1, <3>2 DEF Range
  <2>3. /\ Len(blocks) < MaxHeight /\ events' = Append(events, waiting)
        /\ blocks' = Append(blocks, [height |-> Len(blocks) + 1, root |-> Len(blocks) + 1,
                                     event |-> Range(waiting)])
        /\ eventNonce' = eventNonce + count /\ UNCHANGED <<burnUnlocks, released>>
    BY <1>2 DEF Sim!PostLock, Sim!ProduceWith, Sim!LatestHeight, Sim!EventRoot,
               Sim!Range, Range
  <2> HIDE DEF waiting
  <2>4. everLocked' = everLocked \cup Range(waiting)
    <3>1. IsSeq(events)
      BY DEF SourceInv
    <3> QED BY <1>2, <2>3, <3>1, AppendAtEnd
  <2>5. IsFiniteSet(Range(waiting))
    BY <2>2, RangeFinite
  <2> QED BY <1>2, <2>1, <2>2, <2>3, <2>4, <2>5 DEF Grows
<1>3. CASE /\ sourceRestarts' = sourceRestarts + 1 /\ Sim!Restart
           /\ UNCHANGED <<everLocked, everReleased, registryVars, gatewayVars>>
  BY <1>3 DEF Sim!Restart, Forgets
<1> QED BY <1>1, <1>2, <1>3 DEF SourceMoves

\* The registry takes evidence of a block only with the validators' signature.
LEMMA EvidenceOf ==
    ASSUME NEW b, b.height \in Heights, b.event \subseteq everLocked, IsCurrent(b),
           Reg!SubmitBls(BlsEvidence(b)), UNCHANGED <<sourceVars, gatewayVars, historyVars>>
    PROVE  Anchors(b)
BY DEF Reg!SubmitBls, BlsEvidence, Evidence, Anchors

\* Evidence the validators did not sign is refused.
LEMMA ForgedRefused ==
    ASSUME NEW b, Reg!SubmitBls(Evidence(b, OtherKey))
    PROVE  FALSE
BY RelayerConstants DEF Reg!SubmitBls, Reg!BlsAccepts, Evidence

\* A block of the source commits to what was locked.
LEMMA BlockFacts ==
    ASSUME SourceInv, NEW h \in 0 .. Len(blocks)
    PROVE  /\ h \in Heights /\ Sim!Block(h).height = h
           /\ Sim!Block(h).event \subseteq everLocked /\ IsCurrent(Sim!Block(h))
<1>1. Len(blocks) \in Nat /\ Len(blocks) <= MaxHeight /\ MaxHeight \in Nat
  BY RelayerConstants DEF SourceInv, IsSeq
<1>2. CASE h = 0
  BY <1>1, <1>2 DEF Sim!Block, Sim!Genesis, Sim!ZeroRoot, IsCurrent, Heights
<1>3. CASE h # 0
  <2>1. h \in 1 .. Len(blocks)
    BY <1>1, <1>3
  <2>2. Sim!Block(h) = blocks[h]
    BY <1>3 DEF Sim!Block
  <2>3. /\ blocks[h] = [height |-> h, root |-> h, event |-> Range(events[h])]
        /\ Range(events[h]) \subseteq everLocked
    BY <2>1 DEF SourceInv
  <2>4. blocks[h].height = h /\ blocks[h].event \subseteq everLocked
    BY <2>3
  <2> QED BY <1>1, <2>2, <2>4 DEF IsCurrent, Heights
<1> QED BY <1>2, <1>3

\* What the gateway settles was locked: an anchored event root commits to it.
LEMMA SettlesLocked ==
    ASSUME RelayInv, NEW m, NEW receiver \in Accounts, NEW fee \in Nat,
           m.source = Source, Gw!FinalizeInternal(m, receiver, fee),
           UNCHANGED <<sourceVars, evidence, historyVars>>
    PROVE  Mints(m, receiver, fee)
<1>1. Gw!InboundAccepts(m, fee) /\ Gw!MarkProcessed(m)
  BY DEF Gw!FinalizeInternal
<1>2. /\ m.height \in Heights /\ finalized[Source][m.height] # None
      /\ m \in finalized[Source][m.height].event
  BY <1>1 DEF Gw!InboundAccepts, Gw!Committed, Commits
<1>3. m \in everLocked
  BY <1>2 DEF RelayInv, WorldInv, RegistryInv
<1>4. m.amount - fee > 0 /\ m \notin processed /\ ~Gw!IsProcessed(m)
  BY <1>1 DEF Gw!InboundAccepts
<1>5. /\ processed' = processed \cup {m} /\ balance' = Gw!Credit(balance, m, receiver, fee)
      /\ mints' = Append(mints, [msg |-> m, receiver |-> receiver, fee |-> fee])
      /\ UNCHANGED <<outbound, burns, finalized>>
  BY DEF Gw!FinalizeInternal
<1>6. highWater' = [highWater EXCEPT ![Gw!KeyOf(m)] = m.nonce]
  BY <1>1 DEF Gw!MarkProcessed
<1> QED BY <1>3, <1>4, <1>5, <1>6 DEF Mints

\* A holder's burn names the route back to the source and the next nonce on it.
LEMMA BurnCase ==
    ASSUME RelayInv, HolderBurns
    PROVE  \E from \in Users : \E m : Burns(from, m)
<1>1. PICK from \in Users, amount \in BurnAmounts, expiry \in Expiries :
         Gw!BurnAndRelay(from, amount, Source, expiry)
  BY DEF HolderBurns
<1> DEFINE m == Gw!OutboundMessage(from, amount, Source, expiry, "Burn")
<1>2. /\ amount \in Nat /\ m.amount = amount /\ m.source = Home /\ m.target = Source
      /\ m.sender = from /\ m.nonce = outbound[<<Source, from>>]
  <2>1. amount > 0 /\ amount \in Int
    BY <1>1, RelayerConstants DEF Gw!BurnAndRelay
  <2> QED BY <2>1 DEF Gw!OutboundMessage, Gw!NextNonce
<1>3. /\ ~Gw!IsProcessed(m) /\ balance' = [balance EXCEPT ![from] = @ - amount]
      /\ Gw!AdvanceNonce(Source, from) /\ Gw!MarkProcessed(m) /\ burns' = Append(burns, m)
      /\ UNCHANGED <<processed, mints, finalized>>
  BY <1>1 DEF Gw!BurnAndRelay
<1>4. UNCHANGED <<sourceVars, evidence, historyVars>>
  BY DEF HolderBurns
<1> HIDE DEF m
<1>5. Burns(from, m)
  BY <1>2, <1>3, <1>4 DEF Burns, Gw!AdvanceNonce, Gw!MarkProcessed
<1> QED BY <1>5

\* Mints anybody may ask for.
LEMMA OthersCase ==
    ASSUME RelayInv, OthersFinalize
    PROVE  \E m, receiver, fee : Mints(m, receiver, fee)
<1>1. PICK m \in everLocked \cup Forged : Gw!FinalizeInbound(m)
  BY DEF OthersFinalize
<1>2. m.source = Source
  BY RelayerConstants DEF RelayInv, WorldInv, SourceInv, IsLock
<1>3. Gw!FinalizeInternal(m, m.recipient, 0)
  BY <1>1 DEF Gw!FinalizeInbound
<1>4. m \in everLocked
  <2>1. Gw!Committed(m)
    BY <1>3 DEF Gw!FinalizeInternal, Gw!InboundAccepts
  <2>2. /\ m.height \in Heights /\ finalized[Source][m.height] # None
        /\ m \in finalized[Source][m.height].event
    BY <1>2, <2>1 DEF Gw!Committed, Commits
  <2> QED BY <2>2 DEF RelayInv, WorldInv, RegistryInv
<1>5. m.recipient \in Accounts
  BY <1>4 DEF RelayInv, WorldInv, SourceInv, IsLock, Accounts
<1>6. UNCHANGED <<sourceVars, evidence, historyVars>>
  BY DEF OthersFinalize
<1> DEFINE receiver == m.recipient
<1>7. receiver \in Accounts /\ Gw!FinalizeInternal(m, receiver, 0)
  BY <1>3, <1>5
<1> HIDE DEF receiver
<1>8. Mints(m, receiver, 0)
  BY <1>2, <1>6, <1>7, SettlesLocked
<1> QED BY <1>8

\* Evidence anybody may submit.
LEMMA OthersEvidence ==
    ASSUME RelayInv, OthersSubmit
    PROVE  \E b : Anchors(b)
<1>1. UNCHANGED <<sourceVars, gatewayVars, historyVars>>
  BY DEF OthersSubmit
<1>2. ASSUME NEW h \in 0 .. Sim!LatestHeight, Reg!SubmitBls(BlsEvidence(Sim!Block(h)))
      PROVE  \E b : Anchors(b)
  <2> DEFINE b == Sim!Block(h)
  <2>1. b.height \in Heights /\ b.event \subseteq everLocked /\ IsCurrent(b)
    BY BlockFacts DEF RelayInv, WorldInv, Sim!LatestHeight
  <2>2. Reg!SubmitBls(BlsEvidence(b))
    BY <1>2
  <2> HIDE DEF b
  <2>3. Anchors(b)
    BY <1>1, <2>1, <2>2, EvidenceOf
  <2> QED BY <2>3
<1>3. ASSUME NEW m \in Forged,
             Reg!SubmitBls(Evidence([height |-> m.height, root |-> m.height, event |-> {m}],
                                    OtherKey))
      PROVE  FALSE
  <2> DEFINE b == [height |-> m.height, root |-> m.height, event |-> {m}]
  <2>1. Reg!SubmitBls(Evidence(b, OtherKey))
    BY <1>3
  <2> HIDE DEF b
  <2> QED BY <2>1, ForgedRefused
<1> QED BY <1>2, <1>3 DEF OthersSubmit

\* The relayer's own evidence is of the block of its pass.
LEMMA SubmitCase ==
    ASSUME RelayInv, SubmitEvidence
    PROVE  Rests \/ Anchors(block)
<1>1. block.height \in Heights /\ block.event \subseteq everLocked /\ IsCurrent(block)
  BY DEF SubmitEvidence, RelayInv, LoopInv, PassInv
<1>2. UNCHANGED <<sourceVars, gatewayVars, historyVars>>
  BY DEF SubmitEvidence
<1>3. CASE Reg!SubmitBls(BlsEvidence(block))
  BY <1>1, <1>2, <1>3, EvidenceOf
<1>4. CASE UNCHANGED registryVars
  BY <1>2, <1>4 DEF Rests, registryVars, gatewayVars
<1> QED BY <1>3, <1>4 DEF SubmitEvidence

\* The event the relayer presents was locked.
LEMMA PresentsLocked ==
    ASSUME RelayInv, pc = "mint"
    PROVE  list[next] \in everLocked /\ IsLock(list[next]) /\ IsSeq(list)
<1>1. next \in 1 .. Len(list) /\ IsSeq(list) /\ Range(list) \subseteq everLocked
  BY DEF RelayInv, LoopInv, PassInv
<1>2. list[next] \in Range(list)
  BY <1>1, RangeFinite
<1> QED BY <1>1, <1>2 DEF RelayInv, WorldInv, SourceInv

\* The relayer asks for the mint of the event it has come to: that one is minted,
\* or the two chains rest.
LEMMA MintCase ==
    ASSUME RelayInv, SubmitGateway
    PROVE  Rests \/ \E m, receiver, fee : Mints(m, receiver, fee)
<1> DEFINE m == list[next]
<1>1. UNCHANGED <<sourceVars, evidence, historyVars>>
  BY DEF SubmitGateway
<1>2. m.source = Source
  BY PresentsLocked DEF SubmitGateway, IsLock
<1> HIDE DEF m
<1>3. CASE Gw!FinalizeInboundGasless(RelayerAccount, m, Fee)
  <2>1. Gw!FinalizeInternal(m, RelayerAccount, Fee)
    BY <1>3 DEF Gw!FinalizeInboundGasless
  <2>2. RelayerAccount \in Accounts /\ Fee \in Nat
    BY RelayerConstants DEF Accounts
  <2>3. Mints(m, RelayerAccount, Fee)
    BY <1>1, <1>2, <2>1, <2>2, SettlesLocked
  <2> QED BY <2>3
<1>4. CASE UNCHANGED <<gatewayVars, finalized>>
  BY <1>1, <1>4 DEF Rests, gatewayVars
<1> QED BY <1>3, <1>4 DEF SubmitGateway, m

\* The source releases for a burn of the page.
LEMMA UnlockCase ==
    ASSUME RelayInv, UnlockSource
    PROVE  \/ Rests
           \/ /\ Head(queue) \in Range(burns)
              /\ Releases(UnlockRequest(Head(queue)))
<1> DEFINE m == Head(queue)
           q == UnlockRequest(m)
<1>1. UNCHANGED <<registryVars, gatewayVars, sourceRestarts, everLocked>>
  BY DEF UnlockSource
<1>2. m \in Range(burns)
  <2>1. IsSeq(queue) /\ queue # << >> /\ Range(queue) \subseteq Range(burns)
    BY DEF UnlockSource, RelayInv, LoopInv, PassInv
  <2>2. queue[1] \in Range(queue) /\ m = queue[1]
    BY <2>1, RangeFinite DEF IsSeq, Range
  <2> QED BY <2>1, <2>2
<1>3. q.id = m
  BY DEF UnlockRequest
<1>4. CASE Sim!ConsumeBurnUnlock(q) /\ everReleased' = everReleased + q.amount
  <2>1. /\ \A u \in burnUnlocks : u.id # q.id
        /\ released' = [released EXCEPT ![q.recipient] = Sim!Saturating(@ + q.amount)]
        /\ burnUnlocks' = burnUnlocks \cup {q}
        /\ UNCHANGED <<blocks, events, eventNonce>>
    BY <1>4 DEF Sim!ConsumeBurnUnlock, Sim!UnlockAccepts, Sim!AlreadyUnlocked
  <2> QED BY <1>1, <1>2, <1>3, <1>4, <2>1 DEF Releases
<1>5. CASE UNCHANGED <<sourceVars, everReleased>>
  BY <1>1, <1>5 DEF Rests, registryVars, gatewayVars, historyVars
<1> QED BY <1>4, <1>5 DEF UnlockSource

\* Every step of anybody, as the two chains see it.
Moves ==
    \/ Rests \/ Forgets
    \/ \E waiting : Grows(waiting)
    \/ \E q : Releases(q)
    \/ \E b : Anchors(b)
    \/ \E m, receiver, fee : Mints(m, receiver, fee)
    \/ \E from \in Users : \E m : Burns(from, m)

\* Every step of the relay is one of these moves of the two chains, or none.
LEMMA StepCases ==
    ASSUME RelayInv, [Next]_vars
    PROVE  Moves
<1>1. CASE SourceMoves
  BY <1>1, SourceCases DEF RelayInv, WorldInv, Moves
<1>2. CASE HolderBurns
  BY <1>2, BurnCase DEF Moves
<1>3. CASE OthersSubmit
  BY <1>3, OthersEvidence DEF Moves
<1>4. CASE OthersFinalize
  BY <1>4, OthersCase DEF Moves
<1>5. CASE SubmitEvidence
  BY <1>5, SubmitCase DEF Moves
<1>6. CASE SubmitGateway
  BY <1>6, MintCase DEF Moves
<1>7. CASE UnlockSource
  BY <1>7, UnlockCase DEF Moves
<1>8. CASE CloseLedger
  BY <1>8 DEF CloseLedger, Gw!CloseLedger, Gw!contractVars, Rests, Moves
<1>9. CASE PollBurns \/ FetchBlock \/ FetchEvents \/ FetchProof \/ Sleep \/ RelayerRestart
  BY <1>9 DEF PollBurns, FetchBlock, FetchEvents, FetchProof, Sleep, RelayerRestart,
              registryVars, gatewayVars, Rests, Moves
<1>10. CASE UNCHANGED vars
  BY <1>10 DEF vars, registryVars, gatewayVars, Rests, Moves
<1> QED BY <1>1, <1>2, <1>3, <1>4, <1>5, <1>6, <1>7, <1>8, <1>9, <1>10 DEF Next, RelayerStep

-----------------------------------------------------------------------------
(* The source and the registry.                                            *)

\* A block the source has keeps its place when the next one comes.
LEMMA BlocksStay ==
    ASSUME SourceInv, NEW waiting, Grows(waiting)
    PROVE  /\ Len(blocks) \in Nat /\ Len(blocks') = Len(blocks) + 1 /\ Len(events') = Len(blocks')
           /\ IsSeq(blocks') /\ IsSeq(events')
           /\ blocks'[Len(blocks')] = [height |-> Len(blocks'), root |-> Len(blocks'),
                                       event |-> Range(waiting)]
           /\ events'[Len(blocks')] = waiting
           /\ \A h \in 1 .. Len(blocks) : blocks'[h] = blocks[h] /\ events'[h] = events[h]
           /\ \A h \in 0 .. Len(blocks) : Sim!Block(h)' = Sim!Block(h)
<1>1. /\ IsSeq(blocks) /\ IsSeq(events) /\ Len(events) = Len(blocks) /\ Len(blocks) \in Nat
  BY RangeFinite DEF SourceInv
<1> DEFINE b == [height |-> Len(blocks) + 1, root |-> Len(blocks) + 1, event |-> Range(waiting)]
<1>2. blocks' = Append(blocks, b) /\ events' = Append(events, waiting)
  BY DEF Grows
<1>3. b = [height |-> Len(blocks) + 1, root |-> Len(blocks) + 1, event |-> Range(waiting)]
  OBVIOUS
<1> HIDE DEF b
<1>4. /\ IsSeq(blocks') /\ Len(blocks') = Len(blocks) + 1 /\ blocks'[Len(blocks) + 1] = b
      /\ \A h \in 1 .. Len(blocks) : blocks'[h] = blocks[h]
  BY <1>1, <1>2, AppendAtEnd
<1>5. /\ IsSeq(events') /\ Len(events') = Len(events) + 1 /\ events'[Len(events) + 1] = waiting
      /\ \A h \in 1 .. Len(events) : events'[h] = events[h]
  BY <1>1, <1>2, AppendAtEnd
<1>6. ASSUME NEW h \in 0 .. Len(blocks)
      PROVE  Sim!Block(h)' = Sim!Block(h)
  BY <1>1, <1>4 DEF Sim!Block
<1> QED BY <1>1, <1>3, <1>4, <1>5, <1>6

\* The blocks the source holds commit to what was locked, whatever a step does.
LEMMA SourceKept ==
    ASSUME RelayInv, Moves
    PROVE  SourceInv'
<1>1. ASSUME NEW waiting, Grows(waiting)
      PROVE  SourceInv'
  <2>1. SourceInv
    BY DEF RelayInv, WorldInv
  <2>2. /\ everLocked' = everLocked \cup Range(waiting) /\ IsSeq(waiting)
        /\ IsFiniteSet(Range(waiting)) /\ \A m \in Range(waiting) : IsLock(m)
        /\ Len(blocks) < MaxHeight /\ eventNonce' \in Nat /\ sourceRestarts' = sourceRestarts
    BY <1>1 DEF Grows
  <2>3. IsFiniteSet(everLocked') /\ \A m \in everLocked' : IsLock(m)
    BY <2>1, <2>2, FS_Union DEF SourceInv
  <2>0. /\ Len(blocks) \in Nat /\ Len(blocks') = Len(blocks) + 1 /\ Len(events') = Len(blocks')
        /\ IsSeq(blocks') /\ IsSeq(events')
        /\ blocks'[Len(blocks')] = [height |-> Len(blocks'), root |-> Len(blocks'),
                                    event |-> Range(waiting)]
        /\ events'[Len(blocks')] = waiting
        /\ \A h \in 1 .. Len(blocks) : blocks'[h] = blocks[h] /\ events'[h] = events[h]
    BY <1>1, <2>1, BlocksStay
  <2>4. ASSUME NEW h \in 1 .. Len(blocks')
        PROVE  /\ blocks'[h] = [height |-> h, root |-> h, event |-> Range(events'[h])]
               /\ IsSeq(events'[h]) /\ Range(events'[h]) \subseteq everLocked'
    <3>1. CASE h = Len(blocks')
      BY <2>0, <2>2, <3>1
    <3>2. CASE h \in 1 .. Len(blocks)
      BY <2>0, <2>1, <2>2, <3>2 DEF SourceInv
    <3> QED BY <2>0, <3>1, <3>2
  <2>5. /\ IsSeq(blocks') /\ IsSeq(events') /\ Len(events') = Len(blocks')
        /\ Len(blocks') <= MaxHeight
    BY <2>0, <2>2, RelayerConstants
  <2>6. sourceRestarts' \in Nat
    BY <2>1, <2>2 DEF SourceInv
  <2> QED BY <2>2, <2>3, <2>4, <2>5, <2>6 DEF SourceInv
<1>2. CASE Forgets
  BY <1>2, EmptyList, RelayerConstants DEF RelayInv, WorldInv, SourceInv, Forgets, IsSeq, IsLock
<1>3. ASSUME UNCHANGED <<blocks, events, eventNonce, sourceRestarts, everLocked>>
      PROVE  SourceInv'
  BY <1>3 DEF RelayInv, WorldInv, SourceInv
<1>4. ASSUME NEW q, Releases(q)
      PROVE  SourceInv'
  BY <1>3, <1>4 DEF Releases
<1>5. ASSUME NEW b, Anchors(b)
      PROVE  SourceInv'
  BY <1>3, <1>5 DEF Anchors, sourceVars, historyVars
<1>6. ASSUME NEW m, NEW receiver, NEW fee, Mints(m, receiver, fee)
      PROVE  SourceInv'
  BY <1>3, <1>6 DEF Mints, sourceVars, historyVars
<1>7. ASSUME NEW from \in Users, NEW m, Burns(from, m)
      PROVE  SourceInv'
  BY <1>3, <1>7 DEF Burns, sourceVars, historyVars
<1>8. CASE Rests
  BY <1>3, <1>8 DEF Rests, sourceVars, historyVars
<1> QED BY <1>1, <1>2, <1>4, <1>5, <1>6, <1>7, <1>8 DEF Moves

\* Fresh evidence changes one entry, and to what the source has there already.
LEMMA AnchorsOne ==
    ASSUME RelayInv, NEW b, Anchors(b)
    PROVE  /\ \A h \in Heights : finalized'[Source][h] =
                 IF h = b.height THEN [root |-> b.root, event |-> b.event]
                 ELSE finalized[Source][h]
           /\ finalized' = [d \in {Source} |-> [h \in Heights |-> finalized'[Source][h]]]
           /\ sourceRestarts = 0 => /\ \A h : Anchored(h) => Anchored(h)'
                                    /\ Anchored(b.height)'
<1>1. /\ b.height \in Heights /\ IsCurrent(b) /\ UNCHANGED <<blocks, sourceRestarts>>
      /\ finalized' = [finalized EXCEPT ![Source][b.height] =
                          [root |-> b.root, event |-> b.event]]
  BY DEF Anchors, sourceVars, historyVars
<1>2. finalized = [d \in {Source} |-> [h \in Heights |-> finalized[Source][h]]]
  BY DEF RelayInv, WorldInv, RegistryInv
<1> DEFINE roots == [root |-> b.root, event |-> b.event]
<1>3. roots.root = b.root /\ roots.event = b.event
  OBVIOUS
<1> HIDE DEF roots
<1>4. finalized'[Source] = [finalized[Source] EXCEPT ![b.height] = roots]
  BY <1>1, <1>2 DEF roots
<1>5. \A h \in Heights : finalized'[Source][h] = IF h = b.height THEN roots ELSE finalized[Source][h]
  BY <1>2, <1>4
<1>6. finalized' = [d \in {Source} |-> [h \in Heights |-> finalized'[Source][h]]]
  BY <1>1, <1>2
<1>7. 0 .. Len(blocks) \subseteq Heights
  BY BlockFacts DEF RelayInv, WorldInv
<1>8. \A h : Sim!Block(h)' = Sim!Block(h)
  BY <1>1 DEF Sim!Block
<1>9. ASSUME sourceRestarts = 0
      PROVE  b.height \in 0 .. Len(blocks) /\ b = Sim!Block(b.height)
  BY <1>1, <1>9 DEF IsCurrent
<1>10. sourceRestarts = 0 => Anchored(b.height)'
  BY <1>1, <1>5, <1>8, <1>9 DEF Anchored, roots
<1>11. ASSUME sourceRestarts = 0, NEW h, Anchored(h)
       PROVE  Anchored(h)'
  <2>1. h \in Heights /\ finalized'[Source][h] = IF h = b.height THEN roots ELSE finalized[Source][h]
    BY <1>5, <1>7, <1>11 DEF Anchored
  <2> QED BY <1>1, <1>8, <1>9, <1>11, <2>1 DEF Anchored, roots
<1> QED BY <1>5, <1>6, <1>10, <1>11 DEF roots

\* What is anchored was locked, and stays evidence of the blocks of a source that lives.
LEMMA RegistryKept ==
    ASSUME RelayInv, Moves
    PROVE  RegistryInv'
<1>1. ASSUME NEW waiting, Grows(waiting)
      PROVE  RegistryInv'
  <2>1. UNCHANGED <<finalized, evidence, sourceRestarts>> /\ everLocked \subseteq everLocked'
    BY <1>1 DEF Grows, registryVars
  <2>2. SourceInv
    BY DEF RelayInv, WorldInv
  <2>3. ASSUME NEW h, Anchored(h)
        PROVE  Anchored(h)'
    <3>1. /\ Len(blocks) \in Nat /\ Len(blocks') = Len(blocks) + 1
          /\ \A k \in 0 .. Len(blocks) : Sim!Block(k)' = Sim!Block(k)
      BY <1>1, <2>2, BlocksStay
    <3> QED BY <2>1, <2>3, <3>1 DEF Anchored
  <2> QED BY <2>1, <2>3 DEF RelayInv, WorldInv, RegistryInv
<1>2. CASE Forgets
  <2>1. UNCHANGED <<finalized, evidence, everLocked>> /\ sourceRestarts' # 0
    BY <1>2 DEF Forgets, registryVars, RelayInv, WorldInv, SourceInv
  <2> QED BY <2>1 DEF RelayInv, WorldInv, RegistryInv
<1>3. ASSUME NEW b, Anchors(b)
      PROVE  RegistryInv'
  <2>1. /\ b.event \subseteq everLocked /\ UNCHANGED <<everLocked, sourceRestarts>>
        /\ evidence' = evidence \cup {BlsEvidence(b)}
    BY <1>3 DEF Anchors, historyVars
  <2>2. BlsEvidence(b).height = b.height
    BY DEF BlsEvidence, Evidence
  <2>3. /\ \A h \in Heights : finalized'[Source][h] =
                 IF h = b.height THEN [root |-> b.root, event |-> b.event]
                 ELSE finalized[Source][h]
        /\ finalized' = [d \in {Source} |-> [h \in Heights |-> finalized'[Source][h]]]
        /\ sourceRestarts = 0 => /\ \A h : Anchored(h) => Anchored(h)'
                                 /\ Anchored(b.height)'
    BY <1>3, AnchorsOne
  <2>4. \A h \in Heights :
           finalized'[Source][h] # None => finalized'[Source][h].event \subseteq everLocked
    BY <2>1, <2>3 DEF RelayInv, WorldInv, RegistryInv
  <2>5. ASSUME sourceRestarts = 0, NEW e \in evidence'
        PROVE  Anchored(e.height)'
    <3>1. CASE e \in evidence
      <4> DEFINE h == e.height
      <4>1. Anchored(h)
        BY <2>5, <3>1 DEF RelayInv, WorldInv, RegistryInv
      <4> HIDE DEF h
      <4>2. Anchored(h)'
        BY <2>3, <2>5, <4>1
      <4> QED BY <4>2 DEF h
    <3>2. CASE e = BlsEvidence(b)
      BY <2>2, <2>3, <2>5, <3>2
    <3> QED BY <2>1, <3>1, <3>2
  <2> QED BY <2>1, <2>3, <2>4, <2>5 DEF RegistryInv
<1>4. ASSUME UNCHANGED <<finalized, evidence, blocks, sourceRestarts, everLocked>>
      PROVE  RegistryInv'
  BY <1>4 DEF RelayInv, WorldInv, RegistryInv, Anchored, Sim!Block
<1>5. ASSUME NEW q, Releases(q)
      PROVE  RegistryInv'
  BY <1>4, <1>5 DEF Releases, registryVars
<1>6. ASSUME NEW m, NEW receiver, NEW fee, Mints(m, receiver, fee)
      PROVE  RegistryInv'
  BY <1>4, <1>6 DEF Mints, sourceVars, historyVars
<1>7. ASSUME NEW from \in Users, NEW m, Burns(from, m)
      PROVE  RegistryInv'
  BY <1>4, <1>7 DEF Burns, sourceVars, historyVars
<1>8. CASE Rests
  BY <1>4, <1>8 DEF Rests, sourceVars, historyVars
<1> QED BY <1>1, <1>2, <1>3, <1>5, <1>6, <1>7, <1>8 DEF Moves

-----------------------------------------------------------------------------
(* The gateway.                                                            *)

\* The gateway's sums are sums.
LEMMA GatewaySums ==
    /\ Gw!Supply = SumOf(balance, Gw!Holders) /\ (Gw!Supply)' = SumOf(balance', Gw!Holders)
    /\ Gw!InitialSupply = SumOf([a \in Gw!Holders |-> IF a \in Users THEN StartBalance ELSE 0],
                                Gw!Holders)
<1>1. \A f, S : Gw!SumOf(f, S) = SumOf(f, S)
  BY DEF Gw!SumOf, SumOf, Gw!MapThenSumSet, MapThenSumSet, Gw!MapThenFoldSet, MapThenFoldSet
<1> QED BY <1>1 DEF Gw!Supply, Gw!InitialSupply, Gw!Holders

\* One entry of a table of balances changes by so much, and the sum with it.
LEMMA SupplyMoves ==
    ASSUME NEW b \in [Gw!Holders -> Int], NEW h \in Gw!Holders, NEW amount \in Int
    PROVE  /\ [b EXCEPT ![h] = @ + amount] \in [Gw!Holders -> Int]
           /\ SumOf(b, Gw!Holders) \in Int
           /\ SumOf([b EXCEPT ![h] = @ + amount], Gw!Holders) = SumOf(b, Gw!Holders) + amount
<1> DEFINE after == [b EXCEPT ![h] = @ + amount]
           H == Gw!Holders
<1>1. b[h] \in Int /\ b[h] + amount \in Int
  OBVIOUS
<1>2. after \in [H -> Int] /\ after[h] = b[h] + amount
      /\ \A x \in H \ {h} : b[x] = after[x]
  BY <1>1
<1>3. IsFiniteSet(H)
  BY RelayerConstants, FS_AddElement DEF Gw!Holders, Accounts
<1> HIDE DEF after, H
<1>4. \A x \in H : b[x] \in Int /\ after[x] \in Int
  BY <1>2 DEF H
<1>5. SumOf(after, H) = SumOf(b, H) - b[h] + after[h]
  <2>1. h \in H
    BY DEF H
  <2> QED BY <1>2, <1>3, <1>4, <2>1, SumUpdate
<1>6. SumOf(b, H) \in Int
  BY <1>3, <1>4, SumType
<1>7. SumOf(after, H) = SumOf(b, H) + amount
  BY <1>1, <1>2, <1>5, <1>6
<1> QED BY <1>2, <1>6, <1>7 DEF after, H

\* A mint adds to the supply what was locked, whoever gets the fee.
LEMMA CreditAdds ==
    ASSUME NEW b \in [Gw!Holders -> Int], NEW m, IsLock(m), NEW receiver \in Accounts,
           NEW fee \in Nat
    PROVE  /\ Gw!Credit(b, m, receiver, fee) \in [Gw!Holders -> Int]
           /\ SumOf(Gw!Credit(b, m, receiver, fee), Gw!Holders)
                 = SumOf(b, Gw!Holders) + m.amount
<1> DEFINE h == m.recipient
           due == m.amount - fee
           paid == [b EXCEPT ![h] = @ + due]
           both == [paid EXCEPT ![receiver] = @ + fee]
<1>1. /\ h \in Gw!Holders /\ receiver \in Gw!Holders /\ due \in Int /\ m.amount \in Int
      /\ due + fee = m.amount
  BY DEF IsLock, Gw!Holders, Accounts
<1>2. Gw!Credit(b, m, receiver, fee) = IF fee > 0 THEN both ELSE paid
  BY DEF Gw!Credit
<1> HIDE DEF h, due
<1>3. /\ paid \in [Gw!Holders -> Int] /\ SumOf(b, Gw!Holders) \in Int
      /\ SumOf(paid, Gw!Holders) = SumOf(b, Gw!Holders) + due
  <2>1. /\ [b EXCEPT ![h] = @ + due] \in [Gw!Holders -> Int] /\ SumOf(b, Gw!Holders) \in Int
        /\ SumOf([b EXCEPT ![h] = @ + due], Gw!Holders) = SumOf(b, Gw!Holders) + due
    <3>1. h \in Gw!Holders /\ due \in Int
      BY <1>1
    <3> HIDE DEF paid
    <3> QED BY <3>1, SupplyMoves
  <2> QED BY <2>1
<1> HIDE DEF paid
<1>4. both \in [Gw!Holders -> Int] /\ SumOf(both, Gw!Holders) = SumOf(paid, Gw!Holders) + fee
  <2>1. paid \in [Gw!Holders -> Int] /\ receiver \in Gw!Holders /\ fee \in Int
    BY <1>1, <1>3
  <2>2. /\ [paid EXCEPT ![receiver] = @ + fee] \in [Gw!Holders -> Int]
        /\ SumOf([paid EXCEPT ![receiver] = @ + fee], Gw!Holders)
              = SumOf(paid, Gw!Holders) + fee
    <3> HIDE DEF both
    <3> QED BY <2>1, SupplyMoves
  <2> QED BY <2>2
<1> HIDE DEF both
<1>5. CASE fee > 0
  BY <1>1, <1>2, <1>3, <1>4, <1>5
<1>6. CASE ~(fee > 0)
  <2>1. due = m.amount
    BY <1>1, <1>6
  <2> QED BY <1>2, <1>3, <1>6, <2>1
<1> QED BY <1>5, <1>6

\* The mark of a route only rises.
MarksRise == /\ highWater' \in [Gw!Keys -> Int]
             /\ \A k \in Gw!Keys : highWater[k] <= highWater'[k]

\* Raising one mark above what it held takes no message back.
LEMMA MarkRaised ==
    ASSUME highWater \in [Gw!Keys -> Int], NEW m, Gw!KeyOf(m) \in Gw!Keys, m.nonce \in Int,
           ~Gw!IsProcessed(m), highWater' = [highWater EXCEPT ![Gw!KeyOf(m)] = m.nonce]
    PROVE  MarksRise /\ (Gw!IsProcessed(m))'
<1> DEFINE key == Gw!KeyOf(m)
<1>1. highWater[key] \in Int /\ m.nonce > highWater[key]
  BY DEF Gw!IsProcessed
<1>2. /\ highWater' \in [Gw!Keys -> Int] /\ highWater'[key] = m.nonce
      /\ \A k \in Gw!Keys : k # key => highWater'[k] = highWater[k]
  OBVIOUS
<1>3. \A k \in Gw!Keys : highWater[k] <= highWater'[k]
  BY <1>1, <1>2
<1> QED BY <1>2, <1>3 DEF MarksRise, Gw!IsProcessed

\* The last entry of a list is the last term of the sum over it.
LEMMA LastTerm ==
    ASSUME NEW s, IsSeq(s), NEW e, NEW f, NEW g,
           \A i \in DOMAIN s : f[i] \in Int /\ g[i] = f[i],
           g[Len(s) + 1] \in Int
    PROVE  /\ SumOf(f, DOMAIN s) \in Int
           /\ SumOf(g, DOMAIN Append(s, e)) = SumOf(f, DOMAIN s) + g[Len(s) + 1]
<1>1. /\ Len(s) \in Nat /\ DOMAIN s = 1 .. Len(s)
      /\ DOMAIN Append(s, e) = 1 .. Len(s) + 1
  BY RangeFinite, AppendAtEnd
<1> DEFINE n == Len(s)
<1>2. n \in Nat /\ \A i \in 1 .. n : f[i] \in Int /\ g[i] = f[i]
  BY <1>1
<1>3. g[n + 1] \in Int
  OBVIOUS
<1> HIDE DEF n
<1>4. SumOf(g, 1 .. (n + 1)) = SumOf(f, 1 .. n) + g[n + 1]
  BY <1>2, <1>3, SumNext
<1>5. IsFiniteSet(1 .. n)
  BY <1>2, FS_Interval
<1>6. SumOf(f, 1 .. n) \in Int
  BY <1>2, <1>5, SumType
<1> QED BY <1>1, <1>4, <1>6 DEF n

\* What is on the books is whole.
LEMMA BookTypes ==
    ASSUME RelayInv
    PROVE  /\ Burned \in Int /\ MintedAmount \in Int
           /\ Gw!Supply \in Int /\ Gw!InitialSupply \in Int
           /\ \A i \in DOMAIN mints : mints[i].msg.amount \in Nat
<1>1. /\ IsSeq(mints) /\ IsSeq(burns) /\ balance \in [Gw!Holders -> Int]
      /\ \A i \in DOMAIN mints : mints[i].msg \in everLocked
      /\ \A i \in DOMAIN burns : burns[i].amount \in Nat
  BY DEF RelayInv, WorldInv, GatewayInv
<1>2. \A i \in DOMAIN mints : mints[i].msg.amount \in Nat
  BY <1>1 DEF RelayInv, WorldInv, SourceInv, IsLock
<1>3. IsFiniteSet(DOMAIN mints) /\ IsFiniteSet(DOMAIN burns)
  BY <1>1, RangeFinite, FS_Interval
<1>4. Burned \in Int
  <2> DEFINE f == Gw!AmountsOf(burns)
  <2>1. \A i \in DOMAIN burns : f[i] \in Int
    BY <1>1 DEF Gw!AmountsOf
  <2> HIDE DEF f
  <2>2. SumOf(f, DOMAIN burns) \in Int
    BY <1>3, <2>1, SumType
  <2> QED BY <2>2 DEF Burned, f
<1>5. MintedAmount \in Int
  <2> DEFINE f == Gw!LockedAmounts
  <2>1. \A i \in DOMAIN mints : f[i] \in Int
    BY <1>2 DEF Gw!LockedAmounts
  <2> HIDE DEF f
  <2>2. SumOf(f, DOMAIN mints) \in Int
    BY <1>3, <2>1, SumType
  <2> QED BY <2>2 DEF MintedAmount, f
<1>6. IsFiniteSet(Gw!Holders)
  BY RelayerConstants, FS_AddElement DEF Gw!Holders, Accounts
<1>7. Gw!Supply \in Int
  <2>1. \A h \in Gw!Holders : balance[h] \in Int
    BY <1>1
  <2> QED BY <1>6, <2>1, SumType, GatewaySums
<1>8. Gw!InitialSupply \in Int
  <2> DEFINE f == [a \in Gw!Holders |-> IF a \in Users THEN StartBalance ELSE 0]
  <2>1. \A h \in Gw!Holders : f[h] \in Int
    BY RelayerConstants
  <2> HIDE DEF f
  <2>2. SumOf(f, Gw!Holders) \in Int
    BY <1>6, <2>1, SumType
  <2> QED BY <2>2, GatewaySums DEF f
<1> QED BY <1>2, <1>4, <1>5, <1>7, <1>8

\* A mint settles one locked message more and adds its amount to the supply.
LEMMA MintKeeps ==
    ASSUME RelayInv, NEW m, NEW receiver, NEW fee, Mints(m, receiver, fee)
    PROVE  /\ GatewayInv' /\ MarksRise /\ Burned' = Burned
           /\ (Gw!Settled)' = Gw!Settled \cup {m}
<1> DEFINE entry == [msg |-> m, receiver |-> receiver, fee |-> fee]
<1>1. /\ IsLock(m) /\ m \in everLocked /\ receiver \in Accounts /\ fee \in Nat
      /\ m \notin processed /\ processed' = processed \cup {m} /\ ~Gw!IsProcessed(m)
      /\ highWater' = [highWater EXCEPT ![Gw!KeyOf(m)] = m.nonce]
      /\ balance' = Gw!Credit(balance, m, receiver, fee)
      /\ mints' = Append(mints, entry)
      /\ UNCHANGED <<outbound, burns, everLocked>>
  BY DEF Mints, historyVars, RelayInv, WorldInv, SourceInv
<1>2. /\ highWater \in [Gw!Keys -> Int] /\ balance \in [Gw!Holders -> Int]
      /\ IsSeq(mints) /\ IsSeq(burns)
      /\ \A i \in DOMAIN mints : mints[i].msg \in everLocked /\ mints[i].msg \in processed
      /\ \A i, j \in DOMAIN mints : mints[i].msg = mints[j].msg => i = j
      /\ Gw!Supply + Burned = Gw!InitialSupply + MintedAmount
  BY DEF RelayInv, WorldInv, GatewayInv
<1>3. entry.msg = m
  OBVIOUS
<1> HIDE DEF entry
<1>4. /\ IsSeq(mints') /\ DOMAIN mints = 1 .. Len(mints) /\ Len(mints) \in Nat
      /\ DOMAIN mints' = 1 .. Len(mints) + 1 /\ mints'[Len(mints) + 1] = entry
      /\ \A i \in 1 .. Len(mints) : mints'[i] = mints[i]
  BY <1>1, <1>2, AppendAtEnd, RangeFinite
<1>5. MarksRise
  <2>1. Gw!KeyOf(m) \in Gw!Keys /\ m.nonce \in Int
    BY <1>1 DEF IsLock, Gw!KeyOf, Gw!Keys, Accounts
  <2> QED BY <1>1, <1>2, <2>1, MarkRaised
<1>6. balance' \in [Gw!Holders -> Int] /\ (Gw!Supply)' = Gw!Supply + m.amount
  <2> DEFINE after == Gw!Credit(balance, m, receiver, fee)
  <2>1. after \in [Gw!Holders -> Int] /\ SumOf(after, Gw!Holders) = SumOf(balance, Gw!Holders) + m.amount
    BY <1>1, <1>2, CreditAdds
  <2> HIDE DEF after
  <2> QED BY <1>1, <2>1, GatewaySums DEF after
<1>7. MintedAmount' = MintedAmount + m.amount
  <2> DEFINE f == Gw!LockedAmounts
             g == [i \in DOMAIN mints' |-> mints'[i].msg.amount]
  <2>1. MintedAmount' = SumOf(g, DOMAIN Append(mints, entry))
    BY <1>1 DEF MintedAmount, Gw!LockedAmounts
  <2>2. \A i \in DOMAIN mints : f[i] \in Int /\ g[i] = f[i]
    BY <1>4, BookTypes DEF Gw!LockedAmounts
  <2>3. g[Len(mints) + 1] = m.amount /\ m.amount \in Int
    BY <1>1, <1>3, <1>4 DEF IsLock
  <2> HIDE DEF f, g
  <2>4. SumOf(g, DOMAIN Append(mints, entry)) = SumOf(f, DOMAIN mints) + g[Len(mints) + 1]
    BY <1>2, <2>2, <2>3, LastTerm
  <2> QED BY <2>1, <2>3, <2>4 DEF MintedAmount, f
<1>8. (Gw!Supply)' + Burned' = Gw!InitialSupply + MintedAmount' /\ Burned' = Burned
  <2>1. Burned' = Burned
    BY <1>1 DEF Burned, Gw!AmountsOf
  <2>2. m.amount \in Int
    BY <1>1 DEF IsLock
  <2> QED BY <1>2, <1>6, <1>7, <2>1, <2>2, BookTypes
<1>9. \A i \in DOMAIN mints' : mints'[i].msg \in everLocked' /\ mints'[i].msg \in processed'
  BY <1>1, <1>2, <1>3, <1>4
<1>10. \A i, j \in DOMAIN mints' : mints'[i].msg = mints'[j].msg => i = j
  <2>1. \A i \in 1 .. Len(mints) : mints'[i].msg # m
    BY <1>1, <1>2, <1>4
  <2>2. \A i, j \in 1 .. Len(mints) : mints'[i].msg = mints'[j].msg => i = j
    BY <1>2, <1>4
  <2>3. \A i \in 1 .. Len(mints) + 1 : i = Len(mints) + 1 \/ i \in 1 .. Len(mints)
    BY <1>4
  <2> QED BY <1>3, <1>4, <2>1, <2>2, <2>3
<1>11. (Gw!Settled)' = Gw!Settled \cup {m}
  <2>1. \A i \in 1 .. Len(mints) + 1 : i = Len(mints) + 1 \/ i \in 1 .. Len(mints)
    BY <1>4
  <2>2. Len(mints) + 1 \in 1 .. Len(mints) + 1 /\ 1 .. Len(mints) \subseteq 1 .. Len(mints) + 1
    BY <1>4
  <2> QED BY <1>3, <1>4, <2>1, <2>2 DEF Gw!Settled
<1>12. IsSeq(burns') /\ outbound' \in [{Target, Source} \X Accounts -> Int]
       /\ \A i \in DOMAIN burns' : burns'[i].amount \in Nat /\ burns'[i].sender \in Users
  BY <1>1 DEF RelayInv, WorldInv, GatewayInv
<1> QED BY <1>4, <1>5, <1>6, <1>8, <1>9, <1>10, <1>11, <1>12 DEF GatewayInv, MarksRise

\* A burn takes what it records off its holder and off the supply.
LEMMA BurnKeeps ==
    ASSUME RelayInv, NEW from \in Users, NEW m, Burns(from, m)
    PROVE  /\ GatewayInv' /\ MarksRise /\ Range(burns') = Range(burns) \cup {m}
           /\ Burned' \in Int /\ Burned <= Burned'
<1>1. /\ m.amount \in Nat /\ m.source = Home /\ m.target = Source /\ m.sender = from
      /\ m.nonce = outbound[<<Source, from>>] /\ ~Gw!IsProcessed(m)
      /\ balance' = [balance EXCEPT ![from] = @ - m.amount]
      /\ outbound' = [outbound EXCEPT ![<<Source, from>>] = @ + 1]
      /\ highWater' = [highWater EXCEPT ![Gw!KeyOf(m)] = m.nonce]
      /\ burns' = Append(burns, m)
      /\ UNCHANGED <<processed, mints, everLocked>>
  BY DEF Burns, historyVars
<1>2. /\ highWater \in [Gw!Keys -> Int] /\ outbound \in [{Target, Source} \X Accounts -> Int]
      /\ balance \in [Gw!Holders -> Int] /\ IsSeq(burns)
      /\ \A i \in DOMAIN burns : burns[i].amount \in Nat /\ burns[i].sender \in Users
      /\ Gw!Supply + Burned = Gw!InitialSupply + MintedAmount
  BY DEF RelayInv, WorldInv, GatewayInv
<1>3. from \in Accounts /\ from \in Gw!Holders /\ <<Source, from>> \in {Target, Source} \X Accounts
  BY DEF Accounts, Gw!Holders
<1>4. outbound[<<Source, from>>] \in Int /\ outbound' \in [{Target, Source} \X Accounts -> Int]
  BY <1>1, <1>2, <1>3
<1>5. MarksRise
  <2>1. Gw!KeyOf(m) \in Gw!Keys /\ m.nonce \in Int
    BY <1>1, <1>3, <1>4 DEF Gw!KeyOf, Gw!Keys
  <2> QED BY <1>1, <1>2, <2>1, MarkRaised
<1>6. /\ IsSeq(burns') /\ DOMAIN burns = 1 .. Len(burns) /\ Len(burns) \in Nat
      /\ DOMAIN burns' = 1 .. Len(burns) + 1 /\ burns'[Len(burns) + 1] = m
      /\ \A i \in 1 .. Len(burns) : burns'[i] = burns[i]
      /\ Range(burns') = Range(burns) \cup {m}
  BY <1>1, <1>2, AppendAtEnd, RangeFinite
<1>7. balance' \in [Gw!Holders -> Int] /\ (Gw!Supply)' = Gw!Supply + (-m.amount)
  <2> DEFINE less == -m.amount
             after == [balance EXCEPT ![from] = @ + less]
  <2>1. less \in Int /\ balance[from] \in Int /\ balance[from] - m.amount = balance[from] + less
    BY <1>1, <1>2, <1>3
  <2>2. balance' = after
    BY <1>1, <1>2, <1>3, <2>1
  <2> HIDE DEF less
  <2>3. /\ [balance EXCEPT ![from] = @ + less] \in [Gw!Holders -> Int]
        /\ SumOf([balance EXCEPT ![from] = @ + less], Gw!Holders)
              = SumOf(balance, Gw!Holders) + less
    <3>1. balance \in [Gw!Holders -> Int] /\ from \in Gw!Holders /\ less \in Int
      BY <1>2, <1>3, <2>1
    <3> HIDE DEF after
    <3> QED BY <3>1, SupplyMoves
  <2>4. after \in [Gw!Holders -> Int]
        /\ SumOf(after, Gw!Holders) = SumOf(balance, Gw!Holders) + less
    BY <2>3
  <2> HIDE DEF after
  <2> QED BY <2>2, <2>4, GatewaySums DEF less
<1>8. Burned' = Burned + m.amount
  <2> DEFINE f == Gw!AmountsOf(burns)
             g == [i \in DOMAIN burns' |-> burns'[i].amount]
  <2>1. Burned' = SumOf(g, DOMAIN Append(burns, m))
    BY <1>1 DEF Burned, Gw!AmountsOf
  <2>2. \A i \in DOMAIN burns : f[i] \in Int /\ g[i] = f[i]
    BY <1>2, <1>6 DEF Gw!AmountsOf
  <2>3. g[Len(burns) + 1] = m.amount /\ m.amount \in Int
    BY <1>1, <1>6
  <2> HIDE DEF f, g
  <2>4. SumOf(g, DOMAIN Append(burns, m)) = SumOf(f, DOMAIN burns) + g[Len(burns) + 1]
    BY <1>2, <2>2, <2>3, LastTerm
  <2> QED BY <2>1, <2>3, <2>4 DEF Burned, f
<1>9. (Gw!Supply)' + Burned' = Gw!InitialSupply + MintedAmount'
  <2>1. MintedAmount' = MintedAmount
    BY <1>1 DEF MintedAmount, Gw!LockedAmounts
  <2>2. m.amount \in Int
    BY <1>1
  <2> QED BY <1>2, <1>7, <1>8, <2>1, <2>2, BookTypes
<1>10. \A i \in DOMAIN burns' : burns'[i].amount \in Nat /\ burns'[i].sender \in Users
  <2>1. \A i \in 1 .. Len(burns) + 1 : i = Len(burns) + 1 \/ i \in 1 .. Len(burns)
    BY <1>6
  <2> QED BY <1>1, <1>2, <1>6, <2>1
<1>11. /\ IsSeq(mints')
       /\ \A i \in DOMAIN mints' : mints'[i].msg \in everLocked' /\ mints'[i].msg \in processed'
       /\ \A i, j \in DOMAIN mints' : mints'[i].msg = mints'[j].msg => i = j
  BY <1>1 DEF RelayInv, WorldInv, GatewayInv
<1>12. Burned' \in Int /\ Burned <= Burned'
  BY <1>1, <1>8, BookTypes
<1> QED BY <1>4, <1>5, <1>6, <1>7, <1>9, <1>10, <1>11, <1>12 DEF GatewayInv, MarksRise

\* A step that leaves the gateway alone leaves its books alone.
GatewayRests == UNCHANGED <<highWater, outbound, processed, balance, mints, burns>>

\* Where the gateway rests, its books stay as they are.
LEMMA RestKeeps ==
    ASSUME RelayInv, GatewayRests, everLocked \subseteq everLocked'
    PROVE  /\ GatewayInv' /\ MarksRise /\ Burned' = Burned
           /\ (Gw!Settled)' = Gw!Settled /\ Range(burns') = Range(burns)
<1>1. UNCHANGED <<highWater, outbound, processed, balance, mints, burns>>
  BY DEF GatewayRests
<1>2. /\ highWater \in [Gw!Keys -> Int] /\ outbound \in [{Target, Source} \X Accounts -> Int]
      /\ balance \in [Gw!Holders -> Int]
      /\ IsSeq(mints) /\ IsSeq(burns)
      /\ \A i \in DOMAIN mints : mints[i].msg \in everLocked /\ mints[i].msg \in processed
      /\ \A i, j \in DOMAIN mints : mints[i].msg = mints[j].msg => i = j
      /\ \A i \in DOMAIN burns : burns[i].amount \in Nat /\ burns[i].sender \in Users
      /\ Gw!Supply + Burned = Gw!InitialSupply + MintedAmount
  BY DEF RelayInv, WorldInv, GatewayInv
<1>3. (Gw!Supply)' = Gw!Supply
  BY <1>1, GatewaySums
<1>4. Burned' = Burned /\ MintedAmount' = MintedAmount
  BY <1>1 DEF Burned, MintedAmount, Gw!AmountsOf, Gw!LockedAmounts
<1>5. \A i \in DOMAIN mints' : mints'[i].msg \in everLocked' /\ mints'[i].msg \in processed'
  BY <1>1, <1>2
<1>6. MarksRise
  <2>1. \A k \in Gw!Keys : highWater[k] \in Int
    BY <1>2
  <2> QED BY <1>1, <1>2, <2>1 DEF MarksRise
<1>7. (Gw!Settled)' = Gw!Settled
  BY <1>1 DEF Gw!Settled
<1> QED BY <1>1, <1>2, <1>3, <1>4, <1>5, <1>6, <1>7 DEF GatewayInv

-----------------------------------------------------------------------------
(* What the source releases.                                               *)

\* What the source has on record as released is no more than what was burned:
\* every release is for a burn of its own.
LEMMA UnlockedIsBurned ==
    ASSUME RelayInv
    PROVE  /\ SumOf([q \in burnUnlocks |-> q.amount], burnUnlocks) \in Nat
           /\ SumOf([q \in burnUnlocks |-> q.amount], burnUnlocks) <= Burned
<1> DEFINE At(q) == CHOOSE i \in DOMAIN burns : burns[i] = q.id
           f == [q \in burnUnlocks |-> q.amount]
           g == Gw!AmountsOf(burns)
           h == [q \in burnUnlocks |-> At(q)]
           S == burnUnlocks
           T == DOMAIN burns
<1>1. IsFiniteSet(S)
  BY DEF RelayInv, WorldInv, ReleaseInv
<1>2. IsFiniteSet(T) /\ \A y \in T : g[y] \in Nat
  <2>1. IsSeq(burns) /\ \A i \in DOMAIN burns : burns[i].amount \in Nat
    BY DEF RelayInv, WorldInv, GatewayInv
  <2>2. IsFiniteSet(T)
    BY <2>1, RangeFinite, FS_Interval
  <2> QED BY <2>1, <2>2 DEF Gw!AmountsOf
<1>3. \A q \in S : At(q) \in T /\ burns[At(q)] = q.id
  <2>1. \A q \in S : \E i \in DOMAIN burns : burns[i] = q.id
    BY DEF RelayInv, WorldInv, ReleaseInv, Range
  <2> QED BY <2>1
<1>4. \A q \in S : q = UnlockRequest(q.id) /\ q.amount = q.id.amount
  BY DEF RelayInv, WorldInv, ReleaseInv, UnlockRequest
<1>5. \A q \in S : h[q] \in T /\ burns[h[q]] = q.id
  BY <1>3
<1>6. \A q \in S : f[q] = g[h[q]]
  BY <1>4, <1>5 DEF Gw!AmountsOf
<1>7. \A q, u \in S : h[q] = h[u] => q = u
  <2> HIDE DEF h
  <2> QED BY <1>4, <1>5
<1>8. SumOf(f, S) \in Nat
  <2>1. \A q \in S : f[q] \in Nat
    BY <1>2, <1>5, <1>6
  <2> HIDE DEF f, S
  <2> QED BY <1>1, <2>1, SumNat
<1> HIDE DEF f, g, h, S, T
<1>9. SumOf(f, S) <= SumOf(g, T)
  BY <1>1, <1>2, <1>5, <1>6, <1>7, SumInto
<1>10. SumOf(g, T) = Burned
  BY DEF g, T, Burned
<1> QED BY <1>8, <1>9, <1>10 DEF f, S

\* As often more, and once more.
LEMMA Times ==
    ASSUME NEW k \in Nat, NEW x \in Int, NEW y \in Int, x <= y
    PROVE  /\ k * x \in Int /\ k * y \in Int /\ k * x <= k * y
           /\ (k + 1) * x = k * x + x
<1>1. k * (y - x) >= 0 /\ k * (y - x) = k * y - k * x
  OBVIOUS
<1> QED BY <1>1

\* What is added to an account the counter may cut, never exceed.
LEMMA ReleaseKeeps ==
    ASSUME RelayInv, NEW q, Releases(q)
    PROVE  ReleaseInv'
<1>1. /\ q = UnlockRequest(q.id) /\ q.id \in Range(burns) /\ \A u \in burnUnlocks : u.id # q.id
      /\ released' = [released EXCEPT ![q.recipient] = Sim!Saturating(@ + q.amount)]
      /\ burnUnlocks' = burnUnlocks \cup {q} /\ burns' = burns
      /\ everReleased' = everReleased + q.amount /\ sourceRestarts' = sourceRestarts
  BY DEF Releases, gatewayVars
<1>2. /\ IsFiniteSet(burnUnlocks) /\ released \in [Users -> Nat]
      /\ \A u \in burnUnlocks : u = UnlockRequest(u.id) /\ u.id \in Range(burns)
      /\ SumOf(released, Users) <= SumOf([u \in burnUnlocks |-> u.amount], burnUnlocks)
  BY DEF RelayInv, WorldInv, ReleaseInv
<1>3. \A m \in Range(burns) : m.amount \in Nat /\ m.sender \in Users
  BY RangeFinite DEF RelayInv, WorldInv, GatewayInv, Range
<1>4. \A u \in burnUnlocks \cup {q} : u.amount \in Nat /\ u.recipient \in Users
  <2> SUFFICES ASSUME NEW u \in burnUnlocks \cup {q} PROVE u.amount \in Nat /\ u.recipient \in Users
    OBVIOUS
  <2>1. u = UnlockRequest(u.id) /\ u.id \in Range(burns)
    BY <1>1, <1>2
  <2>2. UnlockRequest(u.id).amount = u.id.amount /\ UnlockRequest(u.id).recipient = u.id.sender
    BY DEF UnlockRequest
  <2>3. u.amount = u.id.amount /\ u.recipient = u.id.sender
    BY <2>1, <2>2
  <2> QED BY <1>3, <2>1, <2>3
<1> DEFINE who == q.recipient
           amount == q.amount
           new == Sim!Saturating(released[who] + amount)
<1>5. who \in Users /\ amount \in Nat
  BY <1>4
<1>6. new \in Nat /\ new <= released[who] + amount /\ released[who] \in Nat
  <2>1. released[who] \in Nat
    BY <1>2, <1>5
  <2> HIDE DEF who, amount
  <2> QED BY <1>5, <2>1, RelayerConstants DEF Sim!Saturating
<1>7. released' \in [Users -> Nat] /\ released'[who] = new
      /\ \A a \in Users \ {who} : released[a] = released'[a]
  BY <1>1, <1>2, <1>5, <1>6
<1> HIDE DEF who, amount, new
<1>8. /\ SumOf(released', Users) = SumOf(released, Users) - released[who] + released'[who]
      /\ SumOf(released, Users) \in Int
  <2>1. \A a \in Users : released[a] \in Int /\ released'[a] \in Int
    BY <1>2, <1>7
  <2>2. IsFiniteSet(Users)
    BY RelayerConstants
  <2>3. SumOf(released', Users) = SumOf(released, Users) - released[who] + released'[who]
    BY <1>5, <1>7, <2>1, <2>2, SumUpdate
  <2>4. SumOf(released, Users) \in Int
    BY <2>1, <2>2, SumType
  <2> QED BY <2>3, <2>4
<1> DEFINE U == burnUnlocks
           f == [u \in U |-> u.amount]
           g == [u \in U \cup {q} |-> u.amount]
<1>9. q \notin U /\ IsFiniteSet(U)
  BY <1>1, <1>2
<1>10. SumOf(g, U \cup {q}) = SumOf(f, U) + amount /\ SumOf(f, U) \in Int
  <2>1. (\A u \in U : g[u] = f[u] /\ f[u] \in Int /\ g[u] \in Int) /\ g[q] = amount
    BY <1>4 DEF amount
  <2> HIDE DEF f, g, U
  <2>2. SumOf(f, U) = SumOf(g, U)
    BY <1>9, <2>1, SumSame
  <2>3. SumOf(g, U \cup {q}) = SumOf(g, U) + g[q]
    <3>1. g[q] \in Int
      BY <1>5, <2>1
    <3> QED BY <1>9, <2>1, <3>1, SumAdd
  <2>4. SumOf(f, U) \in Int
    BY <1>9, <2>1, SumType
  <2> QED BY <2>1, <2>2, <2>3, <2>4
<1>11. SumOf(released', Users) <= SumOf(g, U \cup {q})
  <2>1. SumOf(released, Users) <= SumOf(f, U)
    BY <1>2
  <2> HIDE DEF f, g, U
  <2> QED BY <1>5, <1>6, <1>7, <1>8, <1>10, <2>1
<1>12. everReleased' \in Nat /\ everReleased' <= sourceRestarts * Burned + SumOf(g, U \cup {q})
  <2>1. everReleased \in Nat /\ everReleased <= sourceRestarts * Burned + SumOf(f, U)
    BY DEF RelayInv, WorldInv, ReleaseInv
  <2>2. everReleased' = everReleased + amount
    BY <1>1 DEF amount
  <2>3. sourceRestarts * Burned \in Int
    BY Times, BookTypes DEF RelayInv, WorldInv, SourceInv
  <2> HIDE DEF f, g, U
  <2> QED BY <1>5, <1>10, <2>1, <2>2, <2>3
<1>13. sourceRestarts' * Burned' = sourceRestarts * Burned
  BY <1>1 DEF Burned, Gw!AmountsOf
<1>14. IsFiniteSet(burnUnlocks')
  BY <1>1, <1>2, FS_AddElement
<1>15. \A u \in burnUnlocks' : u = UnlockRequest(u.id) /\ u.id \in Range(burns')
  BY <1>1, <1>2
<1>16. /\ SumOf(released', Users) <= SumOf([u \in burnUnlocks' |-> u.amount], burnUnlocks')
       /\ everReleased' <= sourceRestarts' * Burned'
                              + SumOf([u \in burnUnlocks' |-> u.amount], burnUnlocks')
  BY <1>1, <1>11, <1>12, <1>13
<1> QED BY <1>7, <1>12, <1>14, <1>15, <1>16 DEF ReleaseInv

\* Burns only add to what there is to release.
LEMMA ReleaseRests ==
    ASSUME RelayInv, UNCHANGED <<burnUnlocks, released, sourceRestarts, everReleased>>,
           Range(burns) \subseteq Range(burns'), Burned' \in Int, Burned <= Burned'
    PROVE  ReleaseInv'
<1> DEFINE f == [q \in burnUnlocks |-> q.amount]
           U == burnUnlocks
<1>1. /\ IsFiniteSet(U) /\ released \in [Users -> Nat]
      /\ \A q \in U : q = UnlockRequest(q.id) /\ q.id \in Range(burns')
      /\ SumOf(released, Users) <= SumOf(f, U)
      /\ everReleased \in Nat /\ everReleased <= sourceRestarts * Burned + SumOf(f, U)
  BY DEF RelayInv, WorldInv, ReleaseInv
<1>2. /\ sourceRestarts * Burned \in Int /\ sourceRestarts * Burned' \in Int
      /\ sourceRestarts * Burned <= sourceRestarts * Burned'
  BY Times, BookTypes DEF RelayInv, WorldInv, SourceInv
<1>3. SumOf(f, U) \in Nat
  BY UnlockedIsBurned
<1>4. everReleased <= sourceRestarts * Burned' + SumOf(f, U)
  <2> HIDE DEF f, U
  <2> QED BY <1>1, <1>2, <1>3
<1> QED BY <1>1, <1>4 DEF ReleaseInv

\* A source that starts again has released nothing in this life, and in the one
\* that ended at most what was burned.
LEMMA ReleaseForgotten ==
    ASSUME RelayInv, Forgets
    PROVE  ReleaseInv'
<1>1. /\ burnUnlocks' = {} /\ released' = [a \in Users |-> 0]
      /\ sourceRestarts' = sourceRestarts + 1 /\ UNCHANGED <<burns, everReleased>>
  BY DEF Forgets, gatewayVars
<1>2. released' \in [Users -> Nat] /\ \A a \in Users : released'[a] = 0
  BY <1>1
<1>3. SumOf(released', Users) = 0
  BY <1>2, SumZero, RelayerConstants
<1>4. SumOf([q \in {} |-> q.amount], {}) = 0
  BY SumEmpty
<1>5. everReleased \in Nat /\ everReleased <= (sourceRestarts + 1) * Burned
  <2> DEFINE unlocked == SumOf([q \in burnUnlocks |-> q.amount], burnUnlocks)
  <2>1. /\ everReleased \in Nat /\ everReleased <= sourceRestarts * Burned + unlocked
        /\ sourceRestarts \in Nat
    BY DEF RelayInv, WorldInv, ReleaseInv, SourceInv
  <2>2. unlocked \in Nat /\ unlocked <= Burned /\ Burned \in Int
    BY UnlockedIsBurned, BookTypes
  <2> HIDE DEF unlocked
  <2>3. sourceRestarts * Burned \in Int
        /\ (sourceRestarts + 1) * Burned = sourceRestarts * Burned + Burned
    BY <2>1, <2>2, Times
  <2> QED BY <2>1, <2>2, <2>3
<1>6. sourceRestarts' * Burned' = (sourceRestarts + 1) * Burned
  BY <1>1 DEF Burned, Gw!AmountsOf
<1>7. (sourceRestarts + 1) * Burned \in Int
  <2>1. sourceRestarts + 1 \in Nat /\ Burned \in Int
    BY BookTypes DEF RelayInv, WorldInv, SourceInv
  <2> QED BY <2>1, Times
<1>8. everReleased' <= sourceRestarts' * Burned' + 0
  BY <1>1, <1>5, <1>6, <1>7
<1> QED BY <1>1, <1>2, <1>3, <1>4, <1>5, <1>8, FS_EmptySet DEF ReleaseInv

-----------------------------------------------------------------------------
(* Nothing the relayer relies on is taken back while the source lives.     *)

Onward ==
    /\ everLocked \subseteq everLocked' /\ Range(burns) \subseteq Range(burns')
    /\ Gw!Settled \subseteq (Gw!Settled)' /\ MarksRise
    /\ sourceRestarts' = 0 =>
          /\ sourceRestarts = 0 /\ Len(blocks) \in Nat /\ Len(blocks') \in Nat
          /\ Len(blocks) <= Len(blocks')
          /\ \A h \in 0 .. Len(blocks) : Sim!Block(h)' = Sim!Block(h)
          /\ \A h : Anchored(h) => Anchored(h)'
          /\ burnUnlocks \subseteq burnUnlocks'

\* A move keeps what holds of the two chains and takes nothing back that the
\* relayer may rely on.
LEMMA WorldMoves ==
    ASSUME RelayInv, Moves
    PROVE  WorldInv' /\ Onward
<1>1. SourceInv' /\ RegistryInv'
  BY SourceKept, RegistryKept
<1>2. Len(blocks) \in Nat /\ sourceRestarts \in Nat
  BY RangeFinite DEF RelayInv, WorldInv, SourceInv
<1>3. ASSUME NEW waiting, Grows(waiting)
      PROVE  WorldInv' /\ Onward
  <2>1. /\ UNCHANGED <<burnUnlocks, released, sourceRestarts, everReleased, finalized>>
        /\ GatewayRests
        /\ everLocked \subseteq everLocked'
    BY <1>3 DEF Grows, registryVars, gatewayVars, GatewayRests
  <2>2. /\ Len(blocks') = Len(blocks) + 1
        /\ \A h \in 0 .. Len(blocks) : Sim!Block(h)' = Sim!Block(h)
    BY <1>3, BlocksStay DEF RelayInv, WorldInv
  <2>3. \A h : Anchored(h) => Anchored(h)'
    BY <1>2, <2>1, <2>2 DEF Anchored
  <2>4. /\ GatewayInv' /\ MarksRise /\ (Gw!Settled)' = Gw!Settled /\ Range(burns') = Range(burns)
        /\ Burned' \in Int /\ Burned <= Burned'
    BY <2>1, RestKeeps, BookTypes
  <2>5. ReleaseInv'
    BY <2>1, <2>4, ReleaseRests
  <2> QED BY <1>1, <1>2, <2>1, <2>2, <2>3, <2>4, <2>5 DEF WorldInv, Onward
<1>4. CASE Forgets
  <2>1. sourceRestarts' # 0 /\ everLocked' = everLocked /\ GatewayRests
    BY <1>2, <1>4 DEF Forgets, gatewayVars, GatewayRests
  <2>2. /\ GatewayInv' /\ MarksRise /\ (Gw!Settled)' = Gw!Settled /\ Range(burns') = Range(burns)
    BY <2>1, RestKeeps
  <2> QED BY <1>1, <1>4, <2>1, <2>2, ReleaseForgotten DEF WorldInv, Onward
<1>5. ASSUME UNCHANGED <<blocks, sourceRestarts, everLocked>>
      PROVE  /\ sourceRestarts' = 0 => sourceRestarts = 0
             /\ Len(blocks') = Len(blocks) /\ \A h : Sim!Block(h)' = Sim!Block(h)
             /\ finalized' = finalized => \A h : Anchored(h) => Anchored(h)'
  BY <1>5 DEF Sim!Block, Anchored
<1>6. ASSUME NEW b, Anchors(b)
      PROVE  WorldInv' /\ Onward
  <2>1. /\ UNCHANGED <<blocks, burnUnlocks, released, sourceRestarts, everLocked, everReleased>>
        /\ GatewayRests
    BY <1>6 DEF Anchors, sourceVars, gatewayVars, historyVars, GatewayRests
  <2>2. /\ GatewayInv' /\ MarksRise /\ (Gw!Settled)' = Gw!Settled /\ Range(burns') = Range(burns)
        /\ Burned' \in Int /\ Burned <= Burned'
    BY <2>1, RestKeeps, BookTypes
  <2>3. sourceRestarts = 0 => \A h : Anchored(h) => Anchored(h)'
    BY <1>6, AnchorsOne
  <2>4. ReleaseInv'
    BY <2>1, <2>2, ReleaseRests
  <2> QED BY <1>1, <1>2, <1>5, <2>1, <2>2, <2>3, <2>4 DEF WorldInv, Onward
<1>7. ASSUME NEW q, Releases(q)
      PROVE  WorldInv' /\ Onward
  <2>1. /\ UNCHANGED <<blocks, finalized, sourceRestarts, everLocked>> /\ GatewayRests
        /\ burnUnlocks \subseteq burnUnlocks'
    BY <1>7 DEF Releases, registryVars, gatewayVars, GatewayRests
  <2>2. /\ GatewayInv' /\ MarksRise /\ (Gw!Settled)' = Gw!Settled /\ Range(burns') = Range(burns)
    BY <2>1, RestKeeps
  <2> QED BY <1>1, <1>2, <1>5, <1>7, <2>1, <2>2, ReleaseKeeps DEF WorldInv, Onward
<1>8. ASSUME NEW m, NEW receiver, NEW fee, Mints(m, receiver, fee)
      PROVE  WorldInv' /\ Onward
  <2>1. UNCHANGED <<blocks, burnUnlocks, released, burns, finalized, sourceRestarts, everLocked,
                    everReleased>>
    BY <1>8 DEF Mints, sourceVars, historyVars
  <2>2. /\ GatewayInv' /\ MarksRise /\ (Gw!Settled)' = Gw!Settled \cup {m}
        /\ Burned' \in Int /\ Burned <= Burned'
    BY <1>8, MintKeeps, BookTypes
  <2>3. ReleaseInv'
    BY <2>1, <2>2, ReleaseRests
  <2> QED BY <1>1, <1>2, <1>5, <2>1, <2>2, <2>3 DEF WorldInv, Onward
<1>9. ASSUME NEW from \in Users, NEW m, Burns(from, m)
      PROVE  WorldInv' /\ Onward
  <2>1. UNCHANGED <<blocks, burnUnlocks, released, mints, finalized, sourceRestarts, everLocked,
                    everReleased>>
    BY <1>9 DEF Burns, sourceVars, historyVars
  <2>2. /\ GatewayInv' /\ MarksRise /\ Range(burns') = Range(burns) \cup {m}
        /\ Burned' \in Int /\ Burned <= Burned'
    BY <1>9, BurnKeeps
  <2>3. ReleaseInv'
    BY <2>1, <2>2, ReleaseRests
  <2>4. (Gw!Settled)' = Gw!Settled
    BY <2>1 DEF Gw!Settled
  <2> QED BY <1>1, <1>2, <1>5, <2>1, <2>2, <2>3, <2>4 DEF WorldInv, Onward
<1>10. CASE Rests
  <2>1. /\ UNCHANGED <<blocks, burnUnlocks, released, finalized, sourceRestarts, everLocked,
                       everReleased>>
        /\ GatewayRests
    BY <1>10 DEF Rests, sourceVars, historyVars, GatewayRests
  <2>2. /\ GatewayInv' /\ MarksRise /\ (Gw!Settled)' = Gw!Settled /\ Range(burns') = Range(burns)
        /\ Burned' \in Int /\ Burned <= Burned'
    BY <2>1, RestKeeps, BookTypes
  <2>3. ReleaseInv'
    BY <2>1, <2>2, ReleaseRests
  <2> QED BY <1>1, <1>2, <1>5, <2>1, <2>2, <2>3 DEF WorldInv, Onward
<1> QED BY <1>3, <1>4, <1>6, <1>7, <1>8, <1>9, <1>10 DEF Moves

-----------------------------------------------------------------------------
(* The relayer's memory.                                                   *)

\* What the relayer held before a step still holds after it.
Holds ==
    /\ sourceRestarts' = 0 => \A h \in submitted : Anchored(h)'
    /\ \A m \in gatewaySubmitted : /\ m \in everLocked'
                                   /\ m \in (Gw!Settled)' \/ (Gw!IsProcessed(m))'
    /\ sourceRestarts' = 0 => \A m \in sourceUnlocks : \E q \in burnUnlocks' : q.id = m
    /\ IsSeq(queue) /\ Range(queue) \subseteq Range(burns')
    /\ sourceRestarts' = 0 => sourceRestarts = 0
    /\ \A b : IsCurrent(b) => IsCurrent(b)'
    /\ sourceRestarts' = 0 => \A h : Anchored(h) => Anchored(h)'
    /\ everLocked \subseteq everLocked'

\* A lock's nonce stays at or below the mark of its route.
LEMMA StaysProcessed ==
    ASSUME RelayInv, Onward, NEW m \in everLocked, Gw!IsProcessed(m)
    PROVE  (Gw!IsProcessed(m))'
<1> DEFINE k == Gw!KeyOf(m)
<1>1. IsLock(m)
  BY DEF RelayInv, WorldInv, SourceInv
<1>2. k \in Gw!Keys /\ m.nonce \in Int
  BY <1>1 DEF IsLock, Gw!KeyOf, Gw!Keys, Accounts
<1>3. highWater[k] \in Int /\ highWater'[k] \in Int /\ highWater[k] <= highWater'[k]
  BY <1>2 DEF Onward, MarksRise, RelayInv, WorldInv, GatewayInv
<1>4. m.nonce <= highWater[k]
  BY DEF Gw!IsProcessed
<1>5. m.nonce <= highWater'[k]
  <2> HIDE DEF k
  <2> QED BY <1>2, <1>3, <1>4
<1> QED BY <1>5 DEF Gw!IsProcessed

\* So what the relayer remembers and works on holds on.
LEMMA HoldsOn ==
    ASSUME RelayInv, Onward
    PROVE  Holds
<1>1. /\ everLocked \subseteq everLocked' /\ Range(burns) \subseteq Range(burns')
      /\ Gw!Settled \subseteq (Gw!Settled)'
      /\ sourceRestarts' = 0 =>
            /\ sourceRestarts = 0 /\ Len(blocks) \in Nat /\ Len(blocks') \in Nat
            /\ Len(blocks) <= Len(blocks')
            /\ \A h \in 0 .. Len(blocks) : Sim!Block(h)' = Sim!Block(h)
            /\ \A h : Anchored(h) => Anchored(h)'
            /\ burnUnlocks \subseteq burnUnlocks'
  BY DEF Onward
<1>2. MemoryInv /\ PassInv
  BY DEF RelayInv, LoopInv
<1>3. \A m \in gatewaySubmitted : /\ m \in everLocked'
                                  /\ m \in (Gw!Settled)' \/ (Gw!IsProcessed(m))'
  BY <1>1, <1>2, StaysProcessed DEF MemoryInv
<1>4. ASSUME NEW b, IsCurrent(b)
      PROVE  IsCurrent(b)'
  BY <1>1, <1>4 DEF IsCurrent
<1> QED BY <1>1, <1>2, <1>3, <1>4 DEF Holds, MemoryInv, PassInv

\* A step that leaves the relayer's memory alone.
MemoryRests == UNCHANGED <<sourceUnlocks, submitted, gatewaySubmitted>>

\* As long as the relayer adds nothing to what it remembers, that stays right.
LEMMA MemoryStays ==
    ASSUME Holds, MemoryRests
    PROVE  MemoryInv'
BY DEF Holds, MemoryRests, MemoryInv

\* As long as the relayer takes up nothing else, what it works on stays right.
LEMMA PassStays ==
    ASSUME RelayInv, Holds, UNCHANGED <<pc, queue, block, list, next>>
    PROVE  PassInv'
<1>1. PICK b : b = block
  OBVIOUS
<1>2. PICK h : h = block.height
  OBVIOUS
<1>3. PassInv
  BY DEF RelayInv, LoopInv
<1>4. pc \in {"events", "proof", "submit", "mint"} =>
         b.height \in Heights /\ b.event \subseteq everLocked' /\ IsCurrent(b)'
  BY <1>1, <1>3 DEF PassInv, Holds
<1>5. pc = "mint" /\ sourceRestarts' = 0 => Anchored(h)'
  BY <1>2, <1>3 DEF PassInv, Holds
<1>6. block' = b /\ block'.height = h
  BY <1>1, <1>2
<1>7. pc \in {"proof", "submit", "mint"} => IsSeq(list) /\ Range(list) \subseteq everLocked'
  BY <1>3 DEF PassInv, Holds
<1> QED BY <1>3, <1>4, <1>5, <1>6, <1>7 DEF PassInv, Holds

\* Between two passes there is nothing to hold on to.
LEMMA PassOver ==
    ASSUME PassIsOver
    PROVE  PassInv'
BY EmptyList DEF PassIsOver, PassInv

-----------------------------------------------------------------------------
(* The steps of the loop.                                                  *)

\* A page is burns there are.
LEMMA PageOfBurns ==
    ASSUME RelayInv
    PROVE  IsSeq(Page) /\ Range(Page) \subseteq Range(burns)
<1>1. /\ Len(burns) \in Nat /\ DOMAIN burns = 1 .. Len(burns)
  BY RangeFinite DEF RelayInv, WorldInv, GatewayInv
<1>2. ASSUME NEW l
      PROVE  UpTo(l) \in Nat /\ UpTo(l) <= Len(burns)
  <2> DEFINE T == {i \in DOMAIN burns : burns[i].height <= l}
  <2>1. IsFiniteSet(1 .. Len(burns)) /\ Cardinality(1 .. Len(burns)) = Len(burns)
    <3>1. PICK n \in Nat : n = Len(burns)
      BY <1>1
    <3>2. IsFiniteSet(1 .. n) /\ Cardinality(1 .. n) = IF 1 > n THEN 0 ELSE n - 1 + 1
      BY FS_Interval
    <3>3. Cardinality(1 .. n) = n
      BY <3>2
    <3> QED BY <3>1, <3>2, <3>3
  <2>2. T \in SUBSET (1 .. Len(burns))
    BY <1>1
  <2> HIDE DEF T
  <2>3. IsFiniteSet(T) /\ Cardinality(T) <= Len(burns)
    BY <2>1, <2>2, FS_Subset
  <2>4. Cardinality(T) \in Nat
    BY <2>3, FS_CardinalityType
  <2> QED BY <2>3, <2>4 DEF UpTo, T
<1> DEFINE first == UpTo(cursor - 1) + 1
           last == PageEnd
           S == Range(burns)
<1>3. first \in Nat /\ first >= 1 /\ last \in Int /\ last <= Len(burns)
  <2>1. UpTo(Closed) \in Nat /\ UpTo(Closed) <= Len(burns)
    BY <1>2
  <2>2. UpTo(cursor - 1) \in Nat
    BY <1>2
  <2> QED BY <1>1, <2>1, <2>2, RelayerConstants DEF PageEnd
<1> HIDE DEF first, last
<1>4. \A i \in first .. last : burns[i] \in S
  BY <1>1, <1>3 DEF Range
<1> HIDE DEF S
<1>5. SubSeq(burns, first, last) \in Seq(S)
  BY <1>3, <1>4, SubSeqProperties
<1>6. Page \in Seq(S)
  BY <1>5 DEF Page, first, last
<1> QED BY <1>6 DEF IsSeq, Range, S


\* The relayer polls: the queue is a page of the burns, or nothing.
LEMMA PollKeeps ==
    ASSUME RelayInv, Holds, PollBurns
    PROVE  LoopInv'
<1>1. MemoryInv'
  BY MemoryStays DEF PollBurns, MemoryRests
<1>2. queue' = << >> \/ queue' = Page
  BY DEF PollBurns, Batch
<1>3. IsSeq(queue') /\ Range(queue') \subseteq Range(burns')
  <2>1. burns' = burns
    BY DEF PollBurns, gatewayVars
  <2> QED BY <1>2, <2>1, EmptyList, PageOfBurns
<1>4. /\ pc' \in {"block", "unlock"} /\ (pc' = "unlock" => queue' # << >>)
      /\ pc = "poll" /\ next' = next
  BY DEF PollBurns, passVars
<1>5. next = 1
  BY <1>4 DEF RelayInv, LoopInv, PassInv
<1>6. PassInv'
  BY <1>3, <1>4, <1>5 DEF PassInv
<1> QED BY <1>1, <1>6 DEF LoopInv

\* What is left of a list when its head is taken.
LEMMA TailOf ==
    ASSUME NEW s, IsSeq(s), s # << >>
    PROVE  IsSeq(Tail(s)) /\ Range(Tail(s)) \subseteq Range(s)
<1> DEFINE S == {s[i] : i \in DOMAIN s}
<1>1. s \in Seq(S)
  BY DEF IsSeq
<1>2. Range(s) = S
  BY DEF Range
<1> HIDE DEF S
<1> DEFINE t == Tail(s)
<1>3. t \in Seq(S)
  BY <1>1, HeadTailProperties
<1> HIDE DEF t
<1>4. IsSeq(t) /\ Range(t) \subseteq S
  BY <1>3 DEF IsSeq, Range
<1> QED BY <1>2, <1>4 DEF t

\* A burn noted as released was released, by this call or by an earlier one.
LEMMA UnlockKeeps ==
    ASSUME RelayInv, Holds, UnlockSource
    PROVE  LoopInv'
<1> DEFINE m == Head(queue)
           q == UnlockRequest(m)
<1>1. /\ pc = "unlock" /\ queue' = Tail(queue)
      /\ pc' \in {"block", "unlock"} /\ (pc' = "unlock" => queue' # << >>)
      /\ UNCHANGED <<submitted, gatewaySubmitted, next>>
  BY DEF UnlockSource, passVars
<1>2. /\ IsSeq(queue) /\ queue # << >> /\ Range(queue) \subseteq Range(burns') /\ next = 1
  BY <1>1 DEF RelayInv, LoopInv, PassInv, Holds
<1>3. IsSeq(queue') /\ Range(queue') \subseteq Range(burns')
  BY <1>1, <1>2, TailOf
<1>4. PassInv'
  BY <1>1, <1>2, <1>3 DEF PassInv
<1>5. sourceRestarts' = 0 => \A n \in sourceUnlocks' : \E u \in burnUnlocks' : u.id = n
  <2>1. CASE UNCHANGED sourceUnlocks
    BY <2>1 DEF Holds
  <2>2. CASE Sim!ConsumeBurnUnlock(q) /\ sourceUnlocks' = sourceUnlocks \cup {m}
    <3>1. q \in burnUnlocks' /\ q.id = m
      BY <2>2 DEF Sim!ConsumeBurnUnlock, UnlockRequest
    <3> HIDE DEF q, m
    <3> QED BY <2>2, <3>1 DEF Holds
  <2> QED BY <2>1, <2>2 DEF UnlockSource, NotReleased
<1>6. MemoryInv'
  BY <1>1, <1>5 DEF MemoryInv, Holds
<1> QED BY <1>4, <1>6 DEF LoopInv

\* The block of the pass is one the source has.
LEMMA FetchKeeps ==
    ASSUME RelayInv, Holds, FetchBlock
    PROVE  LoopInv'
<1>1. MemoryInv'
  BY MemoryStays DEF FetchBlock, memory, MemoryRests
<1>2. /\ pc = "block" /\ UNCHANGED <<queue, next, blocks, sourceRestarts, everLocked>>
  BY DEF FetchBlock, sourceVars, historyVars
<1>3. next = 1 /\ IsSeq(queue) /\ Range(queue) \subseteq Range(burns')
  BY <1>2 DEF RelayInv, LoopInv, PassInv, Holds
<1>4. CASE pc' = "sleep"
  BY <1>2, <1>3, <1>4, <1>1 DEF PassInv, LoopInv
<1>5. ASSUME NEW h, h = (IF Pinned = None THEN Sim!LatestHeight ELSE Pinned),
             h <= Sim!LatestHeight, block' = Sim!Block(h), pc' = "events"
      PROVE  LoopInv'
  <2>1. h \in 0 .. Len(blocks)
    <3>1. Len(blocks) \in Nat
      BY RangeFinite DEF RelayInv, WorldInv, SourceInv
    <3> QED BY <1>5, <3>1, RelayerConstants DEF Sim!LatestHeight
  <2>2. PICK b : b = Sim!Block(h)
    OBVIOUS
  <2>3. b.height \in Heights /\ b.event \subseteq everLocked /\ IsCurrent(b)
    BY <2>1, <2>2, BlockFacts DEF RelayInv, WorldInv
  <2>4. IsCurrent(b)' /\ block' = b
    BY <1>5, <2>2, <2>3 DEF Holds
  <2>5. PassInv'
    BY <1>2, <1>3, <1>5, <2>3, <2>4 DEF PassInv
  <2> QED BY <1>1, <2>5 DEF LoopInv
<1> QED BY <1>4, <1>5 DEF FetchBlock, AfterBlock

\* The events fetched for it were locked, in whatever life of the source.
LEMMA EventsKeep ==
    ASSUME RelayInv, Holds, FetchEvents
    PROVE  LoopInv'
<1>1. MemoryInv'
  BY MemoryStays DEF FetchEvents, memory, MemoryRests
<1>2. /\ pc = "events" /\ pc' = "proof" /\ UNCHANGED <<queue, block, next, everLocked>>
      /\ list' = EventsAt(block.height) \/ list' = << >>
  BY DEF FetchEvents, historyVars
<1>3. IsSeq(list') /\ Range(list') \subseteq everLocked
  <2>1. ASSUME NEW h
        PROVE  IsSeq(EventsAt(h)) /\ Range(EventsAt(h)) \subseteq everLocked
    <3>1. DOMAIN events = 1 .. Len(blocks)
      BY RangeFinite DEF RelayInv, WorldInv, SourceInv
    <3> QED BY <3>1, EmptyList DEF EventsAt, RelayInv, WorldInv, SourceInv
  <2>2. PICK h : h = block.height
    OBVIOUS
  <2> QED BY <1>2, <2>1, <2>2, EmptyList
<1>4. PICK b : b = block
  OBVIOUS
<1>5. /\ next = 1 /\ IsSeq(queue) /\ Range(queue) \subseteq Range(burns')
      /\ b.height \in Heights /\ b.event \subseteq everLocked /\ IsCurrent(b)'
  BY <1>2, <1>4 DEF RelayInv, LoopInv, PassInv, Holds
<1>6. PassInv'
  BY <1>2, <1>3, <1>4, <1>5 DEF PassInv
<1> QED BY <1>1, <1>6 DEF LoopInv

\* Fetching the first event's proof leads on with the block, or ends the pass.
LEMMA ProofKeeps ==
    ASSUME RelayInv, Holds, FetchProof
    PROVE  LoopInv'
<1>1. MemoryInv'
  BY MemoryStays DEF FetchProof, memory, MemoryRests
<1>2. /\ pc = "proof" /\ pc' \in {"submit", "sleep"}
      /\ UNCHANGED <<queue, block, list, next, everLocked>>
  BY DEF FetchProof, historyVars
<1>3. PICK b : b = block
  OBVIOUS
<1>4. /\ next = 1 /\ IsSeq(queue) /\ Range(queue) \subseteq Range(burns')
      /\ b.height \in Heights /\ b.event \subseteq everLocked /\ IsCurrent(b)'
      /\ IsSeq(list) /\ Range(list) \subseteq everLocked
  BY <1>2, <1>3 DEF RelayInv, LoopInv, PassInv, Holds
<1>5. PassInv'
  BY <1>2, <1>3, <1>4 DEF PassInv
<1> QED BY <1>1, <1>5 DEF LoopInv

\* The relayer goes on to the events of a block only when the registry holds its
\* roots: it took them just now, it had them, or the relayer saw it take them.
LEMMA SubmitKeeps ==
    ASSUME RelayInv, Holds, SubmitEvidence
    PROVE  LoopInv'
<1>1. /\ pc = "submit" /\ UNCHANGED <<queue, block, list, next, sourceUnlocks, gatewaySubmitted>>
      /\ UNCHANGED <<blocks, sourceRestarts, everLocked>>
  BY DEF SubmitEvidence, passVars, sourceVars, historyVars
<1>2. PICK b : b = block
  OBVIOUS
<1>3. PICK h : h = b.height
  OBVIOUS
<1>4. /\ next = 1 /\ IsSeq(queue) /\ Range(queue) \subseteq Range(burns')
      /\ b.height \in Heights /\ b.event \subseteq everLocked /\ IsCurrent(b) /\ IsCurrent(b)'
      /\ IsSeq(list) /\ Range(list) \subseteq everLocked
  BY <1>1, <1>2 DEF RelayInv, LoopInv, PassInv, Holds
<1>5. ASSUME EvidenceAccepted, sourceRestarts = 0 => Anchored(h)'
      PROVE  LoopInv'
  <2>1. /\ submitted' = submitted \cup {h}
        /\ pc' = IF list = << >> THEN "sleep" ELSE "mint"
    BY <1>2, <1>3, <1>5 DEF EvidenceAccepted
  <2>2. MemoryInv'
    BY <1>1, <1>5, <2>1 DEF Holds, MemoryInv
  <2>3. pc' = "mint" => 1 \in 1 .. Len(list)
    BY <1>4, <2>1 DEF IsSeq
  <2>4. /\ block' = b /\ block'.height = h /\ next' = 1 /\ IsSeq(queue') /\ IsSeq(list')
        /\ Range(queue') \subseteq Range(burns') /\ Range(list') \subseteq everLocked'
        /\ pc' \in {"sleep", "mint"} /\ (pc' = "mint" => next' \in 1 .. Len(list'))
        /\ sourceRestarts' = 0 => Anchored(h)'
    BY <1>1, <1>2, <1>3, <1>4, <1>5, <2>1, <2>3
  <2>5. PassInv'
    BY <1>1, <1>4, <2>4 DEF PassInv
  <2> QED BY <2>2, <2>5 DEF LoopInv
<1>6. ASSUME EvidenceRefused
      PROVE  LoopInv'
  <2>1. pc' = "sleep" /\ submitted' = submitted
    BY <1>6 DEF EvidenceRefused
  <2>2. MemoryInv'
    BY <1>1, <2>1, MemoryStays DEF MemoryRests
  <2>3. PassInv'
    BY <1>1, <1>4, <2>1 DEF PassInv
  <2> QED BY <2>2, <2>3 DEF LoopInv
<1>7. BlsEvidence(b).height = h
  BY <1>3 DEF BlsEvidence, Evidence
<1>8. ASSUME block.height \in submitted \/ AlreadyAnchored(BlsEvidence(block)), sourceRestarts = 0
      PROVE  Anchored(h)'
  <2>1. h \in submitted \/ BlsEvidence(b) \in evidence
    BY <1>2, <1>3, <1>8 DEF AlreadyAnchored, Reg!BlsAlreadyProcessed
  <2>2. Anchored(h)
    BY <1>7, <1>8, <2>1 DEF RelayInv, WorldInv, RegistryInv, LoopInv, MemoryInv
  <2> QED BY <1>1, <1>8, <2>2 DEF Holds
<1>9. ASSUME Reg!SubmitBls(BlsEvidence(block)), sourceRestarts = 0
      PROVE  Anchored(h)'
  <2>1. UNCHANGED <<sourceVars, gatewayVars, historyVars>>
    BY DEF SubmitEvidence
  <2>2. Anchors(b)
    BY <1>2, <1>4, <1>9, <2>1, EvidenceOf
  <2> QED BY <1>3, <1>9, <2>2, AnchorsOne
<1> QED BY <1>5, <1>6, <1>8, <1>9 DEF SubmitEvidence

\* An event is done when it settled, or when its nonce is at or below the mark.
LEMMA MintKeepsLoop ==
    ASSUME RelayInv, Holds, SubmitGateway
    PROVE  LoopInv'
<1>0. PICK m : m = list[next]
  OBVIOUS
<1>1. /\ pc = "mint" /\ next' = next + 1
      /\ pc' = IF next = Len(list) THEN "sleep" ELSE "mint"
      /\ UNCHANGED <<queue, block, list, sourceUnlocks, submitted>>
      /\ UNCHANGED <<blocks, sourceRestarts, everLocked>>
  BY DEF SubmitGateway, sourceVars, historyVars
<1>2. PICK b : b = block
  OBVIOUS
<1>3. PICK h : h = b.height
  OBVIOUS
<1>4. /\ next \in 1 .. Len(list) /\ IsSeq(queue) /\ Range(queue) \subseteq Range(burns')
      /\ b.height \in Heights /\ b.event \subseteq everLocked /\ IsCurrent(b)'
      /\ IsSeq(list) /\ Range(list) \subseteq everLocked
      /\ sourceRestarts = 0 => Anchored(h)'
  BY <1>1, <1>2, <1>3 DEF RelayInv, LoopInv, PassInv, Holds
<1>5. PassInv'
  <2>1. Len(list) \in Nat /\ (pc' = "mint" => next' \in 1 .. Len(list'))
    BY <1>1, <1>4 DEF IsSeq
  <2>2. /\ block' = b /\ block'.height = h /\ IsSeq(queue') /\ IsSeq(list')
        /\ Range(queue') \subseteq Range(burns') /\ Range(list') \subseteq everLocked'
        /\ pc' \in {"sleep", "mint"} /\ (sourceRestarts' = 0 => Anchored(h)')
    BY <1>1, <1>2, <1>3, <1>4
  <2> QED BY <1>1, <1>4, <2>1, <2>2 DEF PassInv
<1>6. m \in everLocked
  BY <1>0, <1>1, PresentsLocked
<1>7. ASSUME Done(m) => m \in (Gw!Settled)' \/ (Gw!IsProcessed(m))',
             Done(m) \/ NotDone(m) \/ UNCHANGED gatewaySubmitted
      PROVE  LoopInv'
  <2>1. \A n \in gatewaySubmitted' :
           n \in everLocked' /\ (n \in (Gw!Settled)' \/ (Gw!IsProcessed(n))')
    BY <1>1, <1>6, <1>7 DEF Holds, Done, NotDone
  <2>2. MemoryInv'
    BY <1>1, <2>1 DEF Holds, MemoryInv
  <2> QED BY <1>5, <2>2 DEF LoopInv
<1>8. CASE m \in gatewaySubmitted
  <2>1. m \in (Gw!Settled)' \/ (Gw!IsProcessed(m))'
    BY <1>8 DEF Holds
  <2> QED BY <1>0, <1>7, <1>8, <2>1 DEF SubmitGateway
<1>9. CASE Gw!FinalizeInboundGasless(RelayerAccount, m, Fee)
  <2>1. Gw!FinalizeInternal(m, RelayerAccount, Fee)
    BY <1>9 DEF Gw!FinalizeInboundGasless
  <2>2. m.source = Source /\ RelayerAccount \in Accounts /\ Fee \in Nat
    BY <1>6, RelayerConstants DEF RelayInv, WorldInv, SourceInv, IsLock, Accounts
  <2>3. UNCHANGED <<sourceVars, evidence, historyVars>>
    BY DEF SubmitGateway
  <2>4. Mints(m, RelayerAccount, Fee)
    BY <2>1, <2>2, <2>3, SettlesLocked
  <2>5. m \in (Gw!Settled)'
    BY <2>4, MintKeeps
  <2>6. Done(m) \/ NotDone(m) \/ UNCHANGED gatewaySubmitted
    BY <1>0 DEF SubmitGateway
  <2> QED BY <1>7, <2>5, <2>6
<1>10. CASE /\ UNCHANGED <<gatewayVars, finalized>>
            /\ \/ GatewayHasIt(m) /\ Done(m)
               \/ NotDone(m)
  <2>1. GatewayHasIt(m) => (Gw!IsProcessed(m))'
    <3>1. highWater' = highWater
      BY <1>10 DEF gatewayVars
    <3> QED BY <3>1 DEF GatewayHasIt, Gw!InboundAlreadyProcessed, Gw!IsProcessed
  <2>2. Done(m) /\ NotDone(m) => m \in gatewaySubmitted
    BY DEF Done, NotDone
  <2> QED BY <1>7, <1>8, <1>10, <2>1, <2>2
<1> QED BY <1>0, <1>8, <1>9, <1>10 DEF SubmitGateway

-----------------------------------------------------------------------------
(* The theorems.                                                           *)

\* Each call of the relayer, answered or not, and each step of anybody else keeps
\* the invariant.
LEMMA RelayKept ==
    ASSUME RelayInv, [Next]_vars
    PROVE  RelayInv'
<1>1. WorldInv' /\ Onward
  BY StepCases, WorldMoves
<1>2. Holds
  BY <1>1, HoldsOn
<1>3. LoopInv'
  <2>1. CASE PollBurns
    BY <1>2, <2>1, PollKeeps
  <2>2. CASE UnlockSource
    BY <1>2, <2>2, UnlockKeeps
  <2>3. CASE FetchBlock
    BY <1>2, <2>3, FetchKeeps
  <2>4. CASE FetchEvents
    BY <1>2, <2>4, EventsKeep
  <2>5. CASE FetchProof
    BY <1>2, <2>5, ProofKeeps
  <2>6. CASE SubmitEvidence
    BY <1>2, <2>6, SubmitKeeps
  <2>7. CASE SubmitGateway
    BY <1>2, <2>7, MintKeepsLoop
  <2>8. CASE Sleep
    <3>1. MemoryRests /\ PassIsOver
      BY <2>8 DEF Sleep, memory, MemoryRests
    <3> QED BY <1>2, <3>1, MemoryStays, PassOver DEF LoopInv
  <2>9. CASE RelayerRestart
    <3>1. MemoryInv'
      BY <2>9 DEF RelayerRestart, MemoryInv
    <3> QED BY <2>9, <3>1, PassOver DEF RelayerRestart, LoopInv
  <2>10. CASE UNCHANGED relayerVars
    <3>1. MemoryRests /\ UNCHANGED <<pc, queue, block, list, next>>
      BY <2>10 DEF relayerVars, memory, passVars, MemoryRests
    <3> QED BY <1>2, <3>1, MemoryStays, PassStays DEF LoopInv
  <2>11. CASE SourceMoves \/ HolderBurns \/ CloseLedger \/ OthersSubmit \/ OthersFinalize
    BY <2>10, <2>11 DEF SourceMoves, HolderBurns, CloseLedger, OthersSubmit, OthersFinalize
  <2>12. CASE UNCHANGED vars
    BY <2>10, <2>12 DEF vars
  <2> QED BY <2>1, <2>2, <2>3, <2>4, <2>5, <2>6, <2>7, <2>8, <2>9, <2>11, <2>12 DEF Next, RelayerStep
<1> QED BY <1>1, <1>3 DEF RelayInv

\* The relay begins with two chains nothing was done to and a relayer that
\* remembers nothing.
LEMMA RelayStarts == Init => RelayInv
<1> SUFFICES ASSUME Init PROVE RelayInv
  OBVIOUS
<1>1. SourceInv
  BY EmptyList, FS_EmptySet, RelayerConstants DEF Init, Sim!Init, SourceInv
<1>2. RegistryInv
  BY DEF Init, Gw!Init, RegistryInv
<1>3. GatewayInv
  <2>1. /\ highWater = [k \in Gw!Keys |-> Gw!NoMark] /\ mints = << >> /\ burns = << >>
        /\ outbound = [k \in {Target, Source} \X Accounts |-> 0]
        /\ balance = [a \in Gw!Holders |-> IF a \in Users THEN StartBalance ELSE 0]
    BY DEF Init, Gw!Init, Gw!Holders
  <2>2. highWater \in [Gw!Keys -> Int] /\ outbound \in [{Target, Source} \X Accounts -> Int]
    BY <2>1 DEF Gw!NoMark
  <2>3. balance \in [Gw!Holders -> Int] /\ Gw!Supply = Gw!InitialSupply /\ Gw!Supply \in Int
    <3>1. \A a \in Gw!Holders : balance[a] \in Int
      BY <2>1, RelayerConstants
    <3>2. IsFiniteSet(Gw!Holders)
      BY RelayerConstants, FS_AddElement DEF Gw!Holders, Accounts
    <3>3. SumOf(balance, Gw!Holders) \in Int
      BY <3>1, <3>2, SumType
    <3> QED BY <2>1, <3>1, <3>3, GatewaySums
  <2>4. Burned = 0 /\ MintedAmount = 0
    BY <2>1, SumEmpty DEF Burned, MintedAmount
  <2>5. DOMAIN mints = {} /\ DOMAIN burns = {}
    BY <2>1
  <2> QED BY <2>1, <2>2, <2>3, <2>4, <2>5, EmptyList DEF GatewayInv
<1>4. ReleaseInv
  <2>1. /\ burnUnlocks = {} /\ released = [a \in Users |-> 0]
        /\ everReleased = 0 /\ sourceRestarts = 0 /\ burns = << >>
    BY DEF Init, Sim!Init, Gw!Init
  <2>2. SumOf(released, Users) = 0
    BY <2>1, SumZero, RelayerConstants
  <2>3. SumOf([q \in {} |-> q.amount], {}) = 0
    BY SumEmpty
  <2>4. Burned = 0
    BY <2>1, SumEmpty DEF Burned
  <2> QED BY <2>1, <2>2, <2>3, <2>4, FS_EmptySet DEF ReleaseInv
<1>5. LoopInv
  BY EmptyList DEF Init, LoopInv, MemoryInv, PassInv
<1> QED BY <1>1, <1>2, <1>3, <1>4, <1>5 DEF RelayInv, WorldInv

\* What TLC checks on small instances holds at every step of every run.
LEMMA RelayAlways == Spec => []RelayInv
BY RelayStarts, RelayKept, PTL DEF Spec

\* Every mint is of a message somebody locked, even across lives of the source.
THEOREM MintsAreLocks == Spec => []MintsWereLocked
<1>1. RelayInv => MintsWereLocked
  BY DEF RelayInv, WorldInv, GatewayInv, MintsWereLocked, Gw!Settled
<1> QED BY <1>1, RelayAlways, PTL

\* The relayer presents events only under roots the registry holds, as long as
\* the source was not started again under it.
THEOREM EventsAreAnchored == Spec => []AnchoredBeforeMint
<1>1. RelayInv => AnchoredBeforeMint
  BY DEF RelayInv, LoopInv, PassInv, IsCurrent, Anchored, AnchoredBeforeMint
<1> QED BY <1>1, RelayAlways, PTL

\* What the relayer will not present again settled or never can, and what it will
\* not ask for again was released.
THEOREM DoneIsDone == Spec => []DoneIsOutOfReach
<1>1. RelayInv => DoneIsOutOfReach
  BY DEF RelayInv, LoopInv, MemoryInv, DoneIsOutOfReach
<1> QED BY <1>1, RelayAlways, PTL

\* What was minted is no more than what was ever locked: every mint is of a
\* message of its own.
LEMMA MintedIsLocked ==
    ASSUME RelayInv
    PROVE  MintedAmount <= Locked
<1> DEFINE f == Gw!LockedAmounts
           g == [m \in everLocked |-> m.amount]
           h == [i \in DOMAIN mints |-> mints[i].msg]
           S == DOMAIN mints
           T == everLocked
<1>1. IsFiniteSet(S)
  <2>1. IsSeq(mints)
    BY DEF RelayInv, WorldInv, GatewayInv
  <2> QED BY <2>1, RangeFinite, FS_Interval
<1>2. IsFiniteSet(T) /\ \A y \in T : g[y] \in Nat
  BY DEF RelayInv, WorldInv, SourceInv, IsLock
<1>3. \A x \in S : h[x] \in T /\ f[x] = g[h[x]]
  BY DEF RelayInv, WorldInv, GatewayInv, Gw!LockedAmounts
<1>4. \A x, y \in S : h[x] = h[y] => x = y
  BY DEF RelayInv, WorldInv, GatewayInv
<1> HIDE DEF f, g, h, S, T
<1>5. SumOf(f, S) <= SumOf(g, T)
  BY <1>1, <1>2, <1>3, <1>4, SumInto
<1> QED BY <1>5 DEF f, g, S, T, MintedAmount, Locked

\* What the source released in this life is no more than what was burned, and in all
\* its lives no more than that again for every restart.
LEMMA ReleasedIsBurned ==
    ASSUME RelayInv
    PROVE  /\ SumOf(released, Users) \in Nat /\ SumOf(released, Users) <= Burned
           /\ everReleased \in Nat /\ sourceRestarts * Burned \in Int
           /\ everReleased <= sourceRestarts * Burned + Burned
<1> DEFINE unlocked == SumOf([q \in burnUnlocks |-> q.amount], burnUnlocks)
           all == SumOf(released, Users)
<1>1. /\ all <= unlocked /\ everReleased \in Nat
      /\ everReleased <= sourceRestarts * Burned + unlocked
  BY DEF RelayInv, WorldInv, ReleaseInv
<1>2. unlocked \in Nat /\ unlocked <= Burned /\ Burned \in Int
  BY UnlockedIsBurned, BookTypes
<1>3. all \in Nat
  BY SumNat, RelayerConstants DEF RelayInv, WorldInv, ReleaseInv
<1>4. sourceRestarts * Burned \in Int
  BY <1>2, Times DEF RelayInv, WorldInv, SourceInv
<1> HIDE DEF unlocked, all
<1>5. all <= Burned /\ everReleased <= sourceRestarts * Burned + Burned
  BY <1>1, <1>2, <1>3, <1>4
<1> QED BY <1>1, <1>3, <1>4, <1>5 DEF all

\* What both sides hold is covered by what was ever locked, whatever calls fail, are
\* repeated or are made by others, and however often the relayer starts again: the
\* wrapped supply plus what this life of the source released never exceeds it.  With
\* all that the source ever released it exceeds it by at most the sum of all burns
\* for every restart of the source.
THEOREM SupplyIsCovered == Spec => []Covered
<1>1. ASSUME RelayInv PROVE Covered
  <2> DEFINE sup == Gw!Supply
             ini == Gw!InitialSupply
             rel == SumOf(released, Users)
             again == sourceRestarts * Burned
  <2>1. sup + Burned = ini + MintedAmount
    BY <1>1 DEF RelayInv, WorldInv, GatewayInv
  <2>2. /\ Burned \in Int /\ MintedAmount \in Int /\ sup \in Int /\ ini \in Int
        /\ MintedAmount <= Locked
    BY <1>1, BookTypes, MintedIsLocked
  <2>3. /\ rel \in Nat /\ rel <= Burned /\ everReleased \in Nat /\ again \in Int
        /\ everReleased <= again + Burned
    BY <1>1, ReleasedIsBurned
  <2>4. Locked \in Int
    <3> DEFINE g == [m \in everLocked |-> m.amount]
    <3>1. IsFiniteSet(everLocked) /\ \A m \in everLocked : g[m] \in Int
      BY <1>1 DEF RelayInv, WorldInv, SourceInv, IsLock
    <3> HIDE DEF g
    <3>2. SumOf(g, everLocked) \in Int
      BY <3>1, SumType
    <3> QED BY <3>2 DEF g, Locked
  <2> HIDE DEF sup, ini, rel, again
  <2>5. sup + rel <= ini + Locked /\ sup + everReleased <= ini + Locked + again
    BY <2>1, <2>2, <2>3, <2>4
  <2> QED BY <2>5 DEF sup, ini, rel, again, Covered
<1> QED BY <1>1, RelayAlways, PTL
=============================================================================

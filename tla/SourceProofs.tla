---------------------------- MODULE SourceProofs -----------------------------
(***************************************************************************)
(* The source chain, the guard that reads it and the anchor that keeps     *)
(* records of what happened on it, for any accounts, amounts and bounds:   *)
(* releases are the burns asked for, honest blocks and no others are       *)
(* attested, a message is admitted once, the anchor's records say of a     *)
(* request what the ledgers say, and a block's tree proves its events and  *)
(* nothing else.                                                           *)
(***************************************************************************)
EXTENDS DomainAdapter, AnchorRecords, EventTree, SumTheorems

-----------------------------------------------------------------------------
(* Types.                                                                  *)

EventRecords == [source : {Source}, target : {Target}, height : Nat, index : Nat,
                 nonce : Nat, sender : Senders, recipient : Senders, amount : Nat,
                 kind : {"Lock"}, expiry : Nat]
BlockRecords == [height : Nat, root : Nat, event : SUBSET EventRecords]

SourceTypeOK ==
    /\ blocks \in Seq(BlockRecords)
    /\ events \in Seq(Seq(EventRecords))
    /\ eventNonce \in Nat
    /\ unlocked \subseteq EventRecords
    /\ burnUnlocks \subseteq UnlockRequests /\ IsFiniteSet(burnUnlocks)
    /\ released \in [Senders -> Nat]

\* A block names its own height, and its state root with it.
ChainIsHonest == \A h \in DOMAIN blocks : blocks[h].height = h /\ blocks[h].root = h

\* The inductive invariant of the source.
SourceInv == SourceTypeOK /\ ChainIsHonest /\ ReleasedMatchesBurns

\* What Append adds to a sequence, and what it keeps.
LEMMA AppendAtEnd ==
    ASSUME NEW S, NEW s \in Seq(S), NEW e \in S
    PROVE  /\ Append(s, e) \in Seq(S)
           /\ DOMAIN s = 1..Len(s) /\ Len(s) \in Nat
           /\ DOMAIN Append(s, e) = 1..(Len(s) + 1)
           /\ Append(s, e)[Len(s) + 1] = e
           /\ \A i \in 1..Len(s) : Append(s, e)[i] = s[i]
OBVIOUS

\* The events of a lock request are events.
LEMMA LockEventType ==
    ASSUME SourceTypeOK, NEW amount \in LockAmounts, NEW recipient \in Senders,
           NEW sender \in Senders, NEW count \in Counts
    PROVE  [i \in 1..count |-> LockEvent(i, amount, recipient, sender)] \in Seq(EventRecords)
           /\ count \in Nat
<1>1. count \in Nat /\ amount \in Nat /\ eventNonce \in Nat /\ LatestHeight \in Nat
  BY SourceConstants DEF SourceTypeOK, LatestHeight
<1>2. ASSUME NEW i \in 1..count
      PROVE  LockEvent(i, amount, recipient, sender) \in EventRecords
  <2>1. /\ i - 1 \in Nat /\ NonceOf(i) \in Nat /\ amount + i - 1 \in Nat
        /\ LatestHeight + 1 \in Nat /\ LatestHeight + 1 + ExpiryWindow \in Nat
    BY <1>1 DEF NonceOf, ExpiryWindow
  <2> QED BY <2>1 DEF LockEvent, EventRecords
<1> QED BY <1>1, <1>2

\* A block more keeps the chain honest.
LEMMA ProduceKeepsChain ==
    ASSUME SourceTypeOK, ChainIsHonest, NEW added \in Seq(EventRecords), ProduceWith(added)
    PROVE  /\ blocks' \in Seq(BlockRecords) /\ events' \in Seq(Seq(EventRecords))
           /\ ChainIsHonest'
<1> DEFINE block == [height |-> LatestHeight + 1, root |-> LatestHeight + 1,
                     event |-> EventRoot(added)]
<1>1. Len(blocks) \in Nat /\ blocks' = Append(blocks, block) /\ events' = Append(events, added)
  BY DEF SourceTypeOK, ProduceWith
<1>2. block \in BlockRecords /\ block.height = Len(blocks) + 1 /\ block.root = Len(blocks) + 1
  BY <1>1 DEF BlockRecords, EventRoot, Range, LatestHeight
<1> HIDE DEF block
<1>3. /\ blocks' \in Seq(BlockRecords) /\ DOMAIN blocks = 1..Len(blocks)
      /\ DOMAIN blocks' = 1..(Len(blocks) + 1)
      /\ blocks'[Len(blocks) + 1] = block
      /\ \A i \in 1..Len(blocks) : blocks'[i] = blocks[i]
  BY <1>1, <1>2, AppendAtEnd DEF SourceTypeOK
<1>4. events' \in Seq(Seq(EventRecords))
  BY <1>1, AppendAtEnd DEF SourceTypeOK
<1>5. ChainIsHonest'
  <2> SUFFICES ASSUME NEW h \in DOMAIN blocks' PROVE blocks'[h].height = h /\ blocks'[h].root = h
    BY DEF ChainIsHonest
  <2>1. CASE h = Len(blocks) + 1
    BY <1>2, <1>3, <2>1
  <2>2. CASE h # Len(blocks) + 1
    <3>1. h \in DOMAIN blocks /\ blocks'[h] = blocks[h]
      BY <1>1, <1>3, <2>2
    <3> QED BY <3>1 DEF ChainIsHonest
  <2> QED BY <2>1, <2>2
<1> QED BY <1>3, <1>4, <1>5

\* Adding to a saturated counter is saturating the sum.
LEMMA SaturatingAdds ==
    ASSUME NEW n \in Nat, NEW k \in Nat
    PROVE  Saturating(Saturating(n) + k) = Saturating(n + k) /\ Saturating(n) \in Nat
BY SourceConstants DEF Saturating

\* A burn consumed is one more term of what its recipient was released.
LEMMA ConsumeKeepsBooks ==
    ASSUME SourceInv, NEW q \in UnlockRequests, ConsumeBurnUnlock(q)
    PROVE  SourceTypeOK' /\ ReleasedMatchesBurns'
<1> DEFINE mine(a) == {u \in burnUnlocks : u.recipient = a}
           amounts(S) == [u \in S |-> u.amount]
<1>1. /\ burnUnlocks' = burnUnlocks \cup {q} /\ \A u \in burnUnlocks : u.id # q.id
      /\ released' = [released EXCEPT ![q.recipient] = Saturating(@ + q.amount)]
      /\ UNCHANGED <<blocks, events, eventNonce, unlocked>>
  BY DEF ConsumeBurnUnlock, UnlockAccepts, AlreadyUnlocked
<1>2. q.recipient \in Senders /\ \A u \in UnlockRequests : u.amount \in Nat
  BY SourceConstants
<1>3. /\ burnUnlocks' \subseteq UnlockRequests /\ IsFiniteSet(burnUnlocks')
      /\ q \notin burnUnlocks
  BY <1>1, FS_AddElement DEF SourceInv, SourceTypeOK
<1>4. released[q.recipient] \in Nat /\ q.amount \in Nat
  BY <1>2 DEF SourceInv, SourceTypeOK
<1>5. released' \in [Senders -> Nat]
  <2>1. PICK sum : sum = released[q.recipient] + q.amount
    OBVIOUS
  <2>2. sum \in Nat
    BY <1>4, <2>1
  <2>3. Saturating(sum) \in Nat
    BY <2>2, SaturatingAdds
  <2> QED BY <1>1, <1>2, <2>1, <2>3 DEF SourceInv, SourceTypeOK
<1>6. SourceTypeOK'
  BY <1>1, <1>3, <1>5 DEF SourceInv, SourceTypeOK
<1>7. \A u, v \in burnUnlocks' : u.id = v.id => u = v
  BY <1>1 DEF SourceInv, ReleasedMatchesBurns
<1>8. ASSUME NEW a \in Senders
      PROVE  LET new == {u \in burnUnlocks' : u.recipient = a}
             IN  released'[a] = Saturating(SumOf([u \in new |-> u.amount], new))
  <2> DEFINE old == mine(a)
             new == {u \in burnUnlocks' : u.recipient = a}
  <2>1. released[a] = Saturating(SumOf(amounts(old), old))
    BY DEF SourceInv, ReleasedMatchesBurns
  <2>2. IsFiniteSet(old) /\ q \notin old /\ \A u \in old : u.amount \in Nat
    BY <1>2, <1>3, FS_Subset DEF SourceInv, SourceTypeOK
  <2>3. CASE a # q.recipient
    <3>1. new = old /\ released'[a] = released[a]
      BY <1>1, <2>3 DEF SourceInv, SourceTypeOK
    <3> QED BY <2>1, <3>1
  <2>4. CASE a = q.recipient
    <3>1. new = old \cup {q}
      BY <1>1, <2>4
    <3>2. released'[a] = Saturating(released[a] + q.amount)
      BY <1>1, <2>4 DEF SourceInv, SourceTypeOK
    <3> DEFINE f == amounts(new)
               g == amounts(old)
    <3>3. (\A u \in old : f[u] = g[u] /\ f[u] \in Nat /\ g[u] \in Nat) /\ f[q] = q.amount
      BY <2>2, <3>1
    <3> HIDE DEF f, g, old, new
    <3>4. SumOf(f, old \cup {q}) = SumOf(f, old) + f[q]
      <4>1. \A u \in old : f[u] \in Int
        BY <3>3
      <4>2. f[q] \in Int
        BY <1>4, <3>3
      <4> QED BY <2>2, <4>1, <4>2, SumAdd
    <3>5. SumOf(f, old) = SumOf(g, old)
      BY <2>2, <3>3, SumSame
    <3>6. SumOf(g, old) \in Nat
      BY <2>2, <3>3, SumNat
    <3>7. Saturating(Saturating(SumOf(g, old)) + q.amount) = Saturating(SumOf(g, old) + q.amount)
      BY <1>4, <3>6, SaturatingAdds
    <3>8. released'[a] = Saturating(SumOf(f, new))
      BY <2>1, <3>1, <3>2, <3>3, <3>4, <3>5, <3>7 DEF g
    <3> QED BY <3>8 DEF f, new
  <2> QED BY <2>3, <2>4
<1> QED BY <1>6, <1>7, <1>8 DEF ReleasedMatchesBurns

\* The source starts, and starts again, with nothing released.
LEMMA SourceStarts ==
    /\ Init => SourceInv
    /\ Restart => SourceInv'
<1>1. /\ << >> \in Seq(BlockRecords) /\ << >> \in Seq(Seq(EventRecords)) /\ DOMAIN << >> = {}
      /\ IsFiniteSet({}) /\ [a \in Senders |-> 0] \in [Senders -> Nat]
  BY FS_EmptySet
<1>2. \A a \in Senders : [b \in Senders |-> 0][a] = Saturating(0)
  BY SourceConstants DEF Saturating
<1>3. ASSUME NEW a
      PROVE  LET mine == {q \in {} : q.recipient = a}
             IN  SumOf([q \in mine |-> q.amount], mine) = 0
  <2>1. {q \in {} : q.recipient = a} = {}
    OBVIOUS
  <2> QED BY <2>1, SumEmpty
<1>4. ASSUME Init PROVE SourceInv
  <2>1. ReleasedMatchesBurns
    BY <1>2, <1>3, <1>4 DEF Init, ReleasedMatchesBurns
  <2> QED BY <1>1, <1>4, <2>1 DEF Init, SourceInv, SourceTypeOK, ChainIsHonest
<1>5. ASSUME Restart PROVE SourceInv'
  <2>1. ReleasedMatchesBurns'
    BY <1>2, <1>3, <1>5 DEF Restart, ReleasedMatchesBurns
  <2> QED BY <1>1, <1>5, <2>1 DEF Restart, SourceInv, SourceTypeOK, ChainIsHonest
<1> QED BY <1>4, <1>5

\* The events of all blocks are events.
LEMMA LockEventsAreRecords ==
    ASSUME SourceTypeOK
    PROVE  LockEvents \subseteq EventRecords
<1> SUFFICES ASSUME NEW h \in DOMAIN events, NEW i \in DOMAIN events[h]
             PROVE  events[h][i] \in EventRecords
  BY DEF LockEvents, Range
<1>1. events[h] \in Seq(EventRecords)
  BY DEF SourceTypeOK
<1> QED BY <1>1

\* Every step of the source keeps its invariant.
LEMMA SourceStep == SourceInv /\ [Next]_sourceVars => SourceInv'
<1> SUFFICES ASSUME SourceInv, [Next]_sourceVars PROVE SourceInv'
  OBVIOUS
<1>1. ASSUME NEW added \in Seq(EventRecords), ProduceWith(added), eventNonce' \in Nat,
             UNCHANGED <<unlocked, burnUnlocks, released>>
      PROVE  SourceInv'
  <2>1. /\ blocks' \in Seq(BlockRecords) /\ events' \in Seq(Seq(EventRecords))
        /\ ChainIsHonest'
    BY <1>1, ProduceKeepsChain DEF SourceInv
  <2>2. ReleasedMatchesBurns'
    BY <1>1 DEF SourceInv, ReleasedMatchesBurns
  <2> QED BY <1>1, <2>1, <2>2 DEF SourceInv, SourceTypeOK
<1>2. CASE ProduceBlock
  <2>1. << >> \in Seq(EventRecords)
    OBVIOUS
  <2> QED BY <1>1, <1>2, <2>1 DEF ProduceBlock, SourceInv, SourceTypeOK
<1>3. ASSUME NEW amount \in LockAmounts, NEW recipient \in Senders, NEW sender \in Senders,
             NEW count \in Counts, PostLock(amount, recipient, sender, count)
      PROVE  SourceInv'
  <2> DEFINE added == [i \in 1..count |-> LockEvent(i, amount, recipient, sender)]
  <2>1. added \in Seq(EventRecords) /\ count \in Nat
    BY LockEventType DEF SourceInv
  <2>2. ProduceWith(added) /\ eventNonce' = eventNonce + count
        /\ UNCHANGED <<unlocked, burnUnlocks, released>>
    BY <1>3 DEF PostLock
  <2>3. eventNonce' \in Nat
    BY <2>1, <2>2 DEF SourceInv, SourceTypeOK
  <2> HIDE DEF added
  <2> QED BY <1>1, <2>1, <2>2, <2>3
<1>4. ASSUME NEW m \in LockEvents, UnlockMessage(m)
      PROVE  SourceInv'
  <2>1. m \in EventRecords
    BY LockEventsAreRecords DEF SourceInv
  <2> QED BY <1>4, <2>1
       DEF UnlockMessage, SourceInv, SourceTypeOK, ChainIsHonest, ReleasedMatchesBurns
<1>5. ASSUME NEW q \in UnlockRequests, ConsumeBurnUnlock(q)
      PROVE  SourceInv'
  <2>1. ChainIsHonest'
    BY <1>5 DEF ConsumeBurnUnlock, SourceInv, ChainIsHonest
  <2> QED BY <1>5, <2>1, ConsumeKeepsBooks DEF SourceInv
<1>6. CASE Restart
  BY <1>6, SourceStarts
<1>7. CASE UNCHANGED sourceVars
  BY <1>7 DEF sourceVars, SourceInv, SourceTypeOK, ChainIsHonest, ReleasedMatchesBurns
<1> QED BY <1>2, <1>3, <1>4, <1>5, <1>6, <1>7 DEF Next

\* The source keeps its invariant through any requests and restarts.
LEMMA SourceIsSound == Spec => []SourceInv
BY SourceStarts, SourceStep, PTL DEF Spec

\* What was released to somebody is, in every state, the sum of the burns
\* consumed for them up to the counter's width, and no burn id is consumed twice.
THEOREM ReleasesAreTheBurns == Spec => []ReleasedMatchesBurns
<1>1. SourceInv => ReleasedMatchesBurns
  BY DEF SourceInv
<1> QED BY <1>1, SourceIsSound, PTL
-----------------------------------------------------------------------------
(* The adapter beside the source.                                          *)

\* A step of the composition is a step of the source or leaves it alone.
LEMMA AdapterMovesSource == AdapterSpec => Spec
<1>1. AdapterInit => Init
  BY DEF AdapterInit
<1>2. [AdapterNext]_adapterVars => [Next]_sourceVars
  BY DEF AdapterNext, adapterVars
<1> QED BY <1>1, <1>2, PTL DEF AdapterSpec, Spec

\* Heights and roots of the chain, genesis included.
LEMMA BlockNames ==
    ASSUME SourceInv, NEW height \in 0..LatestHeight
    PROVE  Block(height).root = height /\ height \in Nat
<1>1. Len(blocks) \in Nat /\ DOMAIN blocks = 1..Len(blocks)
  BY DEF SourceInv, SourceTypeOK
<1>2. height \in Nat
  BY <1>1 DEF LatestHeight
<1>3. CASE height = 0
  BY <1>2, <1>3 DEF Block, Genesis
<1>4. CASE height # 0
  <2>1. height \in DOMAIN blocks
    BY <1>1, <1>2, <1>4 DEF LatestHeight
  <2> QED BY <1>2, <1>4, <2>1 DEF SourceInv, ChainIsHonest, Block
<1> QED BY <1>3, <1>4

\* The payload of the other lane is not one the adapter can decode.
LEMMA ZkPayloadRefused ==
    ASSUME NEW height
    PROVE  ~Decodes(ZkPayload(height))
<1>1. "root" \notin DOMAIN ZkPayload(height)
  BY DEF ZkPayload
<1> QED BY <1>1 DEF Decodes

\* Which payloads of its own lane it decodes.
LEMMA BlsPayloadDecodes ==
    ASSUME NEW height \in Nat, NEW tamper \in Tampers
    PROVE  Decodes(BlsPayload(height, tamper)) <=> height # 0 /\ tamper # "sig"
<1> DEFINE p == BlsPayload(height, tamper)
<1>1. DOMAIN p = {"height", "root", "event", "signers", "required", "sig", "key"}
  BY DEF BlsPayload
<1>2. /\ p.height = height /\ p.required = 2 /\ p.signers = 3 /\ p.key = "keys"
      /\ p.sig = IF tamper = "sig" THEN "zero" ELSE "signed"
  BY DEF BlsPayload
<1> HIDE DEF p
<1>3. p.sig # "zero" <=> tamper # "sig"
  BY <1>2
<1>4. Decodes(p) <=> height # 0 /\ tamper # "sig"
  BY <1>1, <1>2, <1>3 DEF Decodes
<1> QED BY <1>4 DEF p

\* The judgement of one document, whatever was asked of the source.
LEMMA DocumentJudged ==
    ASSUME SourceInv, NEW height \in 0..LatestHeight, NEW kind \in {"bls", "zk"},
           NEW tamper \in Tampers, NEW minHeight \in MinHeights, NEW slashable \in BOOLEAN
    PROVE  LET document == ProofDocument(height, kind, tamper)
           IN  AdapterVerifies(document, Policy(document, minHeight, slashable))
               <=> /\ kind = "bls" /\ tamper = "none" /\ ~slashable
                   /\ height >= 1 /\ height >= minHeight
<1> DEFINE document == ProofDocument(height, kind, tamper)
           policy == Policy(document, minHeight, slashable)
<1>1. height \in Nat /\ minHeight \in Nat /\ Block(height).root = height
  BY BlockNames, AdapterConstants
<1>2. /\ document.adapter = kind /\ document.height = height
      /\ document.version = IF tamper = "version" THEN 99 ELSE 1
      /\ document.payload = IF kind = "bls" THEN BlsPayload(height, tamper) ELSE ZkPayload(height)
  BY DEF ProofDocument
<1>3. CASE kind # "bls"
  BY <1>2, <1>3 DEF AdapterVerifies
<1>4. CASE kind = "bls"
  <2> DEFINE payload == BlsPayload(height, tamper)
  <2>1. document.payload = payload /\ document.adapter = "bls"
    BY <1>2, <1>4
  <2>2. payload.height = height /\ payload.root = height
    BY <1>1 DEF BlsPayload
  <2>3. Decodes(payload) <=> height # 0 /\ tamper # "sig"
    BY <1>1, BlsPayloadDecodes
  <2>4. document.version \in AcceptedVersions <=> tamper # "version"
    BY <1>2 DEF AcceptedVersions
  <2>5. DeclaredMatches(document) <=> tamper # "root"
    <3>1. document.root = IF tamper = "root" THEN NoRoot ELSE height
      BY <1>1, <1>4 DEF ProofDocument
    <3>2. document.payload.height = document.height /\ document.payload.root = height
      BY <1>2, <2>1, <2>2
    <3> HIDE DEF document
    <3> QED BY <1>1, <3>1, <3>2 DEF DeclaredMatches, NoRoot
  <2>6. PolicyAllows(payload, policy) <=> height >= minHeight /\ ~slashable
    <3>1. /\ policy.minHeight = minHeight /\ policy.maxAge = 0 /\ policy.now = height
          /\ policy.requireSlashable = slashable
      BY <1>2 DEF Policy
    <3> HIDE DEF payload, policy
    <3>2. policy.now - payload.height <= policy.maxAge
      BY <1>1, <2>2, <3>1
    <3> QED BY <1>1, <2>2, <3>1, <3>2 DEF PolicyAllows
  <2>7. tamper = "none" <=> tamper # "sig" /\ tamper # "version" /\ tamper # "root"
    BY DEF Tampers
  <2>8. height >= 1 <=> height # 0
    BY <1>1
  <2>9. AdapterVerifies(document, policy)
           <=> /\ tamper # "version" /\ height # 0 /\ tamper # "sig" /\ tamper # "root"
               /\ height >= minHeight /\ ~slashable
    <3> HIDE DEF document, policy, payload
    <3> QED BY <2>1, <2>3, <2>4, <2>5, <2>6 DEF AdapterVerifies
  <2> HIDE DEF document, policy, payload
  <2>10. AdapterVerifies(document, policy)
            <=> /\ kind = "bls" /\ tamper = "none" /\ ~slashable
                /\ height >= 1 /\ height >= minHeight
    BY <1>4, <2>7, <2>8, <2>9
  <2> QED BY <2>10 DEF document, policy
<1> QED BY <1>3, <1>4

\* In every state of the source the adapter attests exactly the honest documents
\* of its blocks after genesis, for every policy a caller may ask for.
THEOREM HonestBlocksAreAttested == AdapterSpec => []AttestsHonestBlocks
<1>1. SourceInv => AttestsHonestBlocks
  BY DocumentJudged DEF AttestsHonestBlocks
<1> QED BY <1>1, SourceIsSound, AdapterMovesSource, PTL

-----------------------------------------------------------------------------
(* The replay guard.                                                       *)

\* What is at or below the mark a table holds for its route.
Behind(table, m) == Route(m) \in DOMAIN table /\ m.nonce <= table[Route(m)]

\* Whatever the guard admitted or remembers is behind its route's mark.
GuardInv ==
    /\ admitted \in Seq(EventRecords)
    /\ \A r \in DOMAIN marks : marks[r] \in Nat
    /\ processedIds \subseteq EventRecords
    /\ \A i \in DOMAIN admitted : Behind(marks, admitted[i])
    /\ IdsBehindTheMarks
    /\ AdmittedOnce

\* An admission raises the mark of its route and no other.
LEMMA MarkRises ==
    ASSUME GuardInv, NEW m \in EventRecords, Advances(m), marks' = MarkRaised(m)
    PROVE  /\ \A r \in DOMAIN marks' : marks'[r] \in Nat
           /\ Behind(marks', m)
           /\ \A n \in EventRecords : Behind(marks, n) => Behind(marks', n)
           /\ ~Behind(marks, m)
<1>1. m.nonce \in Nat /\ \A r \in DOMAIN marks : marks[r] \in Nat
  BY DEF EventRecords, GuardInv
<1>2. /\ DOMAIN marks' = DOMAIN marks \cup {Route(m)} /\ marks'[Route(m)] = m.nonce
      /\ \A r \in DOMAIN marks : r # Route(m) => marks'[r] = marks[r]
  BY DEF MarkRaised
<1>3. Route(m) \in DOMAIN marks => m.nonce > marks[Route(m)]
  BY DEF Advances
<1>4. \A r \in DOMAIN marks' : marks'[r] \in Nat
  BY <1>1, <1>2
<1>5. Behind(marks', m)
  BY <1>1, <1>2 DEF Behind, Route
<1>6. ASSUME NEW n \in EventRecords, Behind(marks, n) PROVE Behind(marks', n)
  <2>1. n.nonce \in Nat /\ Route(n) \in DOMAIN marks /\ n.nonce <= marks[Route(n)]
    BY <1>6 DEF Behind, EventRecords
  <2>2. CASE Route(n) = Route(m)
    <3>1. marks[Route(m)] \in Nat /\ n.nonce <= marks[Route(m)] /\ m.nonce > marks[Route(m)]
      BY <1>1, <1>3, <2>1, <2>2
    <3>2. n.nonce <= m.nonce
      BY <1>1, <2>1, <3>1
    <3> QED BY <1>2, <2>2, <3>2 DEF Behind, Route
  <2>3. CASE Route(n) # Route(m)
    BY <1>2, <2>1, <2>3 DEF Behind, Route
  <2> QED BY <2>2, <2>3
<1>7. ~Behind(marks, m)
  BY <1>1, <1>3 DEF Behind
<1> QED BY <1>4, <1>5, <1>6, <1>7

\* What is evicted only makes the memory smaller.
LEMMA EvictedIsLess ==
    ASSUME NEW ids, NEW left \in Evicted(ids)
    PROVE  left \subseteq ids
BY DEF Evicted

\* An admission keeps the guard's invariant.
LEMMA AdmitKeepsGuard ==
    ASSUME GuardInv, NEW m \in EventRecords, NEW id, NEW height, Admit(id, m, height)
    PROVE  GuardInv'
<1>1. /\ id = m /\ Advances(m) /\ marks' = MarkRaised(m) /\ admitted' = Append(admitted, m)
      /\ processedIds' \in Evicted(processedIds \cup {m})
  BY DEF Admit, IdOf
<1>2. /\ \A r \in DOMAIN marks' : marks'[r] \in Nat
      /\ Behind(marks', m) /\ ~Behind(marks, m) /\ \A n \in EventRecords : Behind(marks, n) => Behind(marks', n)
  BY <1>1, MarkRises
<1>3. /\ admitted' \in Seq(EventRecords) /\ Len(admitted) \in Nat
      /\ DOMAIN admitted = 1..Len(admitted) /\ DOMAIN admitted' = 1..(Len(admitted) + 1)
      /\ admitted'[Len(admitted) + 1] = m
      /\ \A i \in 1..Len(admitted) : admitted'[i] = admitted[i] /\ admitted[i] \in EventRecords
  BY <1>1, AppendAtEnd DEF GuardInv
<1>4. processedIds' \subseteq processedIds \cup {m}
  BY <1>1, EvictedIsLess
<1>5. \A i \in DOMAIN admitted' : Behind(marks', admitted'[i])
  <2> SUFFICES ASSUME NEW i \in DOMAIN admitted' PROVE Behind(marks', admitted'[i])
    OBVIOUS
  <2>1. CASE i = Len(admitted) + 1
    BY <1>2, <1>3, <2>1
  <2>2. CASE i # Len(admitted) + 1
    <3>1. i \in DOMAIN admitted /\ admitted'[i] = admitted[i] /\ admitted[i] \in EventRecords
      BY <1>3, <2>2
    <3>2. Behind(marks, admitted[i])
      BY <3>1 DEF GuardInv
    <3> DEFINE n == admitted[i]
    <3>3. Behind(marks', n)
      BY <1>2, <3>1, <3>2
    <3> QED BY <3>1, <3>3 DEF Behind
  <2> QED BY <2>1, <2>2
<1>6. \A n \in processedIds' : Behind(marks', n)
  BY <1>2, <1>4 DEF GuardInv, IdsBehindTheMarks, Behind
<1>7. AdmittedOnce'
  <2>1. \A i \in DOMAIN admitted : admitted[i] # m
    BY <1>2 DEF GuardInv
  <2>2. \A i, j \in DOMAIN admitted' : admitted'[i] = admitted'[j] => i = j
    BY <1>3, <2>1 DEF GuardInv, AdmittedOnce
  <2> QED BY <2>2 DEF AdmittedOnce
<1>8. processedIds' \subseteq EventRecords
  BY <1>4 DEF GuardInv
<1> QED BY <1>2, <1>3, <1>5, <1>6, <1>7, <1>8 DEF GuardInv, IdsBehindTheMarks, Behind

\* Every step of the composition keeps the guard's invariant.
LEMMA GuardStep == SourceInv /\ GuardInv /\ [AdapterNext]_adapterVars => GuardInv'
<1> SUFFICES ASSUME SourceInv, GuardInv, [AdapterNext]_adapterVars PROVE GuardInv'
  OBVIOUS
<1>1. Presented \subseteq EventRecords
  <2>1. LockEvents \subseteq EventRecords
    BY LockEventsAreRecords DEF SourceInv
  <2>2. Range(admitted) \subseteq EventRecords
    BY DEF GuardInv, Range
  <2> QED BY <2>1, <2>2 DEF Presented
<1>2. CASE UNCHANGED guardVars
  BY <1>2 DEF guardVars, GuardInv, IdsBehindTheMarks, AdmittedOnce, Behind
<1>3. ASSUME NEW id \in Presented, NEW m \in Presented, NEW height \in Heights,
             Admit(id, m, height)
      PROVE  GuardInv'
  BY <1>1, <1>3, AdmitKeepsGuard
<1> QED BY <1>2, <1>3 DEF AdapterNext, adapterVars

\* A guard that admitted nothing has nothing to be behind a mark.
LEMMA GuardInit == AdapterInit => GuardInv
BY DEF AdapterInit, NoMarks, GuardInv, IdsBehindTheMarks, AdmittedOnce

\* The guard's invariant holds however the source runs and restarts.
LEMMA GuardIsSound == AdapterSpec => []GuardInv
<1>1. AdapterSpec => []SourceInv
  BY SourceIsSound, AdapterMovesSource, PTL
<1> QED BY <1>1, GuardInit, GuardStep, PTL DEF AdapterSpec

\* No message is admitted twice, whatever the guard has forgotten and however
\* often the source started again.
THEOREM EachIsAdmittedOnce == AdapterSpec => []AdmittedOnce
<1>1. GuardInv => AdmittedOnce
  BY DEF GuardInv
<1> QED BY <1>1, GuardIsSound, PTL

\* An id the guard remembers belongs to a message its marks refuse anyway, so
\* the bound on that memory opens no door.
THEOREM MemoryDecidesNothing == AdapterSpec => []IdsBehindTheMarks
<1>1. GuardInv => IdsBehindTheMarks
  BY DEF GuardInv
<1> QED BY <1>1, GuardIsSound, PTL

-----------------------------------------------------------------------------
(* The records of the anchor.                                              *)

Facts == [kind : {"lock", "payment", "transaction"}, account : Clients,
          amount : LockedAmounts \cup PaidAmounts \cup {0}, ok : BOOLEAN]
Records == [kind : {"deposit", "withdrawal"}, account : Clients,
            status : {"start", "pending_anchor", "completed"}, amount_in : Asked, fee : {0, FEE},
            external : Nat, stellar : Nat, lock : Nat, payment : Nat, burn : Nat]

\* Two records of one request.
SameRequest(r, c) ==
    r.kind = c.kind /\ r.account = c.account /\ r.amount_in = c.amount_in /\ r.fee = c.fee

\* A copy, however old, is a copy of what was asked for under its id.
CopyOf(c, id, doc) ==
    /\ c \in Records /\ id \in 1 .. created
    /\ id \in DOMAIN doc => SameRequest(doc[id], c)

FactsTyped == facts \in Seq(Facts) /\ \A i \in Happened("lock") : facts[i].ok

StoreBacked(doc) ==
    /\ DOMAIN doc \subseteq 1 .. created
    /\ ~unread => DOMAIN doc = 1 .. created
    /\ \A id \in DOMAIN doc : doc[id] \in Records /\ Backed(doc[id])
FileBacked == created \in Nat /\ unread \in BOOLEAN /\ StoreBacked(file)

\* The local variables of a pass.
Opened(open, doc) ==
    \A id \in DOMAIN open : open[id].kind = "deposit" /\ CopyOf(open[id], id, doc)
Heard(seen, cache) ==
    /\ seen \subseteq Happened("lock")
    /\ DOMAIN cache = Clients
    /\ \A c \in Clients : \A payments \in cache[c] : payments \subseteq PaymentsTo(c)
PassOK(pass, doc) ==
    /\ Opened(pass.open, doc) /\ Heard(pass.events, pass.cache)
    /\ pass.at = "payments" => DOMAIN pass.open # {}
PassesKnow == DOMAIN passes = Passes /\ \A p \in Passes : PassOK(passes[p], file)

ReportsKnow ==
    \A call \in reported : call.copy.kind = "withdrawal" /\ CopyOf(call.copy, call.id, file)

\* The inductive invariant of the anchor.
AnchorInv == FactsTyped /\ FileBacked /\ PassesKnow /\ ReportsKnow

\* Nothing is asked for, nothing has happened.
LEMMA AnchorStarts == AnchorInit => AnchorInv
<1> SUFFICES ASSUME AnchorInit PROVE AnchorInv
  OBVIOUS
<1>1. FactsTyped
  BY DEF AnchorInit, FactsTyped, Happened
<1>2. FileBacked
  <2>1. DOMAIN file = {} /\ 1 .. created = {} /\ created = 0 /\ unread = FALSE
    BY DEF AnchorInit, Nothing
  <2> QED BY <2>1 DEF FileBacked, StoreBacked
<1>3. PassesKnow
  BY DEF AnchorInit, PassesKnow, PassOK, Opened, Heard, Idle, Nothing
<1>4. ReportsKnow
  BY DEF AnchorInit, ReportsKnow
<1> QED BY <1>1, <1>2, <1>3, <1>4 DEF AnchorInv

\* A record is changed by a patch that keeps it backed: the file stays backed and
\* every copy a copy.
LEMMA PatchKeeps ==
    ASSUME created \in Nat, NEW doc, StoreBacked(doc), NEW id \in DOMAIN doc, NEW r \in Records,
           Backed(r), SameRequest(r, doc[id])
    PROVE  LET patched == [doc EXCEPT ![id] = r]
           IN  /\ StoreBacked(patched)
               /\ \A c, i : CopyOf(c, i, doc) => CopyOf(c, i, patched)
  BY DEF StoreBacked, CopyOf, SameRequest

\* What happens on the ledgers takes back nothing a record or a pass relies on.
LEMMA HappensKeeps ==
    ASSUME AnchorInv, NEW kind \in {"lock", "payment", "transaction"}, NEW c \in Clients,
           NEW a \in LockedAmounts \cup PaidAmounts \cup {0}, NEW ok \in BOOLEAN,
           kind = "lock" => ok, Happens(kind, c, a, ok)
    PROVE  AnchorInv'
<1>1. facts' \in Seq(Facts) /\ \A i \in DOMAIN facts : i \in DOMAIN facts' /\ facts'[i] = facts[i]
  BY DEF AnchorInv, FactsTyped, Happens, Facts
<1>2. FactsTyped'
  BY <1>1 DEF AnchorInv, FactsTyped, Happens, Facts, Happened
<1>3. \A k : Happened(k) \subseteq Happened(k)'
  BY <1>1 DEF Happened
<1>4. \A r : Backed(r) => Backed(r)'
  BY <1>1, <1>3 DEF Backed, Names, Happened
<1>5. \A d : PaymentsTo(d) \subseteq PaymentsTo(d)'
  BY <1>1, <1>3 DEF PaymentsTo, Happened
<1>6. UNCHANGED <<file, unread, created, passes, reported>>
  BY DEF Happens
<1> QED BY <1>2, <1>3, <1>4, <1>5, <1>6
        DEF AnchorInv, FileBacked, StoreBacked, PassesKnow, PassOK, Opened, Heard, CopyOf, ReportsKnow

\* Records of requests and patches are records, and what a patch leaves alone stays.
LEMMA Patches ==
    ASSUME NEW r \in Records, NEW c \in Records, NEW n \in Nat
    PROVE  /\ Locked(r, n) \in Records /\ SameRequest(Locked(r, n), r)
           /\ Paid(r, c, n) \in Records /\ SameRequest(Paid(r, c, n), r)
           /\ Burned(r, c, n) \in Records /\ SameRequest(Burned(r, c, n), r)
<1>1. Locked(r, n) \in Records /\ SameRequest(Locked(r, n), r)
  BY DEF Records, Locked, SameRequest, None
<1>2. c.lock \in Nat /\ c.payment \in Nat /\ c.burn \in Nat
  BY DEF Records
<1>3. Paid(r, c, n) \in Records /\ SameRequest(Paid(r, c, n), r)
  BY <1>2 DEF Records, Paid, SameRequest
<1>4. Burned(r, c, n) \in Records /\ SameRequest(Burned(r, c, n), r)
  BY <1>2 DEF Records, Burned, SameRequest
<1> QED BY <1>1, <1>3, <1>4

\* A deposit that names a payment of enough is backed as it was, and by the payment.
LEMMA PaymentBacks ==
    ASSUME NEW r \in Records, NEW c \in Records, NEW n \in Nat \ {0}, r.kind = "deposit", Backed(r),
           n \in Happened("payment"), facts[n].ok, facts[n].account = r.account,
           facts[n].amount >= r.amount_in
    PROVE  Backed(Paid(r, c, n))
<1> DEFINE q == Paid(r, c, n)
<1>1. /\ q.kind = r.kind /\ q.account = r.account /\ q.amount_in = r.amount_in /\ q.fee = r.fee
      /\ q.external = r.external /\ q.status = "completed" /\ q.stellar = n /\ q.payment = n
  BY DEF Paid, Records
<1> HIDE DEF q
<1>2. Names(n, "payment", q)
  BY <1>1 DEF Names
<1>3. q.external # None => /\ Names(q.external, "lock", q)
                           /\ facts[q.external].amount = q.amount_in + q.fee
  BY <1>1 DEF Backed, Names
<1> QED BY <1>1, <1>2, <1>3 DEF Backed, None, q

\* Instructions are written in front of what was read, which is all or nothing.
LEMMA InstructedKeeps ==
    ASSUME AnchorInv, NEW kind \in {"deposit", "withdrawal"}, NEW c \in Clients, NEW a \in Asked,
           NEW fee \in {0, FEE}, Instructed(kind, c, a, fee)
    PROVE  AnchorInv'
<1>1. created \in Nat /\ created' = created + 1 /\ facts' = facts
  BY DEF AnchorInv, FileBacked, Instructed
<1>2. PICK doc \in {file, Nothing} :
         /\ unread' = (unread \/ doc # file)
         /\ file' = [id \in DOMAIN doc \cup {created'} |->
                       IF id = created' THEN Started(kind, c, a, fee) ELSE doc[id]]
  BY DEF Instructed
<1>3. DOMAIN doc \subseteq 1 .. created /\ \A id \in DOMAIN doc : id \in DOMAIN file /\ doc[id] = file[id]
  BY <1>2 DEF AnchorInv, FileBacked, StoreBacked, Nothing
<1>4. created' \notin 1 .. created /\ 1 .. created' = (1 .. created) \cup {created'}
  BY <1>1
<1>5. FactsTyped'
  BY <1>1 DEF AnchorInv, FactsTyped, Happened
<1>6. \A r : Backed(r)' <=> Backed(r)
  BY <1>1 DEF Backed, Names, Happened
<1>7. FileBacked'
  <2>1. Started(kind, c, a, fee) \in Records /\ Backed(Started(kind, c, a, fee))
    BY DEF Started, Records, Backed, None
  <2>2. \A id \in DOMAIN file' : file'[id] \in Records /\ Backed(file'[id])
    BY <1>2, <1>3, <2>1 DEF AnchorInv, FileBacked, StoreBacked
  <2>3. DOMAIN file' \subseteq 1 .. created'
    BY <1>2, <1>3, <1>4
  <2>4. ~unread' => DOMAIN file' = 1 .. created'
    BY <1>2, <1>4 DEF AnchorInv, FileBacked, StoreBacked
  <2>5. unread' \in BOOLEAN
    BY <1>2 DEF AnchorInv, FileBacked
  <2> QED BY <1>1, <1>6, <2>2, <2>3, <2>4, <2>5 DEF FileBacked, StoreBacked
<1>8. \A k, id : CopyOf(k, id, file) => CopyOf(k, id, file)'
  <2> SUFFICES ASSUME NEW k, NEW id, CopyOf(k, id, file) PROVE CopyOf(k, id, file)'
    OBVIOUS
  <2>1. id \in 1 .. created /\ id # created'
    BY <1>4 DEF CopyOf
  <2>2. id \in DOMAIN file' => id \in DOMAIN file /\ file'[id] = file[id]
    BY <1>2, <1>3, <2>1
  <2> QED BY <1>4, <2>1, <2>2 DEF CopyOf
<1>9. UNCHANGED <<passes, reported>>
  BY DEF Instructed
<1> QED BY <1>1, <1>5, <1>7, <1>8, <1>9
        DEF AnchorInv, PassesKnow, PassOK, Opened, Heard, ReportsKnow, Happened, PaymentsTo

\* A pass that goes on with what it holds, over a file that has at most been patched.
LEMMA ProceedKeeps ==
    ASSUME AnchorInv, NEW p \in Passes, NEW open, NEW seen, NEW cache, NEW doc,
           StoreBacked(doc), \A c, i : CopyOf(c, i, file) => CopyOf(c, i, doc),
           Opened(open, doc), Heard(seen, cache), Proceed(p, open, seen, cache, doc),
           UNCHANGED <<unread, created, facts, reported>>
    PROVE  AnchorInv'
<1>1. created \in Nat /\ unread \in BOOLEAN
  BY DEF AnchorInv, FileBacked
<1>2. FactsTyped' /\ \A r : Backed(r)' <=> Backed(r)
  BY DEF AnchorInv, FactsTyped, Happened, Backed, Names
<1>3. \A d : StoreBacked(d)' <=> StoreBacked(d)
  BY <1>2 DEF StoreBacked
<1>4. /\ \A c, i, d : CopyOf(c, i, d)' <=> CopyOf(c, i, d)
      /\ \A o, d : Opened(o, d)' <=> Opened(o, d)
      /\ \A v, h : Heard(v, h)' <=> Heard(v, h)
      /\ \A s, d : PassOK(s, d)' <=> PassOK(s, d)
  BY DEF CopyOf, Opened, Heard, PassOK, Happened, PaymentsTo
<1> DEFINE Written(f, pass) ==
       /\ StoreBacked(f) /\ PassOK(pass, f)
       /\ \A c, i : CopyOf(c, i, file) => CopyOf(c, i, f)
<1>5. ASSUME NEW f, NEW pass, Written(f, pass), file' = f, passes' = [passes EXCEPT ![p] = pass]
      PROVE  AnchorInv'
  <2>1. \A s : PassOK(s, file) => PassOK(s, f)
    BY <1>5 DEF PassOK, Opened
  <2>2. PassesKnow'
    BY <1>4, <1>5, <2>1 DEF AnchorInv, PassesKnow
  <2>3. ReportsKnow'
    BY <1>4, <1>5 DEF AnchorInv, ReportsKnow
  <2> QED BY <1>1, <1>2, <1>3, <1>5, <2>2, <2>3 DEF AnchorInv, FileBacked
<1>6. PassOK(Idle, doc)
  BY DEF PassOK, Opened, Heard, Idle, Nothing
<1>7. CASE DOMAIN open = {} \/ (file' = doc /\ Ends(p))
  BY <1>5, <1>6, <1>7 DEF Proceed, Ends
<1>8. CASE DOMAIN open # {} /\ ~(file' = doc /\ Ends(p))
  <2> DEFINE id == Max(DOMAIN open)
             match == Matching(open[id], seen)
             waiting(o) == [at |-> "payments", open |-> o, events |-> seen, cache |-> cache]
  <2>1. id \in DOMAIN open
    BY <1>1, <1>8, FirstAndLast DEF Opened, CopyOf
  <2>2. CASE Wait(p, "payments", open, seen, cache) /\ file' = doc
    <3>1. PassOK(waiting(open), doc)
      BY <1>8 DEF PassOK
    <3> QED BY <1>5, <2>2, <3>1 DEF Wait
  <2>3. CASE /\ match # {} /\ id \in DOMAIN doc
             /\ file' = [doc EXCEPT ![id] = Locked(doc[id], Min(match))]
             /\ Wait(p, "payments", [open EXCEPT ![id] = file'[id]], seen, cache)
    <3> DEFINE lock == Min(match)
               r == Locked(doc[id], lock)
               f == [doc EXCEPT ![id] = r]
               o == [open EXCEPT ![id] = r]
    <3>1. lock \in match
      <4>1. match \subseteq 1 .. Len(facts) /\ Len(facts) \in Nat
        BY DEF Matching, Heard, Happened, AnchorInv, FactsTyped
      <4> QED BY <2>3, <4>1, FirstAndLast
    <3>2. /\ lock \in Happened("lock") /\ lock \in Nat \ {0}
          /\ facts[lock].account = open[id].account /\ facts[lock].ok
          /\ facts[lock].amount = open[id].amount_in + open[id].fee
      <4>1. /\ lock \in seen /\ facts[lock].account = open[id].account
            /\ facts[lock].amount = Wanted(open[id])
        BY <3>1 DEF Matching
      <4> HIDE DEF lock
      <4>2. lock \in Happened("lock")
        BY <4>1 DEF Heard
      <4>3. lock \in DOMAIN facts /\ facts \in Seq(Facts) /\ facts[lock].ok
        BY <4>2 DEF Happened, AnchorInv, FactsTyped
      <4>4. lock \in Nat \ {0}
        BY <4>3
      <4> QED BY <4>1, <4>2, <4>3, <4>4 DEF Wanted
    <3>3. doc[id] \in Records /\ Backed(doc[id]) /\ SameRequest(doc[id], open[id])
          /\ doc[id].kind = "deposit"
      BY <2>1, <2>3 DEF StoreBacked, Opened, CopyOf, SameRequest
    <3>4. r \in Records /\ SameRequest(r, doc[id])
      BY <3>2, <3>3, Patches
    <3>5. Backed(r)
      BY <3>2, <3>3 DEF Backed, Locked, Names, SameRequest, Records, None
    <3>6. StoreBacked(f) /\ \A c, i : CopyOf(c, i, doc) => CopyOf(c, i, f)
      BY <1>1, <2>3, <3>3, <3>4, <3>5, PatchKeeps
    <3>7. Opened(o, f)
      <4>1. CopyOf(r, id, f) /\ r.kind = "deposit"
        BY <2>1, <2>3, <3>3, <3>4 DEF CopyOf, SameRequest, Opened
      <4> QED BY <3>6, <4>1 DEF Opened
    <3>8. DOMAIN o # {}
      BY <2>1
    <3>9. PassOK(waiting(o), f)
      BY <3>7, <3>8 DEF PassOK
    <3>10. file' = f /\ passes' = [passes EXCEPT ![p] = waiting(o)]
      BY <2>3 DEF Wait
    <3> QED BY <1>5, <3>6, <3>9, <3>10
  <2> QED BY <1>8, <2>2, <2>3 DEF Proceed
<1> QED BY <1>7, <1>8

\* The steps of a pass.
LEMMA PassKeeps ==
    ASSUME AnchorInv, NEW p \in Passes,
           ReconcileBegins(p) \/ EventsAnswered(p) \/ PaymentsAnswered(p)
    PROVE  AnchorInv'
<1>1. /\ created \in Nat /\ StoreBacked(file) /\ PassOK(passes[p], file)
      /\ Opened(passes[p].open, file) /\ Heard(passes[p].events, passes[p].cache)
  BY DEF AnchorInv, FileBacked, PassesKnow, PassOK
<1>2. CASE ReconcileBegins(p)
  <2>1. \A c, i, d : CopyOf(c, i, d)' <=> CopyOf(c, i, d)
    BY <1>2 DEF ReconcileBegins, CopyOf
  <2>2. Opened(Open(file), file)
    BY <1>1 DEF Opened, Open, CopyOf, SameRequest, StoreBacked
  <2>3. Heard({}, Idle.cache)
    BY DEF Heard, Idle
  <2> DEFINE begun == [at |-> "events", open |-> Open(file), events |-> {}, cache |-> Idle.cache]
  <2>4. PassOK(begun, file) /\ passes' = [passes EXCEPT ![p] = begun]
    BY <1>2, <2>2, <2>3 DEF PassOK, ReconcileBegins, Wait
  <2>5. UNCHANGED <<file, unread, created, facts, reported>>
    BY <1>2 DEF ReconcileBegins
  <2>6. \A s : PassOK(s, file)' <=> PassOK(s, file)
    BY <2>5 DEF PassOK, Opened, Heard, CopyOf, Happened, PaymentsTo
  <2>7. PassesKnow'
    <3> HIDE DEF begun
    <3> QED BY <2>4, <2>5, <2>6 DEF AnchorInv, PassesKnow
  <2>8. FactsTyped' /\ FileBacked' /\ ReportsKnow'
    BY <2>5 DEF AnchorInv, FactsTyped, Happened, FileBacked, StoreBacked, Backed, Names, ReportsKnow,
                CopyOf
  <2> QED BY <2>7, <2>8 DEF AnchorInv
<1>3. CASE EventsAnswered(p)
  <2>1. PICK seen \in {Happened("lock"), {}} :
           Proceed(p, passes[p].open, seen, passes[p].cache, file)
    BY <1>3 DEF EventsAnswered
  <2>2. Heard(seen, passes[p].cache)
    BY <1>1 DEF Heard
  <2> QED BY <1>1, <1>3, <2>1, <2>2, ProceedKeeps DEF EventsAnswered
<1>4. CASE PaymentsAnswered(p)
  <2> DEFINE open == passes[p].open
             id == Max(DOMAIN open)
             rest == [i \in DOMAIN open \ {id} |-> open[i]]
             cache(payments) == [passes[p].cache EXCEPT ![open[id].account] = {payments}]
             patched(payments) ==
               [file EXCEPT ![id] = Paid(file[id], open[id], Max(Paying(open[id], payments)))]
  <2>1. id \in DOMAIN open
    BY <1>1, <1>4, FirstAndLast DEF PaymentsAnswered, PassOK, Opened, CopyOf
  <2>2. PICK payments \in Answers(p, open[id].account) :
          IF Paying(open[id], payments) = {}
          THEN Proceed(p, rest, passes[p].events, cache(payments), file)
          ELSE \/ Ends(p) /\ UNCHANGED file
               \/ /\ id \in DOMAIN file
                  /\ Proceed(p, rest, passes[p].events, cache(payments), patched(payments))
    BY <1>4 DEF PaymentsAnswered
  <2> DEFINE paying == Paying(open[id], payments)
             payment == Max(paying)
             r == Paid(file[id], open[id], payment)
  <2>3. UNCHANGED <<unread, created, facts, reported>>
    BY <1>4 DEF PaymentsAnswered
  <2>4. Opened(rest, file)
    BY <1>1 DEF Opened
  <2>5. open[id] \in Records /\ open[id].account \in Clients /\ open[id].kind = "deposit"
    BY <1>1, <2>1 DEF Opened, CopyOf, Records
  <2>6. payments \subseteq PaymentsTo(open[id].account)
    BY <1>1, <2>5 DEF Heard, Answers
  <2>7. Heard(passes[p].events, cache(payments))
    BY <1>1, <2>5, <2>6 DEF Heard
  <2>8. CASE paying = {}
    <3>1. Proceed(p, rest, passes[p].events, cache(payments), file)
      BY <2>2, <2>8
    <3> HIDE DEF rest, cache
    <3> QED BY <1>1, <2>3, <2>4, <2>7, <3>1, ProceedKeeps
  <2>9. CASE paying # {} /\ Ends(p) /\ UNCHANGED file
    <3>1. Proceed(p, Nothing, {}, Idle.cache, file)
      BY <2>9 DEF Proceed, Nothing
    <3>2. Opened(Nothing, file) /\ Heard({}, Idle.cache)
      BY DEF Opened, Nothing, Heard, Idle
    <3> QED BY <1>1, <2>3, <3>1, <3>2, ProceedKeeps
  <2>10. CASE /\ paying # {} /\ id \in DOMAIN file
              /\ Proceed(p, rest, passes[p].events, cache(payments), patched(payments))
    <3>1. payment \in paying
      <4>1. paying \subseteq 1 .. Len(facts) /\ Len(facts) \in Nat
        BY <2>6 DEF Paying, PaymentsTo, Happened, AnchorInv, FactsTyped
      <4> QED BY <2>10, <4>1, FirstAndLast
    <3>2. /\ payment \in Happened("payment") /\ payment \in Nat \ {0} /\ facts[payment].ok
          /\ facts[payment].account = open[id].account
          /\ facts[payment].amount >= open[id].amount_in
      <4>1. payment \in PaymentsTo(open[id].account)
        BY <2>6, <3>1 DEF Paying
      <4>2. payment \in DOMAIN facts /\ facts \in Seq(Facts)
        BY <4>1 DEF PaymentsTo, Happened, AnchorInv, FactsTyped
      <4>3. facts[payment].ok /\ facts[payment].amount >= open[id].amount_in
        BY <3>1 DEF Paying
      <4> HIDE DEF payment
      <4>4. payment \in Nat \ {0}
        BY <4>2
      <4> QED BY <4>1, <4>3, <4>4 DEF PaymentsTo
    <3>3. file[id] \in Records /\ Backed(file[id]) /\ SameRequest(file[id], open[id])
      BY <1>1, <2>1, <2>10 DEF StoreBacked, Opened, CopyOf
    <3>4. r \in Records /\ SameRequest(r, file[id])
      BY <2>5, <3>2, <3>3, Patches
    <3>5. Backed(r)
      <4>1. /\ file[id].kind = "deposit" /\ file[id].account = open[id].account
            /\ file[id].amount_in = open[id].amount_in
        BY <2>5, <3>3 DEF SameRequest
      <4> HIDE DEF payment, open, id
      <4> QED BY <2>5, <3>2, <3>3, <4>1, PaymentBacks DEF r
    <3> DEFINE f == patched(payments)
    <3>6. StoreBacked(f) /\ \A c, i : CopyOf(c, i, file) => CopyOf(c, i, f)
      BY <1>1, <2>10, <3>3, <3>4, <3>5, PatchKeeps
    <3>7. Opened(rest, f)
      BY <2>4, <3>6 DEF Opened
    <3> HIDE DEF rest, cache, f
    <3> QED BY <2>3, <2>7, <2>10, <3>6, <3>7, ProceedKeeps DEF f
  <2> QED BY <2>2, <2>8, <2>9, <2>10
<1> QED BY <1>2, <1>3, <1>4

\* The two steps of a burn report.
LEMMA ReportKeeps ==
    ASSUME AnchorInv,
           \/ \E id \in DOMAIN file, hash \in 1 .. MaxFacts : ReportBurn(id, hash)
           \/ \E call \in reported : BurnAnswered(call)
    PROVE  AnchorInv'
<1>1. created \in Nat /\ unread \in BOOLEAN /\ StoreBacked(file)
      /\ UNCHANGED <<unread, created, facts, passes>>
  BY DEF AnchorInv, FileBacked, ReportBurn, BurnAnswered
<1>2. FactsTyped' /\ \A r : Backed(r)' <=> Backed(r)
  BY <1>1 DEF AnchorInv, FactsTyped, Happened, Backed, Names
<1>3. \A c, i, d : CopyOf(c, i, d)' <=> CopyOf(c, i, d)
  BY <1>1 DEF CopyOf
<1>4. \A s, d : PassOK(s, d)' <=> PassOK(s, d)
  BY <1>1, <1>3 DEF PassOK, Opened, Heard, Happened, PaymentsTo
<1>5. ASSUME NEW id \in DOMAIN file, NEW hash, ReportBurn(id, hash) PROVE AnchorInv'
  <2>1. CopyOf(file[id], id, file)
    BY <1>1 DEF CopyOf, SameRequest, StoreBacked
  <2>2. UNCHANGED file
    BY <1>5 DEF ReportBurn
  <2>3. ReportsKnow'
    BY <1>3, <1>5, <2>1, <2>2 DEF AnchorInv, ReportsKnow, ReportBurn
  <2> QED BY <1>1, <1>2, <1>4, <2>2, <2>3 DEF AnchorInv, FileBacked, StoreBacked, PassesKnow
<1>6. ASSUME NEW call \in reported, BurnAnswered(call), file' = file PROVE AnchorInv'
  <2>1. ReportsKnow'
    BY <1>3, <1>6 DEF AnchorInv, ReportsKnow, BurnAnswered
  <2> QED BY <1>1, <1>2, <1>4, <1>6, <2>1 DEF AnchorInv, FileBacked, StoreBacked, PassesKnow
<1>7. ASSUME NEW call \in reported, BurnAnswered(call), file' # file PROVE AnchorInv'
  <2> DEFINE id == call.id
             r == Burned(file[id], call.copy, call.hash)
             f == [file EXCEPT ![id] = r]
  <2>1. /\ call.hash \in Happened("transaction") /\ facts[call.hash].ok
        /\ facts[call.hash].account = call.copy.account
        /\ id \in DOMAIN file /\ file' = f /\ reported' = reported \ {call}
    BY <1>7 DEF BurnAnswered
  <2>2. call.hash \in Nat \ {0}
    BY <2>1 DEF Happened, AnchorInv, FactsTyped
  <2>3. call.copy \in Records /\ call.copy.kind = "withdrawal" /\ SameRequest(file[id], call.copy)
    BY <2>1 DEF AnchorInv, ReportsKnow, CopyOf
  <2>4. file[id] \in Records /\ Backed(file[id])
    BY <1>1, <2>1 DEF StoreBacked
  <2>5. r \in Records /\ SameRequest(r, file[id])
    BY <2>2, <2>3, <2>4, Patches
  <2>6. Backed(r)
    BY <2>1, <2>2, <2>3, <2>4 DEF Backed, Burned, Names, SameRequest, Records, None
  <2>7. StoreBacked(f) /\ \A c, i : CopyOf(c, i, file) => CopyOf(c, i, f)
    BY <1>1, <2>1, <2>4, <2>5, <2>6, PatchKeeps
  <2> HIDE DEF f
  <2>8. FileBacked'
    BY <1>1, <1>2, <2>1, <2>7 DEF FileBacked, StoreBacked
  <2>9. PassesKnow'
    <3>1. \A s : PassOK(s, file) => PassOK(s, f)
      BY <2>7 DEF PassOK, Opened
    <3> QED BY <1>1, <1>4, <2>1, <3>1 DEF AnchorInv, PassesKnow
  <2>10. ReportsKnow'
    BY <1>3, <2>1, <2>7 DEF AnchorInv, ReportsKnow
  <2> QED BY <1>2, <2>8, <2>9, <2>10 DEF AnchorInv
<1> QED BY <1>5, <1>6, <1>7

\* Every step of the anchor keeps the invariant.
LEMMA AnchorStep == AnchorInv /\ [AnchorNext]_anchorVars => AnchorInv'
<1> SUFFICES ASSUME AnchorInv, [AnchorNext]_anchorVars PROVE AnchorInv'
  OBVIOUS
<1>1. ASSUME UNCHANGED <<file, unread, created, facts, passes, reported>> PROVE AnchorInv'
  BY <1>1 DEF AnchorInv, FactsTyped, FileBacked, StoreBacked, Backed, Names, PassesKnow, PassOK,
              Opened, Heard, CopyOf, ReportsKnow, Happened, PaymentsTo
<1>2. CASE LedgersMove
  BY <1>2, HappensKeeps DEF LedgersMove
<1>3. CASE ProcessEnds
  <2>1. PassOK(Idle, file)
    BY DEF PassOK, Opened, Heard, Idle, Nothing
  <2>2. UNCHANGED <<file, unread, created, facts>> /\ reported' = {}
        /\ passes' = [p \in Passes |-> Idle]
    BY <1>3 DEF ProcessEnds
  <2>3. PassOK(Idle, file)'
    BY <2>1, <2>2 DEF PassOK, Opened, Heard, CopyOf, Happened, PaymentsTo
  <2>4. PassesKnow' /\ ReportsKnow'
    BY <2>2, <2>3 DEF PassesKnow, ReportsKnow
  <2> QED BY <2>2, <2>4 DEF AnchorInv, FactsTyped, FileBacked, StoreBacked, Backed, Names, Happened
<1>4. CASE \E c \in Clients, a \in Asked : DepositInstructions(c, a) \/ WithdrawInstructions(c, a)
  BY <1>4, InstructedKeeps DEF DepositInstructions, WithdrawInstructions
<1>5. CASE Tick \/ (\E c \in Clients, keys \in SUBSET Clients : SignIn(c, keys)) \/ UNCHANGED anchorVars
  BY <1>1, <1>5 DEF Tick, SignIn, anchorVars
<1> QED BY <1>2, <1>3, <1>4, <1>5, PassKeeps, ReportKeeps DEF AnchorNext

\* Whatever passes and reports interleave, fail or are cut short, what a record
\* says has happened, and no record is missing that could be read.
THEOREM RecordsSayWhatHappened == AnchorSpec => []RecordsAreBacked
<1>1. AnchorInv => RecordsAreBacked
  BY DEF AnchorInv, FileBacked, StoreBacked, RecordsAreBacked
<1> QED BY <1>1, AnchorStarts, AnchorStep, PTL DEF AnchorSpec

\* --- the event tree ----------------------------------------------------------

\* The first n levels above the leaves of a list, the places an event takes in
\* them, and the first n hashes on the way up from a leaf.
LeavesOf(ids) == [i \in DOMAIN ids |-> Leaf(ids[i])]
IsLevels(f, ids, n) ==
    f = [k \in 0..n |-> IF k = 0 THEN [i \in DOMAIN ids |-> Leaf(ids[i])] ELSE Parents(f[k - 1])]
IsPlaces(f, i, n) == f = [k \in 0..n |-> IF k = 0 THEN i ELSE f[k - 1] \div 2]
IsClimb(f, leaf, proof, n) == f = [k \in 0..n |-> IF k = 0 THEN leaf ELSE Hash(f[k - 1], proof[k])]

\* A tree can be built level by level.
LEMMA LevelsExist ==
    ASSUME NEW list1, NEW n \in Nat
    PROVE  \E f : IsLevels(f, list1, n)
<1> SUFFICES ASSUME ~ \E f : IsLevels(f, list1, n) PROVE FALSE
  OBVIOUS
<1> DEFINE T == {m \in Nat : ~ \E f : IsLevels(f, list1, m)}
<1>1. PICK m \in T : \A y \in T : ~(y < m)
  <2>1. n \in T /\ T \subseteq Nat
    OBVIOUS
  <2> HIDE DEF T
  <2> QED BY <2>1, SmallestNat
<1>2. m \in Nat /\ ~ \E f : IsLevels(f, list1, m)
  BY <1>1
<1>3. m # 0
  <2> DEFINE f == [k \in 0..0 |-> [i \in DOMAIN list1 |-> Leaf(list1[i])]]
  <2>1. IsLevels(f, list1, 0)
    BY DEF IsLevels
  <2> QED BY <1>2, <2>1
<1>4. PICK g : IsLevels(g, list1, m - 1)
  <2>1. m - 1 \in Nat /\ m - 1 < m
    BY <1>2, <1>3
  <2>2. m - 1 \notin T
    BY <1>1, <2>1
  <2> QED BY <2>1, <2>2
<1> DEFINE f == [k \in 0..m |-> IF k = 0 THEN [i \in DOMAIN list1 |-> Leaf(list1[i])] ELSE Parents(g[k - 1])]
<1>5. \A k \in 0..m - 1 : k \in 0..m /\ f[k] = g[k]
  BY <1>2, <1>4 DEF IsLevels
<1>6. \A k \in 0..m : k # 0 => k - 1 \in 0..m - 1
  BY <1>2
<1>7. \A k \in 0..m : k # 0 => g[k - 1] = f[k - 1]
  BY <1>5, <1>6
<1>8. f = [k \in 0..m |-> IF k = 0 THEN [i \in DOMAIN list1 |-> Leaf(list1[i])] ELSE Parents(f[k - 1])]
  <2> DEFINE h == [k \in 0..m |-> IF k = 0 THEN [i \in DOMAIN list1 |-> Leaf(list1[i])] ELSE Parents(f[k - 1])]
  <2>1. \A k \in 0..m : f[k] = h[k]
    BY <1>7
  <2> QED BY <2>1
<1>9. IsLevels(f, list1, m)
  BY <1>8 DEF IsLevels
<1> QED BY <1>2, <1>9

\* A place is halved again and again.
LEMMA PlacesExist ==
    ASSUME NEW i, NEW n \in Nat
    PROVE  \E f : IsPlaces(f, i, n)
<1> SUFFICES ASSUME ~ \E f : IsPlaces(f, i, n) PROVE FALSE
  OBVIOUS
<1> DEFINE T == {m \in Nat : ~ \E f : IsPlaces(f, i, m)}
<1>1. PICK m \in T : \A y \in T : ~(y < m)
  <2>1. n \in T /\ T \subseteq Nat
    OBVIOUS
  <2> HIDE DEF T
  <2> QED BY <2>1, SmallestNat
<1>2. m \in Nat /\ ~ \E f : IsPlaces(f, i, m)
  BY <1>1
<1>3. m # 0
  <2> DEFINE f == [k \in 0..0 |-> i]
  <2>1. IsPlaces(f, i, 0)
    BY DEF IsPlaces
  <2> QED BY <1>2, <2>1
<1>4. PICK g : IsPlaces(g, i, m - 1)
  <2>1. m - 1 \in Nat /\ m - 1 < m
    BY <1>2, <1>3
  <2>2. m - 1 \notin T
    BY <1>1, <2>1
  <2> QED BY <2>1, <2>2
<1> DEFINE f == [k \in 0..m |-> IF k = 0 THEN i ELSE g[k - 1] \div 2]
<1>5. \A k \in 0..m - 1 : k \in 0..m /\ f[k] = g[k]
  BY <1>2, <1>4 DEF IsPlaces
<1>6. \A k \in 0..m : k # 0 => k - 1 \in 0..m - 1
  BY <1>2
<1>7. \A k \in 0..m : k # 0 => g[k - 1] = f[k - 1]
  BY <1>5, <1>6
<1>8. f = [k \in 0..m |-> IF k = 0 THEN i ELSE f[k - 1] \div 2]
  BY <1>7
<1> QED BY <1>2, <1>8 DEF IsPlaces

\* A leaf is hashed with any number of siblings.
LEMMA ClimbExists ==
    ASSUME NEW leaf, NEW proof, NEW n \in Nat
    PROVE  \E f : IsClimb(f, leaf, proof, n)
<1> SUFFICES ASSUME ~ \E f : IsClimb(f, leaf, proof, n) PROVE FALSE
  OBVIOUS
<1> DEFINE T == {m \in Nat : ~ \E f : IsClimb(f, leaf, proof, m)}
<1>1. PICK m \in T : \A y \in T : ~(y < m)
  <2>1. n \in T /\ T \subseteq Nat
    OBVIOUS
  <2> HIDE DEF T
  <2> QED BY <2>1, SmallestNat
<1>2. m \in Nat /\ ~ \E f : IsClimb(f, leaf, proof, m)
  BY <1>1
<1>3. m # 0
  <2> DEFINE f == [k \in 0..0 |-> leaf]
  <2>1. IsClimb(f, leaf, proof, 0)
    BY DEF IsClimb
  <2> QED BY <1>2, <2>1
<1>4. PICK g : IsClimb(g, leaf, proof, m - 1)
  <2>1. m - 1 \in Nat /\ m - 1 < m
    BY <1>2, <1>3
  <2>2. m - 1 \notin T
    BY <1>1, <2>1
  <2> QED BY <2>1, <2>2
<1> DEFINE f == [k \in 0..m |-> IF k = 0 THEN leaf ELSE Hash(g[k - 1], proof[k])]
<1>5. \A k \in 0..m - 1 : k \in 0..m /\ f[k] = g[k]
  BY <1>2, <1>4 DEF IsClimb
<1>6. \A k \in 0..m : k # 0 => k - 1 \in 0..m - 1
  BY <1>2
<1>7. \A k \in 0..m : k # 0 => g[k - 1] = f[k - 1]
  BY <1>5, <1>6
<1>8. f = [k \in 0..m |-> IF k = 0 THEN leaf ELSE Hash(f[k - 1], proof[k])]
  BY <1>7
<1> QED BY <1>2, <1>8 DEF IsClimb

\* What the function of a tree's levels is.
LEMMA LevelsStep ==
    ASSUME NEW ids \in Seq(Messages)
    PROVE  /\ LevelsFrom(ids)[0] = [i \in DOMAIN ids |-> Leaf(ids[i])]
           /\ \A k \in 1..Len(ids) : LevelsFrom(ids)[k] = Parents(LevelsFrom(ids)[k - 1])
<1>1. LevelsFrom(ids) = CHOOSE f : IsLevels(f, ids, Len(ids))
  BY DEF LevelsFrom, IsLevels
<1>2. Len(ids) \in Nat
  OBVIOUS
<1>3. IsLevels(LevelsFrom(ids), ids, Len(ids))
  BY <1>1, <1>2, LevelsExist
<1> DEFINE f == LevelsFrom(ids)
<1>4. f = [k \in 0..Len(ids) |-> IF k = 0 THEN [i \in DOMAIN ids |-> Leaf(ids[i])] ELSE Parents(f[k - 1])]
  BY <1>3 DEF IsLevels
<1>5. 0 \in 0..Len(ids) /\ \A k \in 1..Len(ids) : k \in 0..Len(ids) /\ k # 0
  BY <1>2
<1> HIDE DEF f
<1>6. f[0] = [i \in DOMAIN ids |-> Leaf(ids[i])] /\ \A k \in 1..Len(ids) : f[k] = Parents(f[k - 1])
  BY <1>4, <1>5
<1> QED BY <1>6 DEF f

\* A level: a list of nodes, not empty.
IsLevel(level, n) == n \in Nat /\ n > 0 /\ DOMAIN level = 1..n /\ Len(level) = n

\* The parents of n nodes are half as many, rounded up.
LEMMA ParentsLevel ==
    ASSUME NEW level, NEW n, IsLevel(level, n)
    PROVE  /\ IsLevel(Parents(level), (n + 1) \div 2)
           /\ \A p \in 1..((n + 1) \div 2) :
                /\ 2 * p - 1 \in 1..n /\ (IF 2 * p <= n THEN 2 * p ELSE 2 * p - 1) \in 1..n
                /\ Parents(level)[p] = Hash(level[2 * p - 1], level[IF 2 * p <= n THEN 2 * p ELSE 2 * p - 1])
<1> DEFINE m == (n + 1) \div 2
<1>1. m \in Nat /\ m > 0 /\ 2 * m <= n + 1 /\ 2 * m >= n
  BY DEF IsLevel
<1>2. Parents(level) = [p \in 1..m |-> Hash(level[2 * p - 1], level[IF 2 * p <= n THEN 2 * p ELSE 2 * p - 1])]
  BY DEF Parents, IsLevel
<1> HIDE DEF m
<1>3. Len(Parents(level)) = m
  <2> DEFINE F(p) == Hash(level[2 * p - 1], level[IF 2 * p <= n THEN 2 * p ELSE 2 * p - 1])
  <2>1. Parents(level) = [p \in 1..m |-> F(p)]
    BY <1>2
  <2> HIDE DEF F
  <2> QED BY <1>1, <2>1
<1>4. n \in Nat
  BY DEF IsLevel
<1>5. \A p \in 1..m : 2 * p - 1 \in 1..n /\ (IF 2 * p <= n THEN 2 * p ELSE 2 * p - 1) \in 1..n
  BY <1>1, <1>4
<1>6. IsLevel(Parents(level), m)
  BY <1>1, <1>2, <1>3 DEF IsLevel
<1>7. \A p \in 1..m : Parents(level)[p] = Hash(level[2 * p - 1], level[IF 2 * p <= n THEN 2 * p ELSE 2 * p - 1])
  BY <1>2
<1> QED BY <1>5, <1>6, <1>7 DEF m

\* The levels grow narrower until there is one node.
Narrow(ids, k) ==
    \E n \in Nat : IsLevel(LevelsFrom(ids)[k], n) /\ (n = 1 \/ n + k <= Len(ids))

\* They do so at least by one node a level.
LEMMA LevelsNarrow ==
    ASSUME NEW ids \in Seq(Messages), ids # << >>, NEW k0 \in 0..Len(ids)
    PROVE  Narrow(ids, k0)
<1> SUFFICES ASSUME ~Narrow(ids, k0) PROVE FALSE
  OBVIOUS
<1>0. Len(ids) \in Nat /\ Len(ids) > 0 /\ DOMAIN ids = 1..Len(ids)
  OBVIOUS
<1> DEFINE T == {k \in 0..Len(ids) : ~Narrow(ids, k)}
<1>1. PICK k \in T : \A y \in T : ~(y < k)
  <2>1. k0 \in T /\ T \subseteq Nat
    BY <1>0
  <2> HIDE DEF T
  <2> QED BY <2>1, SmallestNat
<1>2. k \in 0..Len(ids) /\ ~Narrow(ids, k)
  BY <1>1
<1>3. k # 0
  <2> DEFINE first == [i \in 1..Len(ids) |-> Leaf(ids[i])]
  <2>1. LevelsFrom(ids)[0] = first
    BY <1>0, LevelsStep
  <2>2. IsLevel(first, Len(ids))
    BY <1>0 DEF IsLevel
  <2>3. Len(ids) + 0 <= Len(ids)
    BY <1>0
  <2> QED BY <1>0, <1>2, <2>1, <2>2, <2>3 DEF Narrow
<1>4. Narrow(ids, k - 1)
  <2>1. k - 1 \in 0..Len(ids) /\ k - 1 < k
    BY <1>0, <1>2, <1>3
  <2>2. k - 1 \notin T
    BY <1>1, <2>1
  <2> QED BY <2>1, <2>2
<1>5. PICK n \in Nat : IsLevel(LevelsFrom(ids)[k - 1], n) /\ (n = 1 \/ n + (k - 1) <= Len(ids))
  BY <1>4 DEF Narrow
<1>6. IsLevel(LevelsFrom(ids)[k], (n + 1) \div 2)
  <2>1. k \in 1..Len(ids)
    BY <1>0, <1>2, <1>3
  <2>2. LevelsFrom(ids)[k] = Parents(LevelsFrom(ids)[k - 1])
    BY <2>1, LevelsStep
  <2> QED BY <1>5, <2>2, ParentsLevel
<1>7. /\ (n + 1) \div 2 \in Nat
      /\ (n + 1) \div 2 = 1 \/ (n + 1) \div 2 + k <= Len(ids)
  BY <1>0, <1>2, <1>3, <1>5 DEF IsLevel
<1> QED BY <1>2, <1>6, <1>7 DEF Narrow

\* There is a top, of one node, and every level below it has more.
LEMMA TopOf ==
    ASSUME NEW ids \in Seq(Messages), ids # << >>
    PROVE  /\ Top(ids) \in 0..Len(ids)
           /\ IsLevel(LevelsFrom(ids)[Top(ids)], 1)
           /\ \A j \in 0..Len(ids) : \E n \in Nat : IsLevel(LevelsFrom(ids)[j], n)
           /\ \A j \in 0..(Top(ids) - 1) : Len(LevelsFrom(ids)[j]) > 1
<1>0. Len(ids) \in Nat /\ Len(ids) > 0
  OBVIOUS
<1>1. \A j \in 0..Len(ids) : Narrow(ids, j)
  BY LevelsNarrow
<1> DEFINE T == {k \in 0..Len(ids) : Len(LevelsFrom(ids)[k]) = 1}
<1>2. Len(ids) \in T
  <2>1. Len(ids) \in 0..Len(ids)
    BY <1>0
  <2>2. PICK n \in Nat : IsLevel(LevelsFrom(ids)[Len(ids)], n) /\ (n = 1 \/ n + Len(ids) <= Len(ids))
    BY <1>1, <2>1 DEF Narrow
  <2>3. n = 1
    BY <1>0, <2>2 DEF IsLevel
  <2> QED BY <2>1, <2>2, <2>3 DEF IsLevel
<1>3. PICK k \in T : \A y \in T : ~(y < k)
  <2>1. T \subseteq Nat /\ T # {}
    BY <1>0, <1>2
  <2> HIDE DEF T
  <2> QED BY <2>1, SmallestNat
<1>4. \A j \in 0..Len(ids) : \E n \in Nat : IsLevel(LevelsFrom(ids)[j], n)
  BY <1>1 DEF Narrow
<1>5. \A j \in 0..(k - 1) : Len(LevelsFrom(ids)[j]) > 1
  <2> SUFFICES ASSUME NEW j \in 0..(k - 1) PROVE Len(LevelsFrom(ids)[j]) > 1
    OBVIOUS
  <2>1. k \in 0..Len(ids)
    BY <1>3
  <2>2. j \in 0..Len(ids) /\ j < k
    BY <1>0, <2>1
  <2>3. j \notin T
    BY <1>3, <2>2
  <2>4. PICK n \in Nat : IsLevel(LevelsFrom(ids)[j], n)
    BY <1>4, <2>2
  <2>5. Len(LevelsFrom(ids)[j]) = n /\ n > 0 /\ n # 1
    BY <2>2, <2>3, <2>4 DEF IsLevel
  <2> QED BY <2>4, <2>5
<1>6. \E t \in 0..Len(ids) : /\ Len(LevelsFrom(ids)[t]) = 1
                               /\ \A j \in 0..(t - 1) : Len(LevelsFrom(ids)[j]) > 1
  BY <1>3, <1>5
<1>7. /\ Top(ids) \in 0..Len(ids) /\ Len(LevelsFrom(ids)[Top(ids)]) = 1
      /\ \A j \in 0..(Top(ids) - 1) : Len(LevelsFrom(ids)[j]) > 1
  BY <1>6 DEF Top
<1>8. PICK n \in Nat : IsLevel(LevelsFrom(ids)[Top(ids)], n)
  BY <1>4, <1>7
<1>9. n = 1
  BY <1>7, <1>8 DEF IsLevel
<1> QED BY <1>4, <1>7, <1>8, <1>9

\* What the places of an event and the hashes on the way up are.
LEMMA PlacesStep ==
    ASSUME NEW ids \in Seq(Messages), ids # << >>, NEW i
    PROVE  /\ Places(ids, i)[0] = i
           /\ \A k \in 1..Top(ids) : Places(ids, i)[k] = Places(ids, i)[k - 1] \div 2
<1>1. Places(ids, i) = CHOOSE f : IsPlaces(f, i, Top(ids))
  BY DEF Places, IsPlaces
<1>2. Top(ids) \in Nat
  BY TopOf
<1>3. IsPlaces(Places(ids, i), i, Top(ids))
  BY <1>1, <1>2, PlacesExist
<1> DEFINE f == Places(ids, i)
<1>4. f = [k \in 0..Top(ids) |-> IF k = 0 THEN i ELSE f[k - 1] \div 2]
  BY <1>3 DEF IsPlaces
<1>5. 0 \in 0..Top(ids) /\ \A k \in 1..Top(ids) : k \in 0..Top(ids) /\ k # 0
  BY <1>2
<1> HIDE DEF f
<1>6. f[0] = i /\ \A k \in 1..Top(ids) : f[k] = f[k - 1] \div 2
  BY <1>4, <1>5
<1> QED BY <1>6 DEF f

\* A hash for every sibling.
LEMMA ClimbStep ==
    ASSUME NEW leaf, NEW proof, Len(proof) \in Nat
    PROVE  /\ Climbed(leaf, proof)[0] = leaf
           /\ \A k \in 1..Len(proof) : Climbed(leaf, proof)[k] = Hash(Climbed(leaf, proof)[k - 1], proof[k])
<1>1. Climbed(leaf, proof) = CHOOSE f : IsClimb(f, leaf, proof, Len(proof))
  BY DEF Climbed, IsClimb
<1>2. IsClimb(Climbed(leaf, proof), leaf, proof, Len(proof))
  BY <1>1, ClimbExists
<1> DEFINE f == Climbed(leaf, proof)
<1>3. f = [k \in 0..Len(proof) |-> IF k = 0 THEN leaf ELSE Hash(f[k - 1], proof[k])]
  BY <1>2 DEF IsClimb
<1>4. 0 \in 0..Len(proof) /\ \A k \in 1..Len(proof) : k \in 0..Len(proof) /\ k # 0
  OBVIOUS
<1> HIDE DEF f
<1>5. f[0] = leaf /\ \A k \in 1..Len(proof) : f[k] = Hash(f[k - 1], proof[k])
  BY <1>3, <1>4
<1> QED BY <1>5 DEF f

\* One level up: the hash of a node and its sibling is the parent of the node.
LEMMA ParentOf ==
    ASSUME NEW level, NEW n, IsLevel(level, n), NEW at \in 0..(n - 1)
    PROVE  /\ at \div 2 \in 0..((n + 1) \div 2 - 1)
           /\ Hash(level[at + 1], Sibling(level, at)) = Parents(level)[at \div 2 + 1]
<1> DEFINE p == at \div 2 + 1
<1>0. n \in Nat /\ n > 0 /\ at \in Nat /\ at < n /\ Len(level) = n
  BY DEF IsLevel
<1>1. p \in 1..((n + 1) \div 2) /\ at \div 2 \in 0..((n + 1) \div 2 - 1)
  BY <1>0
<1>2. Parents(level)[p] = Hash(level[2 * p - 1], level[IF 2 * p <= n THEN 2 * p ELSE 2 * p - 1])
  BY <1>1, ParentsLevel
<1>3. CASE at % 2 = 1
  <2>1. 2 * p = at + 1 /\ 2 * p <= n /\ 2 * p - 1 = at
    BY <1>0, <1>3
  <2>2. Parents(level)[p] = Hash(level[at], level[at + 1])
    BY <1>2, <2>1
  <2>3. Sibling(level, at) = level[at]
    BY <1>3 DEF Sibling
  <2>4. Hash(level[at + 1], level[at]) = Hash(level[at], level[at + 1])
    BY DEF Hash
  <2> QED BY <1>1, <2>2, <2>3, <2>4
<1>4. CASE at % 2 # 1
  <2>1. 2 * p = at + 2 /\ 2 * p - 1 = at + 1
    BY <1>0, <1>4
  <2>2. Parents(level)[p] = Hash(level[at + 1], level[IF at + 2 <= n THEN at + 2 ELSE at + 1])
    BY <1>2, <2>1
  <2>3. Sibling(level, at) = level[IF at + 2 <= n THEN at + 2 ELSE at + 1]
    BY <1>0, <1>4 DEF Sibling
  <2> QED BY <1>1, <2>2, <2>3
<1> QED BY <1>3, <1>4

\* The walk of the gateway is at the event's place in every level of the source's tree.
OnTheWay(ids, i, k) ==
    /\ Places(ids, i)[k] \in 0..(Len(LevelsFrom(ids)[k]) - 1)
    /\ Climbed(Leaf(ids[i + 1]), MerkleProof(ids, i))[k] = LevelsFrom(ids)[k][Places(ids, i)[k] + 1]

\* It is, at each.
LEMMA WalkFollowsTree ==
    ASSUME NEW ids \in Seq(Messages), NEW i, i + 1 \in DOMAIN ids, i \in Nat, NEW k0 \in 0..Top(ids)
    PROVE  OnTheWay(ids, i, k0) /\ Len(MerkleProof(ids, i)) = Top(ids)
<1>0. Len(ids) \in Nat /\ Len(ids) > 0 /\ DOMAIN ids = 1..Len(ids) /\ ids # << >>
  OBVIOUS
<1> DEFINE proof == MerkleProof(ids, i)
           level == LevelsFrom(ids)
           idx == Places(ids, i)
           walk == Climbed(Leaf(ids[i + 1]), MerkleProof(ids, i))
<1>1. /\ Top(ids) \in 0..Len(ids)
      /\ \A j \in 0..Len(ids) : \E n \in Nat : IsLevel(level[j], n)
  BY <1>0, TopOf
<1>2. Top(ids) \in Nat /\ \A k \in 1..Top(ids) : k \in 1..Len(ids)
  BY <1>0, <1>1
<1>3. proof = [k \in 1..Top(ids) |-> Sibling(level[k - 1], idx[k - 1])]
  BY DEF MerkleProof
<1>4. Len(proof) = Top(ids)
  <2> DEFINE F(k) == Sibling(level[k - 1], idx[k - 1])
  <2>1. proof = [k \in 1..Top(ids) |-> F(k)]
    BY <1>3
  <2> HIDE DEF F, proof
  <2> QED BY <1>2, <2>1
<1>5. /\ idx[0] = i
      /\ \A k \in 1..Top(ids) : idx[k] = idx[k - 1] \div 2
  BY <1>0, PlacesStep
<1>6. /\ walk[0] = Leaf(ids[i + 1])
      /\ \A k \in 1..Top(ids) : walk[k] = Hash(walk[k - 1], proof[k])
  BY <1>2, <1>4, ClimbStep
<1>7. level[0] = [e \in DOMAIN ids |-> Leaf(ids[e])] /\ \A k \in 1..Top(ids) : level[k] = Parents(level[k - 1])
  BY <1>2, LevelsStep
<1> SUFFICES ASSUME ~OnTheWay(ids, i, k0) PROVE FALSE
  BY <1>4
<1> DEFINE T == {k \in 0..Top(ids) : ~OnTheWay(ids, i, k)}
<1>8. PICK k \in T : \A y \in T : ~(y < k)
  <2>1. k0 \in T /\ T \subseteq Nat
    BY <1>2
  <2> HIDE DEF T
  <2> QED BY <2>1, SmallestNat
<1>9. k \in 0..Top(ids) /\ ~OnTheWay(ids, i, k)
  BY <1>8
<1>10. ~OnTheWay(ids, i, k) <=> ~(idx[k] \in 0..(Len(level[k]) - 1) /\ walk[k] = level[k][idx[k] + 1])
  BY DEF OnTheWay
<1> HIDE DEF level, idx, walk, proof
<1>11. k # 0
  <2>1. Len(level[0]) = Len(ids)
    <3> DEFINE F(e) == Leaf(ids[e])
    <3>1. level[0] = [e \in 1..Len(ids) |-> F(e)]
      BY <1>0, <1>7
    <3> HIDE DEF F
    <3> QED BY <1>0, <3>1
  <2>2. i \in 0..(Len(ids) - 1)
    BY <1>0
  <2>3. level[0][i + 1] = Leaf(ids[i + 1])
    BY <1>7
  <2> QED BY <1>5, <1>6, <1>9, <1>10, <2>1, <2>2, <2>3
<1>12. k \in 1..Top(ids) /\ k - 1 \in 0..Top(ids) /\ k - 1 \in 0..Len(ids)
  BY <1>0, <1>1, <1>2, <1>9, <1>11
<1>13. OnTheWay(ids, i, k - 1)
  <2>1. k - 1 < k
    BY <1>12
  <2>2. k - 1 \notin T
    BY <1>8, <2>1
  <2> QED BY <1>12, <2>2
<1>14. idx[k - 1] \in 0..(Len(level[k - 1]) - 1) /\ walk[k - 1] = level[k - 1][idx[k - 1] + 1]
  BY <1>13 DEF OnTheWay, level, idx, walk
<1>15. PICK n \in Nat : IsLevel(level[k - 1], n)
  BY <1>1, <1>12
<1> DEFINE at == idx[k - 1]
<1>16. at \in 0..(n - 1)
  BY <1>14, <1>15 DEF IsLevel
<1>17. /\ at \div 2 \in 0..((n + 1) \div 2 - 1)
       /\ Hash(level[k - 1][at + 1], Sibling(level[k - 1], at)) = level[k][at \div 2 + 1]
       /\ Len(level[k]) = (n + 1) \div 2
  <2>1. level[k] = Parents(level[k - 1])
    BY <1>7, <1>12
  <2>2. IsLevel(Parents(level[k - 1]), (n + 1) \div 2)
    BY <1>15, ParentsLevel
  <2> HIDE DEF at
  <2>3. /\ at \div 2 \in 0..((n + 1) \div 2 - 1)
        /\ Hash(level[k - 1][at + 1], Sibling(level[k - 1], at)) = Parents(level[k - 1])[at \div 2 + 1]
    BY <1>15, <1>16, ParentOf
  <2> QED BY <2>1, <2>2, <2>3 DEF IsLevel
<1>18. walk[k] = Hash(level[k - 1][at + 1], Sibling(level[k - 1], at)) /\ idx[k] = at \div 2
  BY <1>3, <1>5, <1>6, <1>12, <1>14
<1> QED BY <1>9, <1>10, <1>17, <1>18

\* The nodes of a tree, below its top or on it.
TreeNodes(ids) ==
    UNION {{LevelsFrom(ids)[k][p] : p \in DOMAIN LevelsFrom(ids)[k]} : k \in 0..Top(ids)}

\* A leaf that is no event of the list is no node, and a hash that is a node is the
\* hash of two nodes.
LEMMA NodesAreOfEvents ==
    ASSUME NEW ids \in Seq(Messages), ids # << >>
    PROVE  /\ \A m : Leaf(m) \in TreeNodes(ids) => \E e \in DOMAIN ids : m = ids[e]
           /\ \A x, y : Hash(x, y) \in TreeNodes(ids) => x \in TreeNodes(ids)
           /\ TreeRoot(ids) \in TreeNodes(ids)
<1>0. Len(ids) \in Nat /\ Len(ids) > 0 /\ DOMAIN ids = 1..Len(ids)
  OBVIOUS
<1> DEFINE level == LevelsFrom(ids)
<1>1. /\ Top(ids) \in 0..Len(ids) /\ IsLevel(level[Top(ids)], 1)
      /\ \A j \in 0..Len(ids) : \E n \in Nat : IsLevel(level[j], n)
  BY TopOf
<1>2. level[0] = [e \in DOMAIN ids |-> Leaf(ids[e])] /\ \A k \in 1..Len(ids) : level[k] = Parents(level[k - 1])
  BY LevelsStep
<1>3. TreeNodes(ids) = UNION {{level[k][p] : p \in DOMAIN level[k]} : k \in 0..Top(ids)}
  BY DEF TreeNodes
<1>4. TreeRoot(ids) = level[Top(ids)][1]
  BY DEF TreeRoot
<1> HIDE DEF level
<1>5. Top(ids) \in Nat /\ \A k \in 0..Top(ids) : k # 0 => k \in 1..Len(ids) /\ k - 1 \in 0..Len(ids) /\ k - 1 \in 0..Top(ids)
  BY <1>0, <1>1
\* A node above the leaves is the hash of two nodes below it.
<1>6. ASSUME NEW k \in 0..Top(ids), NEW p \in DOMAIN level[k], k # 0
      PROVE  \E x \in TreeNodes(ids), y \in TreeNodes(ids) : level[k][p] = Hash(x, y)
  <2>1. PICK n \in Nat : IsLevel(level[k - 1], n)
    BY <1>1, <1>5, <1>6
  <2>2. level[k] = Parents(level[k - 1])
    BY <1>2, <1>5, <1>6
  <2>3. DOMAIN level[k] = 1..((n + 1) \div 2)
    BY <2>1, <2>2, ParentsLevel DEF IsLevel
  <2> DEFINE a == 2 * p - 1
             b == IF 2 * p <= n THEN 2 * p ELSE 2 * p - 1
  <2>4. a \in 1..n /\ b \in 1..n /\ level[k][p] = Hash(level[k - 1][a], level[k - 1][b])
    BY <2>1, <2>2, <2>3, ParentsLevel
  <2> HIDE DEF a, b
  <2>5. a \in DOMAIN level[k - 1] /\ b \in DOMAIN level[k - 1] /\ k - 1 \in 0..Top(ids)
    BY <1>5, <1>6, <2>1, <2>4 DEF IsLevel
  <2>6. level[k - 1][a] \in TreeNodes(ids) /\ level[k - 1][b] \in TreeNodes(ids)
    BY <1>3, <2>5
  <2> QED BY <2>4, <2>6
<1>7. \A v \in TreeNodes(ids) : \E k \in 0..Top(ids) : \E p \in DOMAIN level[k] : v = level[k][p]
  BY <1>3
<1>8. ASSUME NEW m, Leaf(m) \in TreeNodes(ids)
      PROVE  \E e \in DOMAIN ids : m = ids[e]
  <2>1. PICK k \in 0..Top(ids) : \E q \in DOMAIN level[k] : Leaf(m) = level[k][q]
    BY <1>7, <1>8
  <2>2. PICK p \in DOMAIN level[k] : Leaf(m) = level[k][p]
    BY <2>1
  <2>3. k = 0
    <3> SUFFICES ASSUME k # 0 PROVE FALSE
      OBVIOUS
    <3>1. \E x \in TreeNodes(ids), y \in TreeNodes(ids) : level[k][p] = Hash(x, y)
      BY <1>6
    <3> QED BY <2>2, <3>1 DEF Leaf, Hash
  <2>4. p \in DOMAIN ids /\ Leaf(m) = Leaf(ids[p])
    BY <1>2, <2>2, <2>3
  <2> QED BY <2>4 DEF Leaf
<1>9. ASSUME NEW x, NEW y, Hash(x, y) \in TreeNodes(ids)
      PROVE  x \in TreeNodes(ids)
  <2>1. PICK k \in 0..Top(ids) : \E q \in DOMAIN level[k] : Hash(x, y) = level[k][q]
    BY <1>7, <1>9
  <2>2. PICK p \in DOMAIN level[k] : Hash(x, y) = level[k][p]
    BY <2>1
  <2>3. k # 0
    <3> SUFFICES ASSUME k = 0 PROVE FALSE
      OBVIOUS
    <3>1. level[k][p] = Leaf(ids[p])
      BY <1>2, <2>2
    <3> QED BY <2>2, <3>1 DEF Leaf, Hash
  <2>4. PICK v \in TreeNodes(ids), w \in TreeNodes(ids) : level[k][p] = Hash(v, w)
    BY <1>6, <2>3
  <2>5. <<"node", {x, y}>> = <<"node", {v, w}>>
    BY <2>2, <2>4 DEF Hash
  <2>6. {x, y} = {v, w}
    BY <2>5
  <2> QED BY <2>6
<1>10. TreeRoot(ids) \in TreeNodes(ids)
  <2>1. Top(ids) \in 0..Top(ids) /\ 1 \in DOMAIN level[Top(ids)]
    BY <1>1, <1>5 DEF IsLevel
  <2> QED BY <1>3, <1>4, <2>1
<1> QED BY <1>8, <1>9, <1>10

\* From a leaf that is no event, no siblings at all lead to a node of the tree.
LEMMA StrangersStayOutside ==
    ASSUME NEW ids \in Seq(Messages), ids # << >>, NEW m, \A e \in DOMAIN ids : m # ids[e],
           NEW proof, Len(proof) \in Nat
    PROVE  ~Verify(Leaf(m), proof, TreeRoot(ids))
<1> DEFINE walk == Climbed(Leaf(m), proof)
           T == {k \in 0..Len(proof) : walk[k] \in TreeNodes(ids)}
<1>1. /\ walk[0] = Leaf(m)
      /\ \A k \in 1..Len(proof) : walk[k] = Hash(walk[k - 1], proof[k])
  BY ClimbStep
<1>2. Verify(Leaf(m), proof, TreeRoot(ids)) <=> walk[Len(proof)] = TreeRoot(ids)
  BY DEF Verify
<1> HIDE DEF walk
<1>3. T = {}
  <2> SUFFICES ASSUME T # {} PROVE FALSE
    OBVIOUS
  <2>1. PICK k \in T : \A y \in T : ~(y < k)
    <3>1. T \subseteq Nat
      OBVIOUS
    <3> HIDE DEF T
    <3> QED BY <3>1, SmallestNat
  <2>2. k \in 0..Len(proof) /\ walk[k] \in TreeNodes(ids)
    BY <2>1
  <2>3. k # 0
    <3>1. Leaf(m) \notin TreeNodes(ids)
      BY NodesAreOfEvents
    <3> QED BY <1>1, <2>2, <3>1
  <2>4. k \in 1..Len(proof) /\ k - 1 \in 0..Len(proof) /\ k - 1 < k
    BY <2>2, <2>3
  <2>5. Hash(walk[k - 1], proof[k]) \in TreeNodes(ids)
    BY <1>1, <2>2, <2>4
  <2>6. walk[k - 1] \in TreeNodes(ids)
    BY <2>5, NodesAreOfEvents
  <2> QED BY <2>1, <2>4, <2>6
<1>4. Len(proof) \in 0..Len(proof) /\ TreeRoot(ids) \in TreeNodes(ids)
  BY NodesAreOfEvents
<1> QED BY <1>2, <1>3, <1>4

\* Whatever the block holds, exactly its ids are proved to be in it: the source's
\* proof of each leads to the root that was signed, although the tree is built twice,
\* and no list of siblings leads there from anything else.
THEOREM ProofsAreOfEvents == TreeSpec => []ExactlyItsEventsProve
<1> DEFINE Listed == list \in Seq(Messages)
<1>1. TreeInit => Listed
  BY DEF TreeInit
<1>2. Listed /\ [AddLockEvent]_list => Listed'
  <2> SUFFICES ASSUME Listed, AddLockEvent PROVE Listed'
    OBVIOUS
  <2>1. PICK m \in Messages : list' = Append(list, m)
    BY DEF AddLockEvent
  <2> QED BY <2>1
<1>3. Listed => ExactlyItsEventsProve
  <2> SUFFICES ASSUME list \in Seq(Messages) PROVE ExactlyItsEventsProve
    OBVIOUS
  <2>1. ASSUME NEW i \in DOMAIN list
        PROVE  Verify(Leaf(list[i]), MerkleProof(list, i - 1), TreeRoot(list))
    <3>1. i - 1 \in Nat /\ (i - 1) + 1 = i /\ list # << >>
      OBVIOUS
    <3>2. Top(list) \in Nat /\ IsLevel(LevelsFrom(list)[Top(list)], 1) /\ Top(list) \in 0..Top(list)
      BY <3>1, TopOf
    <3>3. OnTheWay(list, i - 1, Top(list)) /\ Len(MerkleProof(list, i - 1)) = Top(list)
      BY <3>1, <3>2, WalkFollowsTree
    <3>4. Places(list, i - 1)[Top(list)] = 0
      BY <3>2, <3>3 DEF OnTheWay, IsLevel
    <3>5. Climbed(Leaf(list[i]), MerkleProof(list, i - 1))[Top(list)] = LevelsFrom(list)[Top(list)][1]
      BY <3>1, <3>3, <3>4 DEF OnTheWay
    <3> QED BY <3>1, <3>3, <3>5 DEF Verify, TreeRoot
  <2>2. ASSUME list # << >>, NEW m \in Messages \ Range(list), NEW proof, Len(proof) \in Nat
        PROVE  ~Verify(Leaf(m), proof, TreeRoot(list))
    <3>1. \A e \in DOMAIN list : m # list[e]
      BY <2>2 DEF Range
    <3> QED BY <2>2, <3>1, StrangersStayOutside
  <2>3. ASSUME NEW known, NEW proof \in UNION {[1..n -> known] : n \in 0..MaxProof}
        PROVE  Len(proof) \in Nat
    <3>1. PICK n \in 0..MaxProof : proof \in [1..n -> known]
      OBVIOUS
    <3> QED BY <3>1, TreeConstants
  <2> QED BY <2>1, <2>2, <2>3 DEF ExactlyItsEventsProve
<1> QED BY <1>1, <1>2, <1>3, PTL DEF TreeSpec
=============================================================================

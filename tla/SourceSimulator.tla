--------------------------- MODULE SourceSimulator ---------------------------
(***************************************************************************)
(* The source side of crates/source_simulator: blocks that commit to the   *)
(* lock events placed in them, a signed payload per block, and the release *)
(* of what was burned on the other side.  Every handler holds the one      *)
(* mutex from its first read to its last write, so it is one action.  All  *)
(* state is in memory: Restart is the process started again.               *)
(***************************************************************************)
EXTENDS Integers, Sequences, Sums

CONSTANTS
    Source,       \* sha256(adapter_id || network)
    Target,       \* sha256("lumen-gate-stellar-testnet")
    Senders,      \* senders and recipients, both valid account strkeys
    LockAmounts,  \* amounts of /lock requests; zero is accepted
    Counts,       \* events per /lock request
    UnlockRequests, \* bodies of /burn-unlock: [id, amount, height, expiry,
                    \* recipient, payload, target]; the payload hash is the
                    \* pair it is made of
    MaxAmount,    \* u64::MAX, where released amounts saturate
    MaxHeight     \* bound: last height of the source chain

ASSUME SourceConstants ==
    /\ LockAmounts \subseteq Nat /\ Counts \subseteq Nat \ {0}
    /\ MaxAmount \in Nat /\ MaxHeight \in Nat
    /\ \A q \in UnlockRequests : /\ q.amount \in 0..MaxAmount
                                 /\ q.height \in Nat /\ q.expiry \in Nat
                                 /\ q.recipient \in Senders

VARIABLES
    blocks,       \* blocks after genesis, by height
    events,       \* lock events, by height
    eventNonce,   \* SimulatorState.event_nonce
    unlocked,     \* unlocked_messages
    burnUnlocks,  \* burn_unlocks, the requests by id
    released      \* released_amounts

sourceVars == <<blocks, events, eventNonce, unlocked, burnUnlocks, released>>

-----------------------------------------------------------------------------

LatestHeight == Len(blocks)
ExpiryWindow == 100

Init ==
    /\ blocks = << >> /\ events = << >>
    /\ eventNonce = 0
    /\ unlocked = {} /\ burnUnlocks = {}
    /\ released = [a \in Senders |-> 0]

\* The root of an event tree names the events it is made of.
EventRoot(list) == Range(list)
ZeroRoot == {}

\* state_root = sha256(previous root || height), a function of the height.
Genesis == [height |-> 0, root |-> 0, event |-> ZeroRoot]
Block(height) == IF height = 0 THEN Genesis ELSE blocks[height]

NonceOf(i) == eventNonce + i - 1

\* add_lock_event for the i-th event of a request.
LockEvent(i, amount, recipient, sender) ==
    [source |-> Source, target |-> Target, height |-> LatestHeight + 1, index |-> i - 1,
     nonce |-> NonceOf(i), sender |-> sender, recipient |-> recipient,
     amount |-> amount + i - 1, kind |-> "Lock",
     expiry |-> LatestHeight + 1 + ExpiryWindow]

\* produce_block with the events waiting for it.
ProduceWith(list) ==
    /\ LatestHeight < MaxHeight
    /\ events' = Append(events, list)
    /\ blocks' = Append(blocks, [height |-> LatestHeight + 1, root |-> LatestHeight + 1,
                                 event |-> EventRoot(list)])

\* The background task, every five seconds.
ProduceBlock ==
    /\ ProduceWith(<< >>)
    /\ UNCHANGED <<eventNonce, unlocked, burnUnlocks, released>>

PostLock(amount, recipient, sender, count) ==
    /\ ProduceWith([i \in 1..count |-> LockEvent(i, amount, recipient, sender)])
    /\ eventNonce' = eventNonce + count
    /\ UNCHANGED <<unlocked, burnUnlocks, released>>

LockEvents == UNION {Range(events[h]) : h \in DOMAIN events}

Tampers == {"none", "sig", "root", "version"}
NoRoot == -1   \* 32 bytes of 9, the root of no block
Fixture == -2  \* the commitment of the checked-in proof

\* build_bls_payload: the signature covers height and both roots, and three
\* keys of which two are required made it.
BlsPayload(height, tamper) ==
    [height |-> height, root |-> Block(height).root, event |-> Block(height).event,
     signers |-> 3, required |-> 2,
     sig |-> IF tamper = "sig" THEN "zero" ELSE "signed", key |-> "keys"]

\* build_zk_payload: a height and a commitment, in another format.
ZkPayload(height) == [height |-> height, commitment |-> Fixture]

\* get_proof: the document served for a block, with one of its parts spoiled
\* on request.
ProofDocument(height, kind, tamper) ==
    [adapter |-> kind,
     version |-> IF tamper = "version" THEN 99 ELSE 1,
     height  |-> height,
     root    |-> IF tamper = "root" THEN NoRoot
                 ELSE IF kind = "bls" THEN Block(height).root ELSE Fixture,
     payload |-> IF kind = "bls" THEN BlsPayload(height, tamper) ELSE ZkPayload(height)]

\* The route /unlock, apart from the burn path: it consumes the lock and
\* releases nothing.
UnlockMessage(m) ==
    /\ m \notin unlocked
    /\ m \in LockEvents
    /\ unlocked' = unlocked \cup {m}
    /\ UNCHANGED <<blocks, events, eventNonce, burnUnlocks, released>>

Saturating(n) == IF n > MaxAmount THEN MaxAmount ELSE n

\* Mutants: a burn is known by its whole request; the id is not looked up.
KnownByRequest(q) == q \in burnUnlocks
KnownNever(q) == FALSE
AlreadyUnlocked(q) == \E u \in burnUnlocks : u.id = q.id

UnlockAccepts(q) ==
    /\ q.amount # 0
    /\ q.height <= q.expiry
    /\ ~AlreadyUnlocked(q)
    /\ q.payload = <<q.amount, q.recipient>>

ConsumeBurnUnlock(q) ==
    /\ UnlockAccepts(q)
    /\ released' = [released EXCEPT ![q.recipient] = Saturating(@ + q.amount)]
    /\ burnUnlocks' = burnUnlocks \cup {q}
    /\ UNCHANGED <<blocks, events, eventNonce, unlocked>>

\* The process is started again.
Restart ==
    /\ blocks' = << >> /\ events' = << >>
    /\ eventNonce' = 0
    /\ unlocked' = {} /\ burnUnlocks' = {}
    /\ released' = [a \in Senders |-> 0]

Next ==
    \/ ProduceBlock
    \/ \E amount \in LockAmounts, recipient \in Senders, sender \in Senders, count \in Counts :
          PostLock(amount, recipient, sender, count)
    \/ \E m \in LockEvents : UnlockMessage(m)
    \/ \E q \in UnlockRequests : ConsumeBurnUnlock(q)
    \/ Restart

Spec == Init /\ [][Next]_sourceVars

-----------------------------------------------------------------------------
(* Correctness.                                                            *)

\* A burn id is consumed once while the process lives, whatever the requests
\* under that id say, and what was released to somebody is the sum of the burns
\* consumed for them, up to the width of the counter.
ReleasedMatchesBurns ==
    /\ \A q, r \in burnUnlocks : q.id = r.id => q = r
    /\ \A a \in Senders :
          LET mine == {q \in burnUnlocks : q.recipient = a}
          IN  released[a] = Saturating(SumOf([q \in mine |-> q.amount], mine))
=============================================================================

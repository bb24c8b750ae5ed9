------------------------------ MODULE EventTree ------------------------------
(***************************************************************************)
(* The event tree of a source block, built twice in the source simulator   *)
(* (compute_event_root for the block, get_merkle_proof for the relayer)    *)
(* and walked by the gateway (verify_merkle_proof).  A block's list grows  *)
(* by one lock event at a time.  sha256 is collision-free: a hash is the   *)
(* term it is computed from, and since a pair is hashed smaller half first *)
(* the hash of a pair is that of the unordered pair.                       *)
(***************************************************************************)
EXTENDS Integers, SequencesExt

CONSTANTS
    Messages,    \* message ids; an id is the hash of a message, payload included
    PayloadHash, \* the payload hash of each
    MaxEvents,   \* bound: events in a block
    MaxProof     \* bound: siblings of a proof somebody makes up

ASSUME TreeConstants ==
    MaxEvents \in Nat /\ MaxProof \in Nat /\ DOMAIN PayloadHash = Messages

VARIABLE list  \* the events of the block, in index order

-----------------------------------------------------------------------------

\* compute_event_leaf
Leaf(m) == <<"leaf", <<m, PayloadHash[m]>>>>

Hash(left, right) == <<"node", {left, right}>>

\* Mutant: an odd last node moves up as it is.
ParentsPromoted(level) ==
    [i \in 1..((Len(level) + 1) \div 2) |->
        IF 2 * i <= Len(level) THEN Hash(level[2 * i - 1], level[2 * i]) ELSE level[2 * i - 1]]

\* The next level up; an odd last node is paired with itself.
Parents(level) ==
    [i \in 1..((Len(level) + 1) \div 2) |->
        Hash(level[2 * i - 1], level[IF 2 * i <= Len(level) THEN 2 * i ELSE 2 * i - 1])]

\* Level by level, the leaves first, as long as there may be another.
LevelsFrom(events) ==
    LET level[k \in 0..Len(events)] ==
            IF k = 0 THEN [i \in DOMAIN events |-> Leaf(events[i])] ELSE Parents(level[k - 1])
    IN  level

\* The tree ends with its first level of one node.
Top(events) ==
    LET level == LevelsFrom(events)
    IN  CHOOSE k \in 0..Len(events) : Len(level[k]) = 1 /\ \A j \in 0..(k - 1) : Len(level[j]) > 1

\* compute_event_root
TreeRoot(events) == IF events = << >> THEN <<"zero">> ELSE LevelsFrom(events)[Top(events)][1]

\* get_merkle_proof for the i-th event, counted from zero; its place is halved from
\* level to level.
Sibling(level, i) ==
    IF i % 2 = 1 THEN level[i] ELSE level[IF i + 2 <= Len(level) THEN i + 2 ELSE i + 1]

Places(events, i) ==
    LET idx[k \in 0..Top(events)] == IF k = 0 THEN i ELSE idx[k - 1] \div 2 IN idx

MerkleProof(events, i) ==
    LET level == LevelsFrom(events) idx == Places(events, i)
    IN  [k \in 1..Top(events) |-> Sibling(level[k - 1], idx[k - 1])]

\* verify_merkle_proof: a step up with every sibling.
Climbed(leaf, proof) ==
    LET current[k \in 0..Len(proof)] == IF k = 0 THEN leaf ELSE Hash(current[k - 1], proof[k])
    IN  current
Verify(leaf, proof, root) == Climbed(leaf, proof)[Len(proof)] = root

-----------------------------------------------------------------------------

TreeInit == list = << >>

AddLockEvent ==
    /\ Len(list) < MaxEvents
    /\ \E m \in Messages \ Range(list) : list' = Append(list, m)

TreeSpec == TreeInit /\ [][AddLockEvent]_list

-----------------------------------------------------------------------------
(* Correctness.                                                            *)

\* The proof the relayer is given for an event leads to the root the block was
\* signed with, although tree and proof are built by two pieces of code; and
\* whatever siblings somebody puts together from the hashes they know, an event
\* that is not in the block does not lead to its root.  (An empty block's root is
\* no hash, so nothing does.)
ExactlyItsEventsProve ==
    /\ \A i \in DOMAIN list : Verify(Leaf(list[i]), MerkleProof(list, i - 1), TreeRoot(list))
    /\ list # << >> =>
        LET nodes == UNION {Range(LevelsFrom(list)[k]) : k \in 0..Top(list)}
            known == {Leaf(m) : m \in Messages} \cup nodes
            proofs == UNION {[1..n -> known] : n \in 0..MaxProof}
        IN  \A m \in Messages \ Range(list) : \A proof \in proofs :
                ~Verify(Leaf(m), proof, TreeRoot(list))
=============================================================================

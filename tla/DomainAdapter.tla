---------------------------- MODULE DomainAdapter ----------------------------
(***************************************************************************)
(* The off-chain half of the source boundary, crates/domain_adapter, beside *)
(* the source it reads: the judgement of a proof document before anybody    *)
(* pays a fee for it (source_chain.rs, the tool in bin/), and the replay    *)
(* guard of the message envelope (envelope.rs).  The guard lives in memory  *)
(* of its own and outlasts a restart of the source.                         *)
(***************************************************************************)
EXTENDS SourceSimulator

CONSTANTS
    IdMemory,  \* ReplayGuard.id_memory
    MinHeights \* --min-height arguments of the tool

ASSUME AdapterConstants == IdMemory \in Nat \ {0} /\ MinHeights \subseteq Nat

VARIABLES
    marks,        \* ReplayGuard.marks: the highest nonce admitted, by route
    processedIds, \* ReplayGuard.processed_ids
    admitted      \* the messages admitted, in order (history)

guardVars == <<marks, processedIds, admitted>>
adapterVars == <<sourceVars, guardVars>>

-----------------------------------------------------------------------------
(* Judging a proof document.                                               *)

AcceptedVersions == {1}

\* decode: a payload of the other format has another length.
Decodes(payload) ==
    /\ DOMAIN payload = {"height", "root", "event", "signers", "required", "sig", "key"}
    /\ payload.height # 0
    /\ payload.required # 0
    /\ payload.signers >= payload.required
    /\ payload.sig # "zero"
    /\ payload.key # "zero"

\* Mutant: the declared root is taken as it is.
HeightMatches(document) == document.payload.height = document.height
DeclaredMatches(document) ==
    /\ document.payload.height = document.height
    /\ document.payload.root = document.root

\* The tool takes the declared height for now, so no document is too old.
PolicyAllows(payload, policy) ==
    /\ payload.height >= policy.minHeight
    /\ policy.now - payload.height <= policy.maxAge
    /\ ~policy.requireSlashable

AdapterVerifies(document, policy) ==
    /\ document.adapter = "bls"
    /\ document.version \in AcceptedVersions
    /\ Decodes(document.payload)
    /\ DeclaredMatches(document)
    /\ PolicyAllows(document.payload, policy)

\* The strictest --max-age there is.
Policy(document, minHeight, slashable) ==
    [minHeight |-> minHeight, maxAge |-> 0, now |-> document.height,
     requireSlashable |-> slashable]

-----------------------------------------------------------------------------
(* The replay guard.                                                       *)

Route(m) == <<m.source, m.target, m.sender>>

\* derive_id: the id stands for every field of the message.
IdOf(m) == m

NoMarks == << >>

\* Mutants: a nonce may come twice; the mark stays where it was set first.
AdvancesOrStays(m) == Route(m) \in DOMAIN marks => m.nonce >= marks[Route(m)]
FirstMark(m) == [r \in DOMAIN marks \cup {Route(m)} |->
                    IF r \in DOMAIN marks THEN marks[r] ELSE m.nonce]

Advances(m) == Route(m) \in DOMAIN marks => m.nonce > marks[Route(m)]
MarkRaised(m) == [r \in DOMAIN marks \cup {Route(m)} |->
                     IF r = Route(m) THEN m.nonce ELSE marks[r]]

\* Past the bound the smallest id goes, and the ids are hashes: which of them
\* is smallest is anybody's guess, the one just added included.
Evicted(ids) ==
    IF Cardinality(ids) <= IdMemory THEN {ids} ELSE {ids \ {id} : id \in ids}

\* admit: the message m under the id it carries, at the caller's height.
Admit(id, m, height) ==
    /\ id = IdOf(m)
    /\ height <= m.expiry
    /\ id \notin processedIds
    /\ Advances(m)
    /\ marks' = MarkRaised(m)
    /\ processedIds' \in Evicted(processedIds \cup {id})
    /\ admitted' = Append(admitted, m)

\* What can be presented: the source's events, and what was presented before.
Presented == LockEvents \cup Range(admitted)
Heights == {LatestHeight, LatestHeight + 2 * ExpiryWindow}

-----------------------------------------------------------------------------

AdapterInit == Init /\ marks = NoMarks /\ processedIds = {} /\ admitted = << >>

AdapterNext ==
    \/ Next /\ UNCHANGED guardVars
    \/ \E id \in Presented, m \in Presented, height \in Heights :
          Admit(id, m, height) /\ UNCHANGED sourceVars

AdapterSpec == AdapterInit /\ [][AdapterNext]_adapterVars

-----------------------------------------------------------------------------
(* Correctness.                                                            *)

\* Of all documents the source serves, spoiled ones and those of the other
\* lane included, the adapter attests exactly the honest documents of blocks
\* after genesis at or above the caller's minimum, and never for a caller who
\* insists on slashable backing.
AttestsHonestBlocks ==
    \A height \in 0..LatestHeight, kind \in {"bls", "zk"}, tamper \in Tampers,
       minHeight \in MinHeights, slashable \in BOOLEAN :
        LET document == ProofDocument(height, kind, tamper)
        IN  AdapterVerifies(document, Policy(document, minHeight, slashable))
            <=> /\ kind = "bls" /\ tamper = "none" /\ ~slashable
                /\ height >= 1 /\ height >= minHeight

\* No message is admitted twice, although the guard forgets ids and the source,
\* started again, numbers its locks from zero.
AdmittedOnce ==
    \A i, j \in DOMAIN admitted : admitted[i] = admitted[j] => i = j

\* The memory of ids decides nothing: an id it holds belongs to a message the
\* mark of its route already refuses, so forgetting one opens no door.
IdsBehindTheMarks ==
    \A id \in processedIds :
        Route(id) \in DOMAIN marks /\ id.nonce <= marks[Route(id)]
=============================================================================

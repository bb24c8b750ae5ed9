-------------------------- MODULE MCSourceSimulator --------------------------
(* A small source chain read by the domain adapter: two heights, two        *)
(* accounts, two burns of which one is asked for twice under different      *)
(* amounts, one that has expired, one whose payload hash does not match and *)
(* one of nothing; a guard that remembers one id, and three admissions.      *)
(* Apart from it, the event tree of a block of up to five events, two pairs *)
(* of them with the same payload hash; and the records of the anchor: an    *)
(* account the ledger does not know and one with two signers, two records,  *)
(* two facts on the ledgers, two passes and one burn report at a time.      *)
EXTENDS DomainAdapter, EventTree, AnchorRecords

CONSTANTS Alice, Bob, burn1, burn2, hash1, hash2, hash3,
    MaxAdmitted  \* bound: messages admitted

Request(id, amount, recipient, expiry) ==
    [id |-> id, amount |-> amount, height |-> 1, expiry |-> expiry,
     recipient |-> recipient, payload |-> <<amount, recipient>>, target |-> Source]

MCUnlockRequests ==
    {Request(burn1, 2, Alice, 2), Request(burn1, 1, Alice, 2), Request(burn2, 2, Alice, 1),
     Request(burn2, 1, Bob, 0), Request(burn2, 0, Bob, 2),
     [Request(burn2, 2, Bob, 2) EXCEPT !.payload = <<1, Bob>>]}

\* The guard and the tables of consumed messages never read one another, nor the
\* guard the recipient of a message: the instance fills one of them at a time.
Bound == /\ Len(admitted) <= MaxAdmitted
         /\ \/ admitted = << >>
            \/ unlocked = {} /\ burnUnlocks = {} /\ \A m \in Presented : m.recipient = Alice

MCMessages == 1..5
MCPayloadHash == [m \in MCMessages |-> CASE m \in {1, 2} -> hash1
                                         [] m \in {3, 4} -> hash2
                                         [] OTHER -> hash3]

MCOnLedger ==
    [c \in {Alice, Bob} |->
       IF c = Alice THEN {} ELSE {[weights |-> [k \in {Alice, Bob} |-> 1], med_threshold |-> 2]}]
\* Time stands still once the ledgers have moved or a pass has begun, and a burn is
\* reported while no pass is under way: a pass never opens a withdrawal.  Bob only withdraws.
AnchorBound ==
    /\ Cardinality(reported) <= 1
    /\ now > 0 => facts = << >>
    /\ (\E p \in Passes : passes[p].at # "idle") => reported = {} /\ now = 0
    /\ \A i \in DOMAIN facts : facts[i].account = Bob => ~facts[i].ok \/ facts[i].amount # 2
    /\ \A i \in DOMAIN file : file[i].account = Bob => file[i].kind = "withdrawal"

\* The block of the tree is one of its own, and so are the facts the anchor asks
\* for: each moves while the others stand where they began, and the tree, full,
\* gives way to the next.
SourceInit == AdapterInit /\ TreeInit /\ AnchorInit
ChainRests == LatestHeight = 0 /\ admitted = << >> /\ burnUnlocks = {}
AnchorRests == facts = << >> /\ sessions = [c \in Clients |-> 0] /\ now = 0
SourceNext ==
    \/ list = << >> /\ AnchorRests /\ AdapterNext /\ UNCHANGED <<list, anchorVars>>
    \/ ChainRests /\ AnchorRests /\ AddLockEvent /\ UNCHANGED <<adapterVars, anchorVars>>
    \/ Len(list) = MaxEvents /\ list' = << >> /\ UNCHANGED <<adapterVars, anchorVars>>
    \/ ChainRests /\ list = << >> /\ AnchorNext /\ UNCHANGED <<adapterVars, list>>
SourceSpec == SourceInit /\ [][SourceNext]_<<adapterVars, list, anchorVars>>
=============================================================================

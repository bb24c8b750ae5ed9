------------------------------- MODULE ZkState -------------------------------
(***************************************************************************)
(* The account state of the proving machine (zk-state/src/lib.rs): nested  *)
(* transactions over a table in memory, one file that only the outermost   *)
(* commit replaces, and the sparse Merkle tree the accounts are proved     *)
(* against.  An account is the number of the call that wrote it; a hash is *)
(* the term it is computed from.  A crash may come between any two steps   *)
(* of a save, and a save may fail at each of them.                         *)
(***************************************************************************)
EXTENDS Integers, Sequences, FiniteSetsExt

CONSTANTS
    DEPTH,      \* 64
    AccountIds, \* ids of accounts, below 2^DEPTH
    MaxWrites,  \* bound: accounts written
    MaxNested   \* bound: transactions open at a time

\* The masks: 1 << depth.
Mask[depth \in 0 .. DEPTH] == IF depth = 0 THEN 1 ELSE 2 * Mask[depth - 1]

ASSUME StateConstants == DEPTH \in Nat /\ MaxWrites \in Nat /\ AccountIds \subseteq 0 .. Mask[DEPTH] - 1

VARIABLES
    accounts, backup_stack,  \* struct State; an account not there is 0
    saving,                  \* how far a save has come
    temp, disk,              \* the two files
    written, begun,          \* accounts written so far, and at the start of each open transaction
    discarded, offered       \* what was rolled back, and the tables outermost commits saw
stateVars == <<accounts, backup_stack, saving, temp, disk, written, begun, discarded, offered>>

NoFile == [id \in AccountIds |-> 0]
StateInit ==
    /\ accounts = NoFile /\ backup_stack = <<>> /\ saving = "no"
    /\ temp = "none" /\ disk = NoFile
    /\ written = 0 /\ begun = <<>> /\ discarded = {} /\ offered = {NoFile}

\* A caller does nothing else while it waits for a save.
SetAccount(id) ==
    /\ saving = "no" /\ written < MaxWrites
    /\ written' = written + 1 /\ accounts' = [accounts EXCEPT ![id] = written']
    /\ UNCHANGED <<backup_stack, saving, temp, disk, begun, discarded, offered>>

BeginTransaction ==
    /\ saving = "no" /\ Len(backup_stack) < MaxNested
    /\ backup_stack' = Append(backup_stack, accounts) /\ begun' = Append(begun, written)
    /\ UNCHANGED <<accounts, saving, temp, disk, written, discarded, offered>>

\* Also called with no transaction open.
Top(stack) == stack[Len(stack)]
Popped(stack) == SubSeq(stack, 1, Len(stack) - 1)
\* Mutant: every commit saves.
AnyCommit == TRUE
OutermostCommit == Len(backup_stack) <= 1
Commit ==
    /\ saving = "no"
    /\ backup_stack' = IF backup_stack = <<>> THEN <<>> ELSE Popped(backup_stack)
    /\ begun' = IF begun = <<>> THEN <<>> ELSE Popped(begun)
    /\ saving' = IF OutermostCommit THEN "write" ELSE "no"
    /\ offered' = IF Len(backup_stack) <= 1 THEN offered \union {accounts} ELSE offered
    /\ UNCHANGED <<accounts, temp, disk, written, discarded>>

\* The temporary file is written whole and synced, or the save fails half way:
\* an error to the caller, with the transaction closed and the table as it is.
WriteTemp ==
    /\ saving = "write"
    /\ \/ temp' = "partial" /\ saving' = "no"
       \/ temp' = "whole" /\ saving' = "rename"
    /\ UNCHANGED <<accounts, backup_stack, disk, written, begun, discarded, offered>>
Rename ==
    /\ saving = "rename" /\ saving' = "no"
    /\ \/ disk' = accounts /\ temp' = "none"
       \/ UNCHANGED <<disk, temp>>
    /\ UNCHANGED <<accounts, backup_stack, written, begun, discarded, offered>>

\* Without a transaction there is nothing to go back to.
Rollback ==
    /\ saving = "no" /\ backup_stack # <<>>
    /\ accounts' = Top(backup_stack) /\ backup_stack' = Popped(backup_stack)
    /\ discarded' = discarded \union (Top(begun) + 1 .. written) /\ begun' = Popped(begun)
    /\ UNCHANGED <<saving, temp, disk, written, offered>>

In(table) == {table[id] : id \in AccountIds}
\* The process ends anywhere and loads the file; what was not on it is gone.
Crash ==
    /\ accounts' = disk /\ backup_stack' = <<>> /\ saving' = "no"
    /\ temp' = IF saving = "write" THEN "partial" ELSE temp
    /\ discarded' = discarded \union (In(accounts) \ In(disk)) /\ begun' = <<>>
    /\ UNCHANGED <<disk, written, offered>>

StateNext ==
    \/ \E id \in AccountIds : SetAccount(id)
    \/ BeginTransaction \/ Commit \/ WriteTemp \/ Rename \/ Rollback \/ Crash

(***************************************************************************)
(* The tree: a subtree without leaves has the hash of an empty tree of its *)
(* height, and a leaf at depth zero is its account's hash.                 *)
(***************************************************************************)
Node(left, right) == <<"node", left, right>>
EmptyHash[depth \in 0 .. DEPTH] ==
    IF depth = 0 THEN <<"empty">> ELSE Node(EmptyHash[depth - 1], EmptyHash[depth - 1])
HashAccount(account) == <<"account", account>>
Leaves == {id \in AccountIds : accounts[id] # 0}

\* A subtree is known by the leaves below it and the bits above them; its
\* sorted leaves part where the next bit is set.
Subtrees == [leaves : SUBSET AccountIds, prefix : 0 .. Mask[DEPTH]]
Whole == [leaves |-> Leaves, prefix |-> 0]
RightOf(t, depth) == {id \in t.leaves : id >= t.prefix + Mask[depth]}
Half(t, depth, right) ==
    IF right THEN [leaves |-> RightOf(t, depth), prefix |-> t.prefix + Mask[depth]]
             ELSE [leaves |-> t.leaves \ RightOf(t, depth), prefix |-> t.prefix]
SubtreeRoot[depth \in 0 .. DEPTH] ==
    [t \in Subtrees |->
        IF t.leaves = {} THEN EmptyHash[depth]
        ELSE IF depth = 0 THEN HashAccount(accounts[Min(t.leaves)])
        ELSE Node(SubtreeRoot[depth - 1][Half(t, depth - 1, FALSE)],
                  SubtreeRoot[depth - 1][Half(t, depth - 1, TRUE)])]
StateRoot == SubtreeRoot[DEPTH][Whole]

\* The way down to an account, and what it leaves on the other side.
BitSet(id, depth) == (id \div Mask[depth]) % 2 = 1
Way(id) ==
    LET at[k \in 0 .. DEPTH] ==
            IF k = 0 THEN Whole ELSE Half(at[k - 1], DEPTH - k, BitSet(id, DEPTH - k))
    IN  at
AccountProof(id) ==
    [k \in 1 .. DEPTH |-> SubtreeRoot[DEPTH - k][Half(Way(id)[k - 1], DEPTH - k, ~BitSet(id, DEPTH - k))]]

\* Mutant: the proof is walked from its other end.
SiblingFromTop(proof, depth) == proof[depth + 1]
SiblingAt(proof, depth) == proof[Len(proof) - depth]
Climb(id, hash, proof) ==
    LET current[depth \in 0 .. DEPTH] ==
            IF depth = 0 THEN hash
            ELSE IF BitSet(id, depth - 1) THEN Node(SiblingAt(proof, depth - 1), current[depth - 1])
                                          ELSE Node(current[depth - 1], SiblingAt(proof, depth - 1))
    IN  current
VerifyAccountProof(root, id, hash, proof) == Len(proof) = DEPTH /\ Climb(id, hash, proof)[DEPTH] = root

(* Correctness.  The file is always the table an outermost commit saw, and *)
(* nothing that was rolled back, or lost with the process, is in memory or *)
(* on the file afterwards: a save cut short or failing does not change it. *)
LoadedWasCommitted ==
    /\ disk \in offered
    /\ \A id \in AccountIds : accounts[id] \notin discarded /\ disk[id] \notin discarded

(* The proof of an account leads from its hash to the root, an empty place *)
(* is proved empty, and no proof handed out proves anything else, whatever *)
(* id it is presented for.                                                 *)
There(id) == IF id \in Leaves THEN HashAccount(accounts[id]) ELSE <<"empty">>
AccountsProve ==
    LET hashes == {HashAccount(v) : v \in 1 .. MaxWrites} \union {<<"empty">>}
        root == StateRoot
    IN \A id \in 0 .. Mask[DEPTH] - 1 :
         LET proof == AccountProof(id)
         IN /\ VerifyAccountProof(root, id, There(id), proof)
            /\ \A at \in 0 .. Mask[DEPTH] - 1 : \A hash \in hashes :
                 VerifyAccountProof(root, at, hash, proof) => hash = There(at)

\* As long as nothing was written the tree is as empty as after a rollback.
RootProvesAccounts == written = 0 \/ AccountsProve

StateSpec == StateInit /\ [][StateNext]_stateVars
=============================================================================

------------------------------- MODULE AlarmLog -------------------------------
(***************************************************************************)
(* What a node keeps of proofs that alarmed (zk-proof: alarm_log.rs,       *)
(* quarantine.rs): a chained log of alarms and a ledger of banned          *)
(* programs, both bounded.  A link is a hash, and stands for what it was   *)
(* made of.  Nothing in the repository feeds the two: reports and programs *)
(* come in any order and more than once.                                   *)
(***************************************************************************)
EXTENDS Integers, Sequences, FiniteSets

CONSTANTS
    Signatures,   \* signatures of reports, integers below the domain digest
    Kinds,        \* why a proof alarmed, and why a program is banned
    BannedHashes, \* hashes of programs, integers: the ledger is a BTreeMap
    MAX_ALARM_LOG_ENTRIES, MAX_QUARANTINE_ENTRIES,
    MaxSeq        \* bound: alarms recorded, programs banned

ASSUME AlarmConstants ==
    MAX_ALARM_LOG_ENTRIES \in Nat \ {0} /\ MAX_QUARANTINE_ENTRIES \in Nat \ {0}

VARIABLES
    alarms, head, window_anchor, next_seq,   \* struct AlarmLog
    banned, ban_seq,                         \* struct QuarantineLedger
    recorded, bans                           \* all that was ever appended to either
alarmVars == <<alarms, head, window_anchor, next_seq, banned, ban_seq, recorded, bans>>

Genesis == <<>>
Link(prev, report, kind, seq) == <<prev, report, kind, seq>>

AlarmInit ==
    /\ alarms = <<>> /\ head = <<>> /\ window_anchor = Genesis /\ next_seq = 0
    /\ banned = {} /\ ban_seq = 0 /\ recorded = <<>> /\ bans = <<>>

\* At the cap the oldest goes, and the window starts where it ended.
Full == Len(alarms) >= MAX_ALARM_LOG_ENTRIES
\* Mutant: the anchor stays behind.
AnchorKept == window_anchor
AnchorAfter == IF Full THEN alarms[1].link ELSE window_anchor
Kept == IF Full THEN Tail(alarms) ELSE alarms
LastLink == IF head = <<>> THEN AnchorAfter ELSE head[1]

\* A report in the window is not recorded again; one that has left it is.
Record(report, kind) ==
    /\ next_seq < MaxSeq
    /\ ~ \E i \in DOMAIN alarms : alarms[i].report = report
    /\ LET link == Link(LastLink, report, kind, next_seq)
       IN /\ alarms' = Append(Kept, [seq |-> next_seq, kind |-> kind, report |-> report,
                                     link |-> link, prev_link |-> LastLink])
          /\ head' = <<link>>
    /\ window_anchor' = AnchorAfter /\ next_seq' = next_seq + 1
    /\ recorded' = Append(recorded, <<report, kind>>)
    /\ UNCHANGED <<banned, ban_seq, bans>>

VerifyIntegrity(log, anchor) ==
    \A i \in DOMAIN log :
        /\ log[i].prev_link = IF i = 1 THEN anchor ELSE log[i - 1].link
        /\ i > 1 => log[i].seq > log[i - 1].seq
        /\ log[i].link = Link(log[i].prev_link, log[i].report, log[i].kind, log[i].seq)

\* The program banned first goes first, whatever its hash and its later offences.
Oldest(ledger) == {e \in ledger : \A f \in ledger : e.seq <= f.seq}
Ban(hash, reason) ==
    /\ ban_seq < MaxSeq
    /\ ~ \E e \in banned : e.hash = hash
    /\ banned' = (IF Cardinality(banned) >= MAX_QUARANTINE_ENTRIES THEN banned \ Oldest(banned) ELSE banned)
                 \union {[hash |-> hash, reason |-> reason, seq |-> ban_seq]}
    /\ ban_seq' = ban_seq + 1 /\ bans' = Append(bans, <<hash, reason>>)
    /\ UNCHANGED <<alarms, head, window_anchor, next_seq, recorded>>

AlarmNext ==
    \/ \E report \in Signatures, kind \in Kinds : Record(report, kind)
    \/ \E hash \in BannedHashes, reason \in Kinds : Ban(hash, reason)

AlarmSpec == AlarmInit /\ [][AlarmNext]_alarmVars

(* Correctness.  The window verifies from its anchor at any length, and a  *)
(* report is in it once; the latest link, which the root pins, unfolds     *)
(* into every alarm ever recorded, those that were dropped included, and   *)
(* the window is the end of that history.  The ledger holds the programs   *)
(* banned last, each with its first offence since it came in.              *)
Unfolded(link, n) ==
    LET back[i \in 0 .. n] == IF i = 0 THEN link ELSE back[i - 1][1]
    IN [k \in 1 .. n |-> <<back[n - k][2], back[n - k][3]>>]
LastOf(seq, n) == SubSeq(seq, Len(seq) - n + 1, Len(seq))
AlarmsAreChained ==
    /\ VerifyIntegrity(alarms, window_anchor)
    /\ \A i, j \in DOMAIN alarms : alarms[i].report = alarms[j].report => i = j
    /\ recorded # <<>> => Unfolded(head[1], Len(recorded)) = recorded
    /\ [i \in DOMAIN alarms |-> <<alarms[i].report, alarms[i].kind>>] = LastOf(recorded, Len(alarms))
    /\ \A i \in DOMAIN alarms : \A kind \in Kinds \ {alarms[i].kind} :
         ~VerifyIntegrity([alarms EXCEPT ![i].kind = kind], window_anchor)
    /\ {<<e.hash, e.reason>> : e \in banned} = {bans[i] : i \in Len(bans) - Cardinality(banned) + 1 .. Len(bans)}
=============================================================================

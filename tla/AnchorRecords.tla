---------------------------- MODULE AnchorRecords ----------------------------
(***************************************************************************)
(* The anchor facade (anchor/server.js, lib/sep6.js, store.js, sep10.js,   *)
(* jwt.js): sessions, the records of deposits and withdrawals in one JSON  *)
(* file, and the passes that advance them by what the source chain and     *)
(* Horizon answer.  Between two awaits nothing else runs; across one, a    *)
(* pass keeps the copies it made.  Every answer may be a failure, the file *)
(* may be unreadable, and the process may end between any two awaits.      *)
(***************************************************************************)
EXTENDS Integers, Sequences, FiniteSetsExt

CONSTANTS
    Clients,       \* accounts
    OnLedger,      \* what Horizon knows of each: {} or its signers' weights and threshold
    TTL,           \* life of a session
    Asked,         \* amounts asked for; 0 is none that can be read
    FEE, MIN_AMOUNT, MAX_AMOUNT,
    LockedAmounts, PaidAmounts,
    Passes,        \* reconciliations that may be under way together
    MaxRecords, MaxFacts, MaxClock  \* bounds: records, facts on the ledgers, time

VARIABLES
    file, unread,  \* the record of each id; whether a read of them ever failed
    created,       \* ids handed out, in order
    now, sessions, \* when the newest token of a client expires; 0 is none
    facts,         \* locks, payments and transactions, in the order they happened
    passes,        \* the local variables of each pass
    reported       \* burn reports waiting for Horizon
anchorVars == <<file, unread, created, now, sessions, facts, passes, reported>>

None == 0
Nothing == [id \in {} |-> None]
Idle == [at |-> "idle", open |-> Nothing, events |-> {}, cache |-> [c \in Clients |-> {}]]
AnchorInit ==
    /\ file = Nothing /\ unread = FALSE /\ created = 0
    /\ now = 0 /\ sessions = [c \in Clients |-> 0]
    /\ facts = <<>> /\ passes = [p \in Passes |-> Idle] /\ reported = {}

(***************************************************************************)
(* The ledgers: a fact is named by its place.                              *)
(***************************************************************************)
Happened(kind) == {i \in DOMAIN facts : facts[i].kind = kind}
PaymentsTo(client) == {i \in Happened("payment") : facts[i].account = client}
Happens(kind, account, amount, ok) ==
    /\ Len(facts) < MaxFacts
    /\ facts' = Append(facts, [kind |-> kind, account |-> account, amount |-> amount, ok |-> ok])
    /\ UNCHANGED <<file, unread, created, now, sessions, passes, reported>>
LedgersMove ==
    \/ \E c \in Clients, a \in LockedAmounts : Happens("lock", c, a, TRUE)
    \/ \E c \in Clients, a \in PaidAmounts, ok \in BOOLEAN : Happens("payment", c, a, ok)
    \/ \E c \in Clients, ok \in BOOLEAN : Happens("transaction", c, 0, ok)

(***************************************************************************)
(* Sessions: the weight of the keys that signed the challenge, or the      *)
(* account's own key when the ledger does not know it.                     *)
(***************************************************************************)
Controls(client, keys) ==
    IF OnLedger[client] = {} THEN client \in keys
    ELSE \E rec \in OnLedger[client] :
           /\ keys \intersect DOMAIN rec.weights # {}
           /\ MapThenSumSet(LAMBDA k : rec.weights[k], keys \intersect DOMAIN rec.weights) >= rec.med_threshold
SignIn(client, keys) ==
    /\ Controls(client, keys)
    /\ sessions' = [sessions EXCEPT ![client] = now + TTL]
    /\ UNCHANGED <<file, unread, created, now, facts, passes, reported>>
InSession(client) == sessions[client] > now
Tick ==
    /\ now < MaxClock /\ now' = now + 1
    /\ UNCHANGED <<file, unread, created, sessions, facts, passes, reported>>

(***************************************************************************)
(* The store: read whole, changed and written whole without an await.  A   *)
(* read that fails finds no records: a new one is then written alone, and  *)
(* an update has nothing to update.                                        *)
(***************************************************************************)
Started(kind, client, amount, fee) ==
    [kind |-> kind, account |-> client, status |-> "start", amount_in |-> amount, fee |-> fee,
     external |-> None, stellar |-> None, lock |-> None, payment |-> None, burn |-> None]
Instructed(kind, client, amount, fee) ==
    /\ created < MaxRecords /\ created' = created + 1
    /\ \E doc \in {file, Nothing} :
         /\ unread' = (unread \/ doc # file)
         /\ file' = [id \in DOMAIN doc \cup {created'} |->
                       IF id = created' THEN Started(kind, client, amount, fee) ELSE doc[id]]
    /\ UNCHANGED <<now, sessions, facts, passes, reported>>
\* Only a deposit is held to the limits that are advertised for both.
DepositInstructions(client, amount) ==
    /\ InSession(client) /\ amount \in MIN_AMOUNT .. MAX_AMOUNT
    /\ Instructed("deposit", client, amount, FEE)
WithdrawInstructions(client, amount) ==
    /\ InSession(client) /\ amount > 0
    /\ Instructed("withdrawal", client, amount, 0)

(***************************************************************************)
(* A pass: the open deposits are copied, the events are awaited, and then  *)
(* for one record after the other the payments of its account.             *)
(***************************************************************************)
Open(doc) ==
    [id \in {i \in DOMAIN doc : /\ doc[i].kind = "deposit"
                               /\ doc[i].status \in {"start", "pending_anchor"}} |-> doc[id]]
Wait(p, at, open, events, cache) ==
    passes' = [passes EXCEPT ![p] = [at |-> at, open |-> open, events |-> events, cache |-> cache]]
ReconcileBegins(p) ==
    /\ passes[p].at = "idle" /\ DOMAIN Open(file) # {}
    /\ Wait(p, "events", Open(file), {}, Idle.cache)
    /\ UNCHANGED <<file, unread, created, now, sessions, facts, reported>>

\* Mutant: the lock need not cover the fee.
WantedWithoutFee(record) == record.amount_in
Wanted(record) == record.amount_in + record.fee
Matching(record, events) ==
    {i \in events : facts[i].account = record.account /\ facts[i].amount = Wanted(record)}
\* The evidence of a patch takes the place of all evidence.
Locked(record, lock) ==
    [record EXCEPT !.status = "pending_anchor", !.external = lock,
                   !.lock = lock, !.payment = None, !.burn = None]

\* An update that finds no record throws, and the pass ends.
Ends(p) == passes' = [passes EXCEPT ![p] = Idle]
\* Up to the next payments: the newest record that is left takes the first lock that matches.
Proceed(p, open, events, cache, doc) ==
    IF DOMAIN open = {} THEN Ends(p) /\ file' = doc
    ELSE LET id == Max(DOMAIN open)
             match == Matching(open[id], events)
         IN IF match = {} \/ open[id].external # None
            THEN Wait(p, "payments", open, events, cache) /\ file' = doc
            ELSE \/ Ends(p) /\ file' = doc
                 \/ /\ id \in DOMAIN doc
                    /\ file' = [doc EXCEPT ![id] = Locked(doc[id], Min(match))]
                    /\ Wait(p, "payments", [open EXCEPT ![id] = file'[id]], events, cache)
EventsAnswered(p) ==
    /\ passes[p].at = "events"
    /\ \E events \in {Happened("lock"), {}} :
         Proceed(p, passes[p].open, events, passes[p].cache, file)
    /\ UNCHANGED <<unread, created, now, sessions, facts, reported>>

\* A successful payment of the asset, of at least what was asked for.
Paying(record, payments) == {i \in payments : facts[i].ok /\ facts[i].amount >= record.amount_in}
\* What else the evidence of the copy says is written back with the payment.
Paid(record, copy, payment) ==
    [record EXCEPT !.status = "completed", !.stellar = payment,
                   !.lock = copy.lock, !.payment = payment, !.burn = copy.burn]
Answers(p, client) ==
    IF passes[p].cache[client] # {} THEN passes[p].cache[client] ELSE {PaymentsTo(client), {}}
\* Horizon lists the newest payment first.
PaymentsAnswered(p) ==
    /\ passes[p].at = "payments"
    /\ LET open == passes[p].open
           id == Max(DOMAIN open)
           rest == [i \in DOMAIN open \ {id} |-> open[i]]
       IN \E payments \in Answers(p, open[id].account) :
            LET cache == [passes[p].cache EXCEPT ![open[id].account] = {payments}]
                paying == Paying(open[id], payments)
            IN IF paying = {} THEN Proceed(p, rest, passes[p].events, cache, file)
               ELSE \/ Ends(p) /\ UNCHANGED file
                    \/ /\ id \in DOMAIN file
                       /\ Proceed(p, rest, passes[p].events, cache,
                                  [file EXCEPT ![id] = Paid(file[id], open[id], Max(paying))])
    /\ UNCHANGED <<unread, created, now, sessions, facts, reported>>

(***************************************************************************)
(* A burn is reported by its transaction, which must be there when Horizon *)
(* answers, have succeeded, and be the account's own.                      *)
(***************************************************************************)
ReportBurn(id, hash) ==
    /\ InSession(file[id].account) /\ file[id].kind = "withdrawal"
    /\ reported' = reported \union {[id |-> id, copy |-> file[id], hash |-> hash]}
    /\ UNCHANGED <<file, unread, created, now, sessions, facts, passes>>
Burned(record, copy, hash) ==
    [record EXCEPT !.status = "pending_anchor", !.stellar = hash,
                   !.lock = copy.lock, !.payment = copy.payment, !.burn = hash]
BurnAnswered(call) ==
    /\ reported' = reported \ {call}
    /\ \/ UNCHANGED file
       \/ /\ call.hash \in Happened("transaction") /\ facts[call.hash].ok
          /\ facts[call.hash].account = call.copy.account
          /\ call.id \in DOMAIN file
          /\ file' = [file EXCEPT ![call.id] = Burned(file[call.id], call.copy, call.hash)]
    /\ UNCHANGED <<unread, created, now, sessions, facts, passes>>

\* Tokens outlive the process; what was awaited does not.
ProcessEnds ==
    /\ passes' = [p \in Passes |-> Idle] /\ reported' = {}
    /\ UNCHANGED <<file, unread, created, now, sessions, facts>>

AnchorNext ==
    \/ LedgersMove \/ Tick \/ ProcessEnds
    \/ \E c \in Clients : \/ \E keys \in SUBSET Clients : SignIn(c, keys)
                          \/ \E a \in Asked : DepositInstructions(c, a) \/ WithdrawInstructions(c, a)
    \/ \E p \in Passes : ReconcileBegins(p) \/ EventsAnswered(p) \/ PaymentsAnswered(p)
    \/ \E id \in DOMAIN file, hash \in 1 .. MaxFacts : ReportBurn(id, hash)
    \/ \E call \in reported : BurnAnswered(call)
AnchorSpec == AnchorInit /\ [][AnchorNext]_anchorVars

(* Correctness.  Whatever passes and reports interleave, fail or are cut    *)
(* short, what a record says has happened: a lock of the amount asked for  *)
(* and the fee, by whom it was asked; a payment of no less that succeeded; *)
(* a transaction of the account itself.  And as long as the file could be  *)
(* read, no record is missing.                                             *)
Names(i, kind, record) ==
    i \in Happened(kind) /\ facts[i].account = record.account /\ facts[i].ok
Backed(r) ==
    /\ r.external # None => /\ Names(r.external, "lock", r)
                           /\ facts[r.external].amount = r.amount_in + r.fee
    /\ r.kind = "deposit" /\ r.stellar # None => /\ Names(r.stellar, "payment", r)
                                                 /\ facts[r.stellar].amount >= r.amount_in
    /\ r.kind = "withdrawal" /\ r.stellar # None => Names(r.stellar, "transaction", r) /\ r.burn = r.stellar
    /\ r.status = "start" => r.external = None /\ r.stellar = None
    /\ r.status = "pending_anchor" =>
         IF r.kind = "deposit" THEN r.lock = r.external /\ r.lock # None ELSE r.stellar # None
    /\ r.status = "completed" => r.kind = "deposit" /\ r.payment = r.stellar /\ r.payment # None
RecordsAreBacked ==
    /\ ~unread => DOMAIN file = 1 .. created
    /\ \A id \in DOMAIN file : Backed(file[id])
=============================================================================

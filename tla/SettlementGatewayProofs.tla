---------------------- MODULE SettlementGatewayProofs ----------------------
(* Theorems about the settlement contract, for every value of its constants. *)
EXTENDS SettlementGateway, SumTheorems

-----------------------------------------------------------------------------
(* Sequences that grow at their end.                                       *)

\* What Append adds to a sequence, and what it keeps.
LEMMA AppendAtEnd ==
    ASSUME NEW S, NEW s \in Seq(S), NEW e \in S
    PROVE  /\ Append(s, e) \in Seq(S)
           /\ DOMAIN s = 1..Len(s) /\ Len(s) \in Nat
           /\ DOMAIN Append(s, e) = 1..(Len(s) + 1)
           /\ Append(s, e)[Len(s) + 1] = e
           /\ \A i \in 1..Len(s) : Append(s, e)[i] = s[i]
  OBVIOUS

-----------------------------------------------------------------------------
(* Types.                                                                  *)

\* Init establishes the type invariant.
LEMMA InitType == Init => TypeOK
  <1> SUFFICES ASSUME Init PROVE TypeOK OBVIOUS
  <1> USE GatewayConstants DEF Init
  <1>1. mints \in Seq(MintRecords) /\ burns \in Seq(OutboundRecords)
            /\ locks \in Seq(OutboundRecords)
    OBVIOUS
  <1>2. highWater \in [Keys -> Nat \cup {NoMark}] /\ rewards \in [Accounts -> Nat]
            /\ outbound \in [OutDomains \X Accounts -> Nat]
    OBVIOUS
  <1>3. admin \in Accounts \cup {DeadAdmin} /\ collector \in Accounts
            /\ balance \in [Holders -> Nat] /\ processed \subseteq Messages /\ ledger \in Nat
    BY DEF Holders
  <1> QED BY <1>1, <1>2, <1>3 DEF TypeOK

\* The key of an inbound message is a key of the table, and not an outbound one.
LEMMA InboundKey ==
    ASSUME NEW m \in Messages
    PROVE  KeyOf(m) \in Keys /\ KeyOf(m)[1] # Home
  BY GatewayConstants DEF KeyOf, Keys

\* The message an outbound call builds, and its key.
LEMMA OutboundKey ==
    ASSUME TypeOK, NEW from \in Accounts, NEW amount \in Amounts, NEW to \in OutDomains,
           NEW expiry \in Expiries, NEW kind \in {"Lock", "Burn"}
    PROVE  LET m == OutboundMessage(from, amount, to, expiry, kind)
           IN  /\ m \in OutboundRecords
               /\ KeyOf(m) = <<Home, to, from>>
               /\ KeyOf(m) \in Keys
               /\ m.nonce = outbound[<<to, from>>]
               /\ m.nonce \in Nat
  <1>1. outbound[<<to, from>>] \in Nat BY DEF TypeOK
  <1> QED BY <1>1 DEF TypeOK, OutboundMessage, OutboundRecords, KeyOf, Keys, NextNonce

\* Minting keeps every balance a natural number.
LEMMA CreditType ==
    ASSUME TypeOK, NEW m \in Messages, NEW receiver \in Holders, NEW fee \in Fees \cup {0},
           m.amount - fee > 0
    PROVE  Credit(balance, m, receiver, fee) \in [Holders -> Nat]
  <1>1. m.recipient \in Holders /\ m.amount \in Int /\ fee \in Int
    <2>1. m.recipient \in Holders BY GatewayConstants DEF Holders
    <2>2. m.amount \in Int BY GatewayConstants
    <2>3. fee \in Int BY GatewayConstants
    <2> QED BY <2>1, <2>2, <2>3
  <1> DEFINE paid == [balance EXCEPT ![m.recipient] = @ + (m.amount - fee)]
  <1>3. paid \in [Holders -> Nat] BY <1>1, SMTT(60) DEF TypeOK
  <1>4. CASE fee > 0
    <2>1. [paid EXCEPT ![receiver] = @ + fee] \in [Holders -> Nat] BY <1>1, <1>3, <1>4
    <2> QED BY <2>1, <1>4 DEF Credit
  <1>5. CASE ~(fee > 0) BY <1>3, <1>5 DEF Credit
  <1> QED BY <1>4, <1>5

\* A settlement keeps the types of all it writes.
LEMMA FinalizeType ==
    ASSUME TypeOK, NEW m \in Messages, NEW receiver \in Holders, NEW fee \in Fees \cup {0},
           FinalizeInternal(m, receiver, fee), rewards' \in [Accounts -> Nat]
    PROVE  TypeOK'
  <1>1. highWater' \in [Keys -> Nat \cup {NoMark}]
    BY InboundKey, GatewayConstants DEF TypeOK, FinalizeInternal, MarkProcessed
  <1>2. balance' \in [Holders -> Nat]
    BY CreditType DEF FinalizeInternal, InboundAccepts
  <1>3. mints' \in Seq(MintRecords)
    <2>1. [msg |-> m, receiver |-> receiver, fee |-> fee] \in MintRecords BY DEF MintRecords
    <2> QED BY <2>1 DEF TypeOK, FinalizeInternal
  <1>4. processed' \subseteq Messages BY DEF TypeOK, FinalizeInternal
  <1>5. UNCHANGED <<admin, collector, outbound, burns, locks, ledger>> BY DEF FinalizeInternal
  <1> QED BY <1>1, <1>2, <1>3, <1>4, <1>5 DEF TypeOK

\* A reward is a natural number.
LEMMA RewardType ==
    ASSUME TypeOK, NEW relayer \in Accounts, NEW fee \in Fees, Reward(relayer, fee)
    PROVE  rewards' \in [Accounts -> Nat]
  <1>1. fee \in Int BY GatewayConstants
  <1>2. CASE fee > 0
    <2>1. [rewards EXCEPT ![relayer] = @ + fee] \in [Accounts -> Nat] BY <1>1, <1>2 DEF TypeOK
    <2> QED BY <2>1, <1>2 DEF Reward
  <1>3. CASE ~(fee > 0) BY <1>3 DEF TypeOK, Reward
  <1> QED BY <1>2, <1>3

\* An inbound call is a settlement with some receiver and fee.
LEMMA InboundCases ==
    ASSUME TypeOK, InboundCall
    PROVE  \E m \in Messages, receiver \in Holders, fee \in Fees \cup {0} :
              FinalizeInternal(m, receiver, fee) /\ rewards' \in [Accounts -> Nat]
  <1>1. PICK m \in Messages : \/ FinalizeInbound(m)
                              \/ \E relayer \in Accounts, fee \in Fees :
                                    \/ FinalizeInboundGasless(relayer, m, fee)
                                    \/ FinalizeInboundSponsored(relayer, m, fee)
    BY DEF InboundCall
  <1>2. CASE FinalizeInbound(m)
    <2>1. m.recipient \in Holders BY GatewayConstants DEF Holders
    <2>2. FinalizeInternal(m, m.recipient, 0) /\ rewards' \in [Accounts -> Nat]
      BY <1>2 DEF FinalizeInbound, TypeOK
    <2> QED BY <2>1, <2>2
  <1>3. ASSUME NEW relayer \in Accounts, NEW fee \in Fees,
               \/ FinalizeInboundGasless(relayer, m, fee)
               \/ FinalizeInboundSponsored(relayer, m, fee)
        PROVE  FinalizeInternal(m, relayer, fee) /\ rewards' \in [Accounts -> Nat]
    <2>1. FinalizeInternal(m, relayer, fee) /\ Reward(relayer, fee)
      BY <1>3 DEF FinalizeInboundGasless, FinalizeInboundSponsored
    <2> QED BY <2>1, RewardType
  <1> QED BY <1>1, <1>2, <1>3 DEF Holders

\* A lock keeps the types of all it writes.
LEMMA LockType ==
    ASSUME TypeOK, NEW from \in Accounts, NEW amount \in Amounts, NEW to \in OutDomains,
           NEW expiry \in Expiries, LockAndRelay(from, amount, to, expiry)
    PROVE  TypeOK'
  <1> DEFINE m == OutboundMessage(from, amount, to, expiry, "Lock")
  <1>1. m \in OutboundRecords BY OutboundKey
  <1>2. locks' \in Seq(OutboundRecords)
    <2> HIDE DEF m
    <2>1. locks' = Append(locks, m) BY DEF LockAndRelay, m
    <2> QED BY <1>1, <2>1 DEF TypeOK
  <1>3. outbound' \in [OutDomains \X Accounts -> Nat] BY DEF TypeOK, LockAndRelay, AdvanceNonce
  <1>4. balance' \in [Holders -> Nat]
    <2>1. from # Gateway /\ amount \in Int /\ from \in Holders /\ Gateway \in Holders
      BY GatewayConstants DEF Holders
    <2>2. balance' = [balance EXCEPT ![from] = @ - amount, ![Gateway] = @ + amount]
            /\ amount > 0 /\ balance[from] >= amount
      BY DEF LockAndRelay, Escrow, CanPay
    <2> QED BY <2>1, <2>2, SMTT(60) DEF TypeOK
  <1>5. UNCHANGED <<admin, collector, highWater, processed, rewards, mints, burns, ledger>>
    BY DEF LockAndRelay
  <1> QED BY <1>2, <1>3, <1>4, <1>5 DEF TypeOK

\* A burn keeps the types of all it writes.
LEMMA BurnType ==
    ASSUME TypeOK, NEW from \in Accounts, NEW amount \in Amounts, NEW to \in OutDomains,
           NEW expiry \in Expiries, BurnAndRelay(from, amount, to, expiry)
    PROVE  TypeOK'
  <1> DEFINE m == OutboundMessage(from, amount, to, expiry, "Burn")
  <1>1. m \in OutboundRecords /\ KeyOf(m) \in Keys /\ m.nonce \in Nat BY OutboundKey
  <1>2. /\ burns' = Append(burns, m)
        /\ highWater' = [highWater EXCEPT ![KeyOf(m)] = m.nonce]
    BY DEF BurnAndRelay, MarkProcessed
  <1>3. burns' \in Seq(OutboundRecords) /\ highWater' \in [Keys -> Nat \cup {NoMark}]
    <2> HIDE DEF m
    <2> QED BY <1>1, <1>2 DEF TypeOK
  <1>4. outbound' \in [OutDomains \X Accounts -> Nat] BY DEF TypeOK, BurnAndRelay, AdvanceNonce
  <1>5. balance' \in [Holders -> Nat]
    <2>1. amount \in Int /\ from \in Holders BY GatewayConstants DEF Holders
    <2>2. balance' = [balance EXCEPT ![from] = @ - amount] /\ amount > 0 /\ balance[from] >= amount
      BY DEF BurnAndRelay, CanPay
    <2> QED BY <2>1, <2>2 DEF TypeOK
  <1>6. UNCHANGED <<admin, collector, processed, rewards, mints, locks, ledger>>
    BY DEF BurnAndRelay
  <1> QED BY <1>3, <1>4, <1>5, <1>6 DEF TypeOK

\* What no call of a holder or a relayer touches.
Quiet == UNCHANGED <<highWater, outbound, processed, mints, burns, locks>>

\* Every step is a settlement, a lock, a burn, or leaves all messages alone.
LEMMA StepCases ==
    ASSUME TypeOK, [Next]_gatewayVars
    PROVE  \/ \E m \in Messages, receiver \in Holders, fee \in Fees \cup {0} :
                 FinalizeInternal(m, receiver, fee)
           \/ \E from \in Accounts, amount \in Amounts, to \in OutDomains, expiry \in Expiries :
                 LockAndRelay(from, amount, to, expiry) \/ BurnAndRelay(from, amount, to, expiry)
           \/ Quiet
  <1>1. CASE InboundCall BY <1>1, InboundCases
  <1>2. CASE OutboundCall BY <1>2 DEF OutboundCall
  <1>3. ASSUME NEW a \in Accounts, RenounceAdmin(a) \/ \E c \in Accounts : SetFeeConfig(a, c)
        PROVE  Quiet
    BY <1>3 DEF Quiet, RenounceAdmin, SetFeeConfig
  <1>4. CASE CloseLedger BY <1>4 DEF Quiet, CloseLedger, contractVars
  <1>5. ASSUME NEW d, NEW h, NEW r, RegistryMoves(d, h, r) PROVE Quiet
    BY <1>5 DEF Quiet, RegistryMoves, contractVars
  <1>6. CASE UNCHANGED gatewayVars BY <1>6 DEF Quiet, gatewayVars, contractVars
  <1> QED BY <1>1, <1>2, <1>3, <1>4, <1>5, <1>6 DEF Next

\* Every step keeps the type invariant.
LEMMA NextType == TypeOK /\ [Next]_gatewayVars => TypeOK'
  <1> SUFFICES ASSUME TypeOK, [Next]_gatewayVars PROVE TypeOK' OBVIOUS
  <1>1. CASE InboundCall BY <1>1, InboundCases, FinalizeType
  <1>2. CASE OutboundCall BY <1>2, LockType, BurnType DEF OutboundCall
  <1>3. ASSUME NEW a \in Accounts, RenounceAdmin(a) \/ \E c \in Accounts : SetFeeConfig(a, c)
        PROVE  TypeOK'
    BY <1>3 DEF TypeOK, RenounceAdmin, SetFeeConfig
  <1>4. CASE CloseLedger BY <1>4 DEF TypeOK, CloseLedger, contractVars
  <1>5. ASSUME NEW d, NEW h, NEW r, RegistryMoves(d, h, r) PROVE TypeOK'
    BY <1>5 DEF TypeOK, RegistryMoves, contractVars
  <1>6. CASE UNCHANGED gatewayVars BY <1>6 DEF TypeOK, gatewayVars, contractVars
  <1> QED BY <1>1, <1>2, <1>3, <1>4, <1>5, <1>6 DEF Next

\* The contract's storage always has its declared shape.
THEOREM TypeCorrect == Spec => []TypeOK
  BY InitType, NextType, PTL DEF Spec

-----------------------------------------------------------------------------
(* What the three kinds of step do to messages, marks and counters.        *)

\* A settlement adds its message at the end and raises the mark of its key.
LEMMA Settling ==
    ASSUME TypeOK, NEW m \in Messages, NEW receiver \in Holders, NEW fee \in Fees \cup {0},
           FinalizeInternal(m, receiver, fee)
    PROVE  /\ KeyOf(m) \in Keys /\ KeyOf(m)[1] # Home
           /\ m.nonce \in Nat /\ highWater[KeyOf(m)] < m.nonce
           /\ highWater' = [highWater EXCEPT ![KeyOf(m)] = m.nonce]
           /\ Len(mints) \in Nat
           /\ DOMAIN mints = 1..Len(mints) /\ DOMAIN mints' = 1..(Len(mints) + 1)
           /\ mints'[Len(mints) + 1].msg = m
           /\ \A i \in DOMAIN mints : mints'[i] = mints[i]
           /\ Settled' = Settled \cup {m}
           /\ processed' = processed \cup {m}
           /\ UNCHANGED <<outbound, burns, locks>>
  <1> DEFINE r == [msg |-> m, receiver |-> receiver, fee |-> fee]
  <1>1. KeyOf(m) \in Keys /\ KeyOf(m)[1] # Home /\ m.nonce \in Nat
    BY InboundKey, GatewayConstants
  <1>2. highWater[KeyOf(m)] < m.nonce
    <2>1. highWater[KeyOf(m)] \in Int BY <1>1 DEF TypeOK, NoMark
    <2> QED BY <1>1, <2>1 DEF FinalizeInternal, InboundAccepts, IsProcessed
  <1>3. highWater' = [highWater EXCEPT ![KeyOf(m)] = m.nonce] /\ processed' = processed \cup {m}
          /\ UNCHANGED <<outbound, burns, locks>> /\ mints' = Append(mints, r)
    BY DEF FinalizeInternal, MarkProcessed
  <1>4. mints \in Seq(MintRecords) /\ r \in MintRecords BY DEF TypeOK, MintRecords
  <1>5. r.msg = m OBVIOUS
  <1> HIDE DEF r
  <1>6. /\ Len(mints) \in Nat
        /\ DOMAIN mints = 1..Len(mints) /\ DOMAIN mints' = 1..(Len(mints) + 1)
        /\ mints'[Len(mints) + 1] = r
        /\ \A i \in DOMAIN mints : mints'[i] = mints[i]
    BY <1>3, <1>4, AppendAtEnd
  <1>7. Settled' = Settled \cup {m} BY <1>5, <1>6 DEF Settled
  <1> QED BY <1>1, <1>2, <1>3, <1>5, <1>6, <1>7

\* The counter of the route of an outbound message.
RouteOf(m) == <<m.target, m.sender>>

\* A lock uses the counter of its route and adds its message at the end.
LEMMA Locking ==
    ASSUME TypeOK, NEW from \in Accounts, NEW amount \in Amounts, NEW to \in OutDomains,
           NEW expiry \in Expiries, LockAndRelay(from, amount, to, expiry)
    PROVE  \E m \in OutboundRecords :
              /\ m.nonce = outbound[RouteOf(m)]
              /\ outbound' = [outbound EXCEPT ![RouteOf(m)] = @ + 1]
              /\ locks' = Append(locks, m)
              /\ UNCHANGED <<highWater, processed, mints, burns>>
  <1> DEFINE m == OutboundMessage(from, amount, to, expiry, "Lock")
  <1>1. m \in OutboundRecords /\ m.nonce = outbound[<<to, from>>] BY OutboundKey
  <1>2. RouteOf(m) = <<to, from>> BY DEF RouteOf, OutboundMessage
  <1>3. /\ outbound' = [outbound EXCEPT ![<<to, from>>] = @ + 1] /\ locks' = Append(locks, m)
        /\ UNCHANGED <<highWater, processed, mints, burns>>
    BY DEF LockAndRelay, AdvanceNonce
  <1> QED BY <1>1, <1>2, <1>3

\* A burn does the same on its side, and raises the mark of its key.
LEMMA Burning ==
    ASSUME TypeOK, NEW from \in Accounts, NEW amount \in Amounts, NEW to \in OutDomains,
           NEW expiry \in Expiries, BurnAndRelay(from, amount, to, expiry)
    PROVE  \E m \in OutboundRecords :
              /\ KeyOf(m) \in Keys /\ m.nonce = outbound[RouteOf(m)] /\ m.nonce \in Nat
              /\ outbound' = [outbound EXCEPT ![RouteOf(m)] = @ + 1]
              /\ burns' = Append(burns, m)
              /\ highWater' = [highWater EXCEPT ![KeyOf(m)] = m.nonce]
              /\ highWater[KeyOf(m)] < m.nonce
              /\ UNCHANGED <<processed, mints, locks>>
  <1> DEFINE m == OutboundMessage(from, amount, to, expiry, "Burn")
  <1>1. /\ m \in OutboundRecords /\ m.nonce = outbound[<<to, from>>]
        /\ KeyOf(m) \in Keys /\ m.nonce \in Nat
    BY OutboundKey
  <1>2. RouteOf(m) = <<to, from>> BY DEF RouteOf, OutboundMessage
  <1>3. /\ outbound' = [outbound EXCEPT ![<<to, from>>] = @ + 1] /\ burns' = Append(burns, m)
        /\ highWater' = [highWater EXCEPT ![KeyOf(m)] = m.nonce] /\ ~IsProcessed(m)
        /\ UNCHANGED <<processed, mints, locks>>
    BY DEF BurnAndRelay, AdvanceNonce, MarkProcessed
  <1>4. highWater[KeyOf(m)] \in Int BY <1>1 DEF TypeOK, NoMark
  <1> HIDE DEF m
  <1>5. highWater[KeyOf(m)] < m.nonce BY <1>1, <1>3, <1>4 DEF IsProcessed
  <1> QED BY <1>1, <1>2, <1>3, <1>5

\* What appending a message adds to the set of messages sent.
LEMMA AppendSent ==
    ASSUME NEW s \in Seq(OutboundRecords), NEW m \in OutboundRecords
    PROVE  Range(Append(s, m)) = Range(s) \cup {m}
  <1>1. /\ DOMAIN s = 1..Len(s) /\ Len(s) \in Nat
        /\ DOMAIN Append(s, m) = 1..(Len(s) + 1) /\ Append(s, m)[Len(s) + 1] = m
        /\ \A i \in 1..Len(s) : Append(s, m)[i] = s[i]
    BY AppendAtEnd
  <1> QED BY <1>1 DEF Range

-----------------------------------------------------------------------------
(* Marks.                                                                  *)

\* The messages settled are inbound messages, those burned are outbound ones.
LEMMA MessageTypes ==
    ASSUME TypeOK
    PROVE  /\ \A m \in Settled : KeyOf(m) \in Keys /\ m.nonce \in Nat /\ m \in Messages
           /\ \A m \in Range(locks) \cup Range(burns) :
                 KeyOf(m) \in Keys /\ m.nonce \in Nat /\ m \in OutboundRecords
  <1>1. ASSUME NEW m \in Settled PROVE KeyOf(m) \in Keys /\ m.nonce \in Nat /\ m \in Messages
    <2>1. PICK i \in DOMAIN mints : m = mints[i].msg BY <1>1 DEF Settled
    <2>2. mints[i] \in MintRecords BY DEF TypeOK
    <2>3. m \in Messages BY <2>1, <2>2 DEF MintRecords
    <2> QED BY <2>3, InboundKey, GatewayConstants
  <1>2. ASSUME NEW m \in Range(locks) \cup Range(burns)
        PROVE  KeyOf(m) \in Keys /\ m.nonce \in Nat /\ m \in OutboundRecords
    <2>1. m \in OutboundRecords BY DEF Range, TypeOK
    <2> QED BY <2>1 DEF OutboundRecords, KeyOf, Keys
  <1> QED BY <1>1, <1>2

\* Raising the mark of one key to the nonce of a message that has just settled
\* or burned keeps every mark at the last nonce of its key.
LEMMA RaiseMark ==
    ASSUME TypeOK, MarkIsLastNonce, NEW m, KeyOf(m) \in Keys, m.nonce \in Nat,
           highWater[KeyOf(m)] < m.nonce,
           highWater' = [highWater EXCEPT ![KeyOf(m)] = m.nonce],
           Settled' \cup Range(burns') = (Settled \cup Range(burns)) \cup {m}
    PROVE  MarkIsLastNonce'
  <1>1. \A k \in Keys : highWater[k] \in Int BY DEF TypeOK, NoMark
  <1>2. ASSUME NEW n \in Settled' \cup Range(burns') PROVE n.nonce <= highWater'[KeyOf(n)]
    <2>1. CASE n = m BY <2>1 DEF TypeOK
    <2>2. CASE n \in Settled \cup Range(burns)
      <3>1. n.nonce <= highWater[KeyOf(n)] BY <2>2 DEF MarkIsLastNonce, IsProcessed
      <3>2. KeyOf(n) \in Keys /\ n.nonce \in Nat BY <2>2, MessageTypes
      <3>3. CASE KeyOf(n) = KeyOf(m)
        BY <1>1, <3>1, <3>2, <3>3 DEF TypeOK
      <3>4. CASE KeyOf(n) # KeyOf(m)
        BY <3>1, <3>2, <3>4 DEF TypeOK
      <3> QED BY <3>3, <3>4
    <2> QED BY <2>1, <2>2
  <1>3. ASSUME NEW k \in Keys, highWater'[k] # NoMark
        PROVE  \E n \in Settled' \cup Range(burns') : KeyOf(n) = k /\ n.nonce = highWater'[k]
    <2>1. CASE k = KeyOf(m)
      <3>1. m \in Settled' \cup Range(burns') /\ m.nonce = highWater'[k] BY <2>1 DEF TypeOK
      <3> QED BY <2>1, <3>1
    <2>2. CASE k # KeyOf(m)
      <3>1. highWater'[k] = highWater[k] BY <2>2 DEF TypeOK
      <3>2. PICK n \in Settled \cup Range(burns) : KeyOf(n) = k /\ n.nonce = highWater[k]
        BY <1>3, <3>1 DEF MarkIsLastNonce
      <3>3. n \in Settled' \cup Range(burns') OBVIOUS
      <3> QED BY <3>1, <3>2, <3>3
    <2> QED BY <2>1, <2>2
  <1> QED BY <1>2, <1>3 DEF MarkIsLastNonce, IsProcessed

\* Every step keeps every mark at the last nonce of its key.
LEMMA MarksKept == TypeOK /\ MarkIsLastNonce /\ [Next]_gatewayVars => MarkIsLastNonce'
  <1> SUFFICES ASSUME TypeOK, MarkIsLastNonce, [Next]_gatewayVars PROVE MarkIsLastNonce'
    OBVIOUS
  <1>1. ASSUME NEW m \in Messages, NEW receiver \in Holders, NEW fee \in Fees \cup {0},
               FinalizeInternal(m, receiver, fee)
        PROVE  MarkIsLastNonce'
    <2>1. /\ KeyOf(m) \in Keys /\ m.nonce \in Nat /\ highWater[KeyOf(m)] < m.nonce
          /\ highWater' = [highWater EXCEPT ![KeyOf(m)] = m.nonce]
          /\ Settled' = Settled \cup {m} /\ UNCHANGED burns
      BY <1>1, Settling
    <2>2. Range(burns') = Range(burns) BY <2>1
    <2>3. Settled' \cup Range(burns') = (Settled \cup Range(burns)) \cup {m} BY <2>1, <2>2
    <2> QED BY <2>1, <2>3, RaiseMark
  <1>2. ASSUME NEW from \in Accounts, NEW amount \in Amounts, NEW to \in OutDomains,
               NEW expiry \in Expiries, LockAndRelay(from, amount, to, expiry)
        PROVE  MarkIsLastNonce'
    BY <1>2 DEF LockAndRelay, MarkIsLastNonce, Settled, IsProcessed
  <1>3. ASSUME NEW from \in Accounts, NEW amount \in Amounts, NEW to \in OutDomains,
               NEW expiry \in Expiries, BurnAndRelay(from, amount, to, expiry)
        PROVE  MarkIsLastNonce'
    <2>1. PICK m \in OutboundRecords :
             /\ KeyOf(m) \in Keys /\ m.nonce \in Nat
             /\ burns' = Append(burns, m)
             /\ highWater' = [highWater EXCEPT ![KeyOf(m)] = m.nonce]
             /\ highWater[KeyOf(m)] < m.nonce
             /\ UNCHANGED mints
      BY <1>3, Burning
    <2>2. Range(burns') = Range(burns) \cup {m} BY <2>1, AppendSent DEF TypeOK
    <2>3. Settled' = Settled BY <2>1 DEF Settled
    <2>4. Settled' \cup Range(burns') = (Settled \cup Range(burns)) \cup {m} BY <2>2, <2>3
    <2> QED BY <2>1, <2>4, RaiseMark
  <1>4. CASE Quiet BY <1>4 DEF Quiet, MarkIsLastNonce, Settled, IsProcessed
  <1> QED BY <1>1, <1>2, <1>3, <1>4, StepCases

\* Initially no mark is set and nothing has settled or burned.
LEMMA MarksInit == Init => MarkIsLastNonce
  <1> SUFFICES ASSUME Init PROVE MarkIsLastNonce OBVIOUS
  <1>1. Settled = {} /\ Range(burns) = {} BY DEF Init, Settled, Range
  <1>2. \A k \in Keys : highWater[k] = NoMark BY DEF Init
  <1> QED BY <1>1, <1>2 DEF MarkIsLastNonce

\* A key's mark is always the nonce of the last message that settled or burned
\* under it.
THEOREM MarksAreLastNonces == Spec => []MarkIsLastNonce
  BY TypeCorrect, MarksInit, MarksKept, PTL DEF Spec

-----------------------------------------------------------------------------
(* Inbound order.                                                          *)

\* Records and order, kept together with the marks they rest on.
InboundInv == MarkIsLastNonce /\ ProcessedBelowMark /\ SettledInOrder

\* A step that changes nothing inbound but raises a mark keeps records and order.
LEMMA InboundStutter ==
    ASSUME TypeOK, InboundInv, UNCHANGED <<mints, processed>>,
           \A k \in Keys : highWater'[k] >= highWater[k], TypeOK'
    PROVE  ProcessedBelowMark' /\ SettledInOrder'
  <1>1. SettledInOrder' BY DEF InboundInv, SettledInOrder, KeyOf
  <1>2. ASSUME NEW m \in processed PROVE m.nonce <= highWater'[KeyOf(m)]
    <2>1. m.nonce <= highWater[KeyOf(m)] BY DEF InboundInv, ProcessedBelowMark, IsProcessed
    <2>2. m \in Messages BY DEF TypeOK
    <2>3. KeyOf(m) \in Keys /\ m.nonce \in Int BY <2>2, InboundKey, GatewayConstants
    <2>4. highWater[KeyOf(m)] \in Int /\ highWater'[KeyOf(m)] \in Int
      BY <2>3, SMTT(60) DEF TypeOK, NoMark
    <2>5. highWater'[KeyOf(m)] >= highWater[KeyOf(m)] BY <2>3
    <2> QED BY <2>1, <2>3, <2>4, <2>5
  <1> QED BY <1>1, <1>2 DEF ProcessedBelowMark, IsProcessed

\* No step lowers a mark.
LEMMA MarksRise ==
    ASSUME TypeOK, [Next]_gatewayVars, NEW k \in Keys
    PROVE  highWater'[k] >= highWater[k]
  <1>1. highWater[k] \in Int /\ highWater \in [Keys -> Nat \cup {NoMark}]
    BY DEF TypeOK, NoMark
  <1>2. ASSUME NEW key \in Keys, NEW n \in Nat, highWater[key] < n,
               highWater' = [highWater EXCEPT ![key] = n]
        PROVE  highWater'[k] >= highWater[k]
    BY <1>1, <1>2
  <1>3. ASSUME NEW m \in Messages, NEW receiver \in Holders, NEW fee \in Fees \cup {0},
               FinalizeInternal(m, receiver, fee)
        PROVE  highWater'[k] >= highWater[k]
    BY <1>2, <1>3, Settling
  <1>4. ASSUME NEW from \in Accounts, NEW amount \in Amounts, NEW to \in OutDomains,
               NEW expiry \in Expiries, LockAndRelay(from, amount, to, expiry)
        PROVE  highWater'[k] >= highWater[k]
    BY <1>1, <1>4 DEF LockAndRelay
  <1>5. ASSUME NEW from \in Accounts, NEW amount \in Amounts, NEW to \in OutDomains,
               NEW expiry \in Expiries, BurnAndRelay(from, amount, to, expiry)
        PROVE  highWater'[k] >= highWater[k]
    BY <1>2, <1>5, Burning
  <1>6. CASE Quiet BY <1>1, <1>6 DEF Quiet
  <1> QED BY <1>3, <1>4, <1>5, <1>6, StepCases

\* A settlement is later than everything that settled on its key.
LEMMA SettlesNewest ==
    ASSUME TypeOK, MarkIsLastNonce, NEW m \in Messages, NEW receiver \in Holders,
           NEW fee \in Fees \cup {0}, FinalizeInternal(m, receiver, fee),
           NEW n \in Settled, KeyOf(n) = KeyOf(m)
    PROVE  n.nonce < m.nonce
  <1>1. n.nonce <= highWater[KeyOf(m)] BY DEF MarkIsLastNonce, IsProcessed
  <1>2. KeyOf(m) \in Keys /\ m.nonce \in Nat /\ highWater[KeyOf(m)] < m.nonce BY Settling
  <1>3. n.nonce \in Nat BY MessageTypes
  <1>4. highWater[KeyOf(m)] \in Int BY <1>2 DEF TypeOK, NoMark
  <1> QED BY <1>1, <1>2, <1>3, <1>4

\* Every step keeps records and order.
LEMMA InboundKept == TypeOK /\ InboundInv /\ [Next]_gatewayVars => InboundInv'
  <1> SUFFICES ASSUME TypeOK, InboundInv, [Next]_gatewayVars PROVE InboundInv' OBVIOUS
  <1>1. MarkIsLastNonce' BY MarksKept DEF InboundInv
  <1>2. TypeOK' BY NextType
  <1>3. \A k \in Keys : highWater'[k] >= highWater[k] BY MarksRise
  <1>4. ASSUME NEW m \in Messages, NEW receiver \in Holders, NEW fee \in Fees \cup {0},
               FinalizeInternal(m, receiver, fee)
        PROVE  ProcessedBelowMark' /\ SettledInOrder'
    <2>1. ASSUME NEW n \in processed' PROVE n.nonce <= highWater'[KeyOf(n)]
      <3>1. KeyOf(m) \in Keys /\ m.nonce \in Nat /\ processed' = processed \cup {m}
              /\ highWater' = [highWater EXCEPT ![KeyOf(m)] = m.nonce]
        BY <1>4, Settling
      <3>2. CASE n = m
        <4>1. highWater'[KeyOf(m)] = m.nonce BY <3>1 DEF TypeOK
        <4> QED BY <3>1, <3>2, <4>1
      <3>3. CASE n \in processed
        <4>1. n.nonce <= highWater[KeyOf(n)]
          BY <3>3 DEF InboundInv, ProcessedBelowMark, IsProcessed
        <4>2. n \in Messages BY <3>3 DEF TypeOK
        <4>3. KeyOf(n) \in Keys /\ n.nonce \in Int BY <4>2, InboundKey, GatewayConstants
        <4>4. highWater[KeyOf(n)] \in Int /\ highWater'[KeyOf(n)] \in Int
          <5>1. highWater \in [Keys -> Nat \cup {NoMark}] BY DEF TypeOK
          <5>2. highWater' \in [Keys -> Nat \cup {NoMark}] BY <1>2 DEF TypeOK
          <5> QED BY <4>3, <5>1, <5>2 DEF NoMark
        <4>5. highWater'[KeyOf(n)] >= highWater[KeyOf(n)] BY <1>3, <4>3
        <4> QED BY <4>1, <4>3, <4>4, <4>5
      <3> QED BY <3>1, <3>2, <3>3
    <2>2. ASSUME NEW i \in DOMAIN mints', NEW j \in DOMAIN mints', i < j,
                 KeyOf(mints'[i].msg) = KeyOf(mints'[j].msg)
          PROVE  mints'[i].msg.nonce < mints'[j].msg.nonce
      <3>1. /\ Len(mints) \in Nat
            /\ DOMAIN mints = 1..Len(mints) /\ DOMAIN mints' = 1..(Len(mints) + 1)
            /\ mints'[Len(mints) + 1].msg = m
            /\ \A x \in DOMAIN mints : mints'[x] = mints[x]
        BY <1>4, Settling
      <3>2. i \in DOMAIN mints /\ mints'[i] = mints[i] BY <2>2, <3>1
      <3>3. CASE j \in DOMAIN mints
        <4>1. mints'[j] = mints[j] BY <3>1, <3>3
        <4> QED BY <2>2, <3>2, <3>3, <4>1 DEF InboundInv, SettledInOrder
      <3>4. CASE j = Len(mints) + 1
        <4>1. mints[i].msg \in Settled BY <3>2 DEF Settled
        <4>2. mints'[j].msg = m BY <3>1, <3>4
        <4>3. KeyOf(mints[i].msg) = KeyOf(m) BY <2>2, <3>2, <4>2
        <4>4. mints[i].msg.nonce < m.nonce BY <1>4, <4>1, <4>3, SettlesNewest DEF InboundInv
        <4> QED BY <3>2, <4>2, <4>4
      <3> QED BY <3>1, <3>3, <3>4
    <2> QED BY <2>1, <2>2 DEF ProcessedBelowMark, IsProcessed, SettledInOrder
  <1>5. ASSUME NEW from \in Accounts, NEW amount \in Amounts, NEW to \in OutDomains,
               NEW expiry \in Expiries,
               LockAndRelay(from, amount, to, expiry) \/ BurnAndRelay(from, amount, to, expiry)
        PROVE  ProcessedBelowMark' /\ SettledInOrder'
    <2>1. UNCHANGED <<mints, processed>> BY <1>5 DEF LockAndRelay, BurnAndRelay
    <2> QED BY <1>2, <1>3, <2>1, InboundStutter
  <1>6. ASSUME Quiet PROVE ProcessedBelowMark' /\ SettledInOrder'
    <2>1. UNCHANGED <<mints, processed>> BY <1>6 DEF Quiet
    <2> QED BY <1>2, <1>3, <2>1, InboundStutter
  <1>7. ProcessedBelowMark' /\ SettledInOrder' BY <1>4, <1>5, <1>6, StepCases
  <1> QED BY <1>1, <1>7 DEF InboundInv

\* Initially nothing is on record.
LEMMA InboundInit == Init => InboundInv
  <1>1. Init => ProcessedBelowMark /\ SettledInOrder
    BY DEF Init, ProcessedBelowMark, SettledInOrder
  <1> QED BY <1>1, MarksInit DEF InboundInv

\* The messages of a key settle in the order of their nonces, and none twice.
THEOREM SettlementOrder == Spec => []SettledInOrder
  <1>1. InboundInv => SettledInOrder BY DEF InboundInv
  <1> QED BY <1>1, TypeCorrect, InboundInit, InboundKept, PTL DEF Spec

\* A message on record is never above the mark of its key.
THEOREM RecordsBelowMarks == Spec => []ProcessedBelowMark
  <1>1. InboundInv => ProcessedBelowMark BY DEF InboundInv
  <1> QED BY <1>1, TypeCorrect, InboundInit, InboundKept, PTL DEF Spec

\* No step takes a mark back.
THEOREM MarksAreFinal == Spec => MarksMoveForward
  <1>1. TypeOK /\ [Next]_gatewayVars
            => [\A k \in Keys : highWater'[k] >= highWater[k]]_gatewayVars
    BY MarksRise
  <1> QED BY <1>1, TypeCorrect, PTL DEF Spec, MarksMoveForward

-----------------------------------------------------------------------------
(* Outbound order.                                                         *)

Sent == Range(locks) \cup Range(burns)

\* The counter of a route is above every nonce that was sent on it.
SentBelowCounter == \A m \in Sent : m.nonce < outbound[RouteOf(m)]

OutboundInv == MarkIsLastNonce /\ SentBelowCounter /\ OutboundNoncesUnique

\* Messages of one key are messages of one route.
LEMMA KeyIsRoute ==
    ASSUME NEW m \in OutboundRecords, NEW n \in OutboundRecords, KeyOf(m) = KeyOf(n)
    PROVE  RouteOf(m) = RouteOf(n)
  BY DEF KeyOf, RouteOf

\* Sending m with the counter's value and advancing it keeps the counter ahead,
\* and no message sent before shares m's key and nonce.
LEMMA SendNext ==
    ASSUME TypeOK, SentBelowCounter, NEW m \in OutboundRecords,
           m.nonce = outbound[RouteOf(m)],
           outbound' = [outbound EXCEPT ![RouteOf(m)] = @ + 1],
           Sent' = Sent \cup {m}
    PROVE  /\ SentBelowCounter'
           /\ \A n \in Sent : KeyOf(n) = KeyOf(m) => n.nonce < m.nonce
  <1>1. ASSUME NEW n \in Sent PROVE n \in OutboundRecords BY DEF Sent, Range, TypeOK
  <1>2. ASSUME NEW n \in OutboundRecords
        PROVE  RouteOf(n) \in OutDomains \X Accounts /\ n.nonce \in Nat
    BY DEF OutboundRecords, RouteOf
  <1>3. outbound \in [OutDomains \X Accounts -> Nat] BY DEF TypeOK
  <1>4. ASSUME NEW n \in Sent, KeyOf(n) = KeyOf(m) PROVE n.nonce < m.nonce
    BY <1>1, <1>4, KeyIsRoute DEF SentBelowCounter
  <1>5. ASSUME NEW n \in Sent \cup {m} PROVE n.nonce < outbound'[RouteOf(n)]
    <2>1. n \in OutboundRecords BY <1>1
    <2>2. n.nonce <= outbound[RouteOf(n)]
      <3>1. CASE n \in Sent BY <1>2, <1>3, <2>1, <3>1 DEF SentBelowCounter
      <3>2. CASE n = m BY <1>2, <1>3, <3>2
      <3> QED BY <3>1, <3>2
    <2>3. CASE RouteOf(n) = RouteOf(m) BY <1>2, <1>3, <2>1, <2>2, <2>3
    <2>4. CASE RouteOf(n) # RouteOf(m)
      <3>1. n \in Sent BY <2>4
      <3>2. n.nonce < outbound[RouteOf(n)] BY <3>1 DEF SentBelowCounter
      <3>3. outbound'[RouteOf(n)] = outbound[RouteOf(n)] BY <1>2, <1>3, <2>1, <2>4
      <3> QED BY <3>2, <3>3
    <2> QED BY <2>3, <2>4
  <1> QED BY <1>4, <1>5 DEF SentBelowCounter

\* A message appended to a sequence of distinct messages, distinct from all of
\* them, leaves them distinct.
LEMMA AppendUnique ==
    ASSUME NEW s \in Seq(OutboundRecords), NEW m \in OutboundRecords,
           \A n \in Range(s) : KeyOf(n) = KeyOf(m) => n.nonce < m.nonce,
           \A i, j \in DOMAIN s : i # j =>
              <<KeyOf(s[i]), s[i].nonce>> # <<KeyOf(s[j]), s[j].nonce>>,
           NEW i \in DOMAIN Append(s, m), NEW j \in DOMAIN Append(s, m), i # j
    PROVE  <<KeyOf(Append(s, m)[i]), Append(s, m)[i].nonce>>
             # <<KeyOf(Append(s, m)[j]), Append(s, m)[j].nonce>>
  <1> DEFINE t == Append(s, m)
  <1>1. /\ DOMAIN s = 1..Len(s) /\ Len(s) \in Nat
        /\ DOMAIN t = 1..(Len(s) + 1) /\ t[Len(s) + 1] = m
        /\ \A x \in 1..Len(s) : t[x] = s[x]
    BY AppendAtEnd
  <1>2. m.nonce \in Nat BY DEF OutboundRecords
  <1> HIDE DEF t
  <1>3. ASSUME NEW x \in DOMAIN s
        PROVE  t[x] = s[x] /\ ~(KeyOf(s[x]) = KeyOf(m) /\ s[x].nonce = m.nonce)
    <2>1. s[x] \in Range(s) BY DEF Range
    <2>2. KeyOf(s[x]) = KeyOf(m) => s[x].nonce < m.nonce BY <2>1
    <2> QED BY <1>1, <1>2, <1>3, <2>2
  <1>4. CASE i \in DOMAIN s /\ j \in DOMAIN s BY <1>3, <1>4 DEF t
  <1>5. CASE i \in DOMAIN s /\ j = Len(s) + 1 BY <1>1, <1>3, <1>5 DEF t
  <1>6. CASE j \in DOMAIN s /\ i = Len(s) + 1 BY <1>1, <1>3, <1>6 DEF t
  <1> QED BY <1>1, <1>4, <1>5, <1>6 DEF t

\* What a lock or a burn does to the messages sent: it adds one, distinct from
\* all the others, and keeps the counters ahead.
LEMMA SendKept ==
    ASSUME TypeOK, OutboundInv, NEW from \in Accounts, NEW amount \in Amounts,
           NEW to \in OutDomains, NEW expiry \in Expiries,
           LockAndRelay(from, amount, to, expiry) \/ BurnAndRelay(from, amount, to, expiry)
    PROVE  /\ SentBelowCounter' /\ OutboundNoncesUnique'
           /\ UNCHANGED mints
           /\ \E m \in OutboundRecords :
                 /\ Sent' = Sent \cup {m}
                 /\ \A n \in Sent : KeyOf(n) = KeyOf(m) => n.nonce < m.nonce
  <1>1. locks \in Seq(OutboundRecords) /\ burns \in Seq(OutboundRecords) BY DEF TypeOK
  <1>2. Range(locks) \subseteq Sent /\ Range(burns) \subseteq Sent BY DEF Sent
  <1>3. \A m \in OutboundRecords : m.nonce \in Nat BY DEF OutboundRecords
  <1>4. \A i \in DOMAIN locks : locks[i] \in Range(locks) BY DEF Range
  <1>5. \A i \in DOMAIN burns : burns[i] \in Range(burns) BY DEF Range
  <1>6. CASE LockAndRelay(from, amount, to, expiry)
    <2>1. PICK m \in OutboundRecords :
             /\ m.nonce = outbound[RouteOf(m)]
             /\ outbound' = [outbound EXCEPT ![RouteOf(m)] = @ + 1]
             /\ locks' = Append(locks, m)
             /\ UNCHANGED <<mints, burns>>
      BY <1>6, Locking
    <2>2. Range(locks') = Range(locks) \cup {m} BY <1>1, <2>1, AppendSent
    <2>3. Sent' = Sent \cup {m} BY <2>1, <2>2 DEF Sent
    <2>4. SentBelowCounter' /\ \A n \in Sent : KeyOf(n) = KeyOf(m) => n.nonce < m.nonce
      BY <2>1, <2>3, SendNext DEF OutboundInv
    <2>5. \A i, j \in DOMAIN locks' : i # j =>
             <<KeyOf(locks'[i]), locks'[i].nonce>> # <<KeyOf(locks'[j]), locks'[j].nonce>>
      BY <1>1, <1>2, <2>1, <2>4, AppendUnique DEF OutboundInv, OutboundNoncesUnique
    <2>6. ASSUME NEW i \in DOMAIN locks', NEW j \in DOMAIN burns
          PROVE  <<KeyOf(locks'[i]), locks'[i].nonce>> # <<KeyOf(burns[j]), burns[j].nonce>>
      <3>1. locks'[i] \in Range(locks') BY DEF Range
      <3>2. CASE locks'[i] = m
        <4>1. KeyOf(burns[j]) = KeyOf(m) => burns[j].nonce < m.nonce BY <1>2, <1>5, <2>4
        <4> QED BY <1>3, <3>2, <4>1
      <3>3. CASE locks'[i] \in Range(locks)
        <4>1. PICK x \in DOMAIN locks : locks'[i] = locks[x] BY <3>3 DEF Range
        <4> QED BY <4>1 DEF OutboundInv, OutboundNoncesUnique
      <3> QED BY <2>2, <3>1, <3>2, <3>3
    <2>7. OutboundNoncesUnique'
      BY <2>1, <2>5, <2>6 DEF OutboundInv, OutboundNoncesUnique, KeyOf
    <2> QED BY <2>1, <2>3, <2>4, <2>7
  <1>7. CASE BurnAndRelay(from, amount, to, expiry)
    <2>1. PICK m \in OutboundRecords :
             /\ m.nonce = outbound[RouteOf(m)]
             /\ outbound' = [outbound EXCEPT ![RouteOf(m)] = @ + 1]
             /\ burns' = Append(burns, m)
             /\ UNCHANGED <<mints, locks>>
      BY <1>7, Burning
    <2>2. Range(burns') = Range(burns) \cup {m} BY <1>1, <2>1, AppendSent
    <2>3. Sent' = Sent \cup {m} BY <2>1, <2>2 DEF Sent
    <2>4. SentBelowCounter' /\ \A n \in Sent : KeyOf(n) = KeyOf(m) => n.nonce < m.nonce
      BY <2>1, <2>3, SendNext DEF OutboundInv
    <2>5. \A i, j \in DOMAIN burns' : i # j =>
             <<KeyOf(burns'[i]), burns'[i].nonce>> # <<KeyOf(burns'[j]), burns'[j].nonce>>
      BY <1>1, <1>2, <2>1, <2>4, AppendUnique, ZenonT(30) DEF OutboundInv, OutboundNoncesUnique
    <2>6. ASSUME NEW i \in DOMAIN locks, NEW j \in DOMAIN burns'
          PROVE  <<KeyOf(locks[i]), locks[i].nonce>> # <<KeyOf(burns'[j]), burns'[j].nonce>>
      <3>1. burns'[j] \in Range(burns') BY DEF Range
      <3>2. CASE burns'[j] = m
        <4>1. KeyOf(locks[i]) = KeyOf(m) => locks[i].nonce < m.nonce BY <1>2, <1>4, <2>4
        <4> QED BY <1>3, <3>2, <4>1
      <3>3. CASE burns'[j] \in Range(burns)
        <4>1. PICK x \in DOMAIN burns : burns'[j] = burns[x] BY <3>3 DEF Range
        <4> QED BY <4>1 DEF OutboundInv, OutboundNoncesUnique
      <3> QED BY <2>2, <3>1, <3>2, <3>3
    <2>7. OutboundNoncesUnique'
      BY <2>1, <2>5, <2>6 DEF OutboundInv, OutboundNoncesUnique, KeyOf
    <2> QED BY <2>1, <2>3, <2>4, <2>7
  <1> QED BY <1>6, <1>7

\* Every step keeps counters ahead and messages distinct.
LEMMA OutboundKept == TypeOK /\ OutboundInv /\ [Next]_gatewayVars => OutboundInv'
  <1> SUFFICES ASSUME TypeOK, OutboundInv, [Next]_gatewayVars PROVE OutboundInv' OBVIOUS
  <1>1. MarkIsLastNonce' BY MarksKept DEF OutboundInv
  <1>2. ASSUME UNCHANGED <<outbound, locks, burns>>
        PROVE  SentBelowCounter' /\ OutboundNoncesUnique'
    BY <1>2 DEF OutboundInv, SentBelowCounter, OutboundNoncesUnique, Sent, Range, KeyOf, RouteOf
  <1>3. ASSUME NEW m \in Messages, NEW receiver \in Holders, NEW fee \in Fees \cup {0},
               FinalizeInternal(m, receiver, fee)
        PROVE  SentBelowCounter' /\ OutboundNoncesUnique'
    BY <1>2, <1>3 DEF FinalizeInternal
  <1>4. ASSUME Quiet PROVE SentBelowCounter' /\ OutboundNoncesUnique' BY <1>2, <1>4 DEF Quiet
  <1>5. SentBelowCounter' /\ OutboundNoncesUnique' BY <1>3, <1>4, SendKept, StepCases
  <1> QED BY <1>1, <1>5 DEF OutboundInv

\* Initially nothing was sent.
LEMMA OutboundInit == Init => OutboundInv
  <1>1. Init => SentBelowCounter /\ OutboundNoncesUnique
    BY DEF Init, SentBelowCounter, OutboundNoncesUnique, Sent, Range
  <1> QED BY <1>1, MarksInit DEF OutboundInv

\* No two outbound messages share target, sender and nonce.
THEOREM OutboundUnique == Spec => []OutboundNoncesUnique
  <1>1. OutboundInv => OutboundNoncesUnique BY DEF OutboundInv
  <1> QED BY <1>1, TypeCorrect, OutboundInit, OutboundKept, PTL DEF Spec

\* A burn's nonce is above its mark: marks of outbound keys come from burns
\* alone, since no inbound message names the zero source, and every burn's
\* nonce is below the counter.
LEMMA BurnAboveMark == TypeOK /\ OutboundInv => BurnNeverReplayed
  <1> SUFFICES ASSUME TypeOK, OutboundInv, NEW to \in OutDomains, NEW from \in Accounts
               PROVE  highWater[<<Home, to, from>>] < NextNonce(to, from)
    BY DEF BurnNeverReplayed
  <1> DEFINE k == <<Home, to, from>>
  <1>1. k \in Keys /\ k[1] = Home BY DEF Keys
  <1>2. outbound[<<to, from>>] \in Nat BY DEF TypeOK
  <1>3. CASE highWater[k] = NoMark BY <1>2, <1>3 DEF NoMark, NextNonce
  <1>4. CASE highWater[k] # NoMark
    <2>1. PICK m \in Settled \cup Range(burns) : KeyOf(m) = k /\ m.nonce = highWater[k]
      BY <1>1, <1>4 DEF OutboundInv, MarkIsLastNonce
    <2>2. m \notin Settled BY <1>1, <2>1, MessageTypes, InboundKey
    <2>3. m \in Sent BY <2>1, <2>2 DEF Sent
    <2>4. RouteOf(m) = <<to, from>> BY <2>1 DEF KeyOf, RouteOf
    <2> QED BY <2>1, <2>3, <2>4 DEF OutboundInv, SentBelowCounter, NextNonce
  <1> QED BY <1>3, <1>4

\* The replay check inside burn_and_relay never refuses a holder.
THEOREM BurnsNeverReplayed == Spec => []BurnNeverReplayed
  BY TypeCorrect, OutboundInit, OutboundKept, BurnAboveMark, PTL DEF Spec

-----------------------------------------------------------------------------
(* The promise.                                                            *)

\* Every step is a step the promise allows.
LEMMA StepKeepsPromise ==
    ASSUME TypeOK, OutboundInv, [Next]_gatewayVars
    PROVE  Promise!Settle \/ Promise!Send \/ Promise!RegistryMoves
  <1>1. ASSUME NEW m \in Messages, NEW receiver \in Holders, NEW fee \in Fees \cup {0},
               FinalizeInternal(m, receiver, fee)
        PROVE  Promise!Settle
    <2>1. Settled' = Settled \cup {m} BY <1>1, Settling
    <2>2. Committed(m) /\ UNCHANGED <<locks, burns, finalized>>
      BY <1>1 DEF FinalizeInternal, InboundAccepts
    <2>3. \A n \in Settled : KeyOf(n) = KeyOf(m) => n.nonce < m.nonce
      BY <1>1, SettlesNewest DEF OutboundInv
    <2>4. Promise!NewestIn(Settled, m)
      BY <2>3 DEF Promise!NewestIn, Promise!Route, KeyOf
    <2> QED BY <2>1, <2>2, <2>4 DEF Promise!Settle, Committed
  <1>2. ASSUME NEW from \in Accounts, NEW amount \in Amounts, NEW to \in OutDomains,
               NEW expiry \in Expiries,
               LockAndRelay(from, amount, to, expiry) \/ BurnAndRelay(from, amount, to, expiry)
        PROVE  Promise!Send
    <2>1. PICK m \in OutboundRecords :
             /\ Sent' = Sent \cup {m}
             /\ \A n \in Sent : KeyOf(n) = KeyOf(m) => n.nonce < m.nonce
      BY <1>2, SendKept
    <2>2. UNCHANGED <<mints, finalized>> BY <1>2 DEF LockAndRelay, BurnAndRelay
    <2>3. Settled' = Settled BY <2>2 DEF Settled
    <2>4. Promise!NewestIn(Sent, m) BY <2>1 DEF Promise!NewestIn, Promise!Route, KeyOf
    <2> QED BY <2>1, <2>2, <2>3, <2>4 DEF Promise!Send, Sent
  <1>3. ASSUME Quiet PROVE Promise!RegistryMoves
    BY <1>3 DEF Quiet, Promise!RegistryMoves, Settled
  <1> QED BY <1>1, <1>2, <1>3, StepCases

\* The contract keeps its promise: it settles only what the registry commits to
\* at that moment, and settles and sends in the order of nonces on every route.
THEOREM KeepsPromise == Spec => PromiseKept
  <1>1. Init => Promise!Init BY DEF Init, Promise!Init, Settled, Range
  <1>2. TypeOK /\ OutboundInv /\ [Next]_gatewayVars
          => [Promise!Settle \/ Promise!Send \/ Promise!RegistryMoves]_Promise!promiseVars
    BY StepKeepsPromise
  <1> QED BY <1>1, <1>2, TypeCorrect, OutboundInit, OutboundKept, PTL
          DEF Spec, PromiseKept, Promise!Spec

-----------------------------------------------------------------------------
(* The books.                                                              *)

\* What a mint added to the supply: a negative fee adds to the amount.
Credited == [i \in DOMAIN mints |->
                IF mints[i].fee < 0 THEN mints[i].msg.amount - mints[i].fee
                ELSE mints[i].msg.amount]

\* The books for every fee, the negative ones the sponsored entry point takes included.
BooksInv ==
    /\ Supply + SumOf(AmountsOf(burns), DOMAIN burns)
          = InitialSupply + SumOf(Credited, DOMAIN mints)
    /\ \A a \in Accounts : rewards[a] = SumOf(FeesOf(a), DOMAIN mints)
    /\ balance[Gateway] >= InitialBalance[Gateway] + SumOf(AmountsOf(locks), DOMAIN locks)

\* Every amount and fee anybody names is a whole number.
LEMMA WholeAmounts ==
    /\ \A m \in Messages : m.amount \in Int
    /\ Fees \cup {0} \subseteq Int
    /\ \A m \in OutboundRecords : m.amount \in Int
<1>1. \A m \in Messages : m.amount \in Int
  BY GatewayConstants
<1>2. Fees \subseteq Int /\ Amounts \subseteq Int
  BY GatewayConstants
<1>3. \A m \in OutboundRecords : m.amount \in Amounts
  BY DEF OutboundRecords
<1>4. Fees \cup {0} \subseteq Int
  BY <1>2
<1>5. \A m \in OutboundRecords : m.amount \in Int
  BY <1>2, <1>3
<1> QED BY <1>1, <1>4, <1>5

\* The tables the books add up hold whole numbers.
LEMMA BookTypes ==
    ASSUME TypeOK
    PROVE  /\ Len(mints) \in Nat /\ DOMAIN mints = 1..Len(mints)
           /\ Len(burns) \in Nat /\ DOMAIN burns = 1..Len(burns)
           /\ Len(locks) \in Nat /\ DOMAIN locks = 1..Len(locks)
           /\ \A i \in DOMAIN mints : /\ Credited[i] \in Int /\ LockedAmounts[i] \in Int
                                      /\ mints[i].fee \in Int
           /\ \A a \in Accounts, i \in DOMAIN mints : FeesOf(a)[i] \in Int
           /\ \A i \in DOMAIN burns : AmountsOf(burns)[i] \in Int
           /\ \A i \in DOMAIN locks : AmountsOf(locks)[i] \in Int
           /\ SumOf(AmountsOf(burns), DOMAIN burns) \in Int
           /\ SumOf(AmountsOf(locks), DOMAIN locks) \in Int
<1>1. /\ Len(mints) \in Nat /\ DOMAIN mints = 1..Len(mints)
      /\ Len(burns) \in Nat /\ DOMAIN burns = 1..Len(burns)
      /\ Len(locks) \in Nat /\ DOMAIN locks = 1..Len(locks)
  BY DEF TypeOK
<1>2. \A i \in DOMAIN mints : mints[i].msg \in Messages /\ mints[i].fee \in Fees \cup {0}
  <2>1. \A i \in DOMAIN mints : mints[i] \in MintRecords
    BY DEF TypeOK
  <2> QED BY <2>1 DEF MintRecords
<1>3. \A i \in DOMAIN mints : mints[i].msg.amount \in Int /\ mints[i].fee \in Int
  BY <1>2, WholeAmounts
<1>4. \A i \in DOMAIN mints : Credited[i] \in Int /\ LockedAmounts[i] \in Int
  BY <1>3 DEF Credited, LockedAmounts
<1>5. \A a \in Accounts, i \in DOMAIN mints : FeesOf(a)[i] \in Int
  BY <1>3 DEF FeesOf
<1>6. (\A i \in DOMAIN burns : burns[i].amount \in Int) /\ \A i \in DOMAIN locks : locks[i].amount \in Int
  <2>1. /\ \A i \in DOMAIN burns : burns[i] \in OutboundRecords
        /\ \A i \in DOMAIN locks : locks[i] \in OutboundRecords
    BY DEF TypeOK
  <2> QED BY <2>1, WholeAmounts
<1>7. (\A i \in DOMAIN burns : AmountsOf(burns)[i] \in Int)
      /\ \A i \in DOMAIN locks : AmountsOf(locks)[i] \in Int
  BY <1>6 DEF AmountsOf
<1>8. IsFiniteSet(DOMAIN burns) /\ IsFiniteSet(DOMAIN locks)
  BY <1>1, FS_Interval
<1>9. SumOf(AmountsOf(burns), DOMAIN burns) \in Int
  BY <1>7, <1>8, SumType
<1>10. SumOf(AmountsOf(locks), DOMAIN locks) \in Int
  BY <1>7, <1>8, SumType
<1> QED BY <1>1, <1>3, <1>4, <1>5, <1>7, <1>9, <1>10

\* One entry of a table changes by so much, and the supply with it.
LEMMA SupplyMoves ==
    ASSUME NEW b \in [Holders -> Int], NEW h \in Holders, NEW amount \in Int
    PROVE  /\ [b EXCEPT ![h] = @ + amount] \in [Holders -> Int]
           /\ SumOf(b, Holders) \in Int
           /\ SumOf([b EXCEPT ![h] = @ + amount], Holders) = SumOf(b, Holders) + amount
<1> DEFINE after == [b EXCEPT ![h] = @ + amount]
<1>1. b[h] \in Int /\ b[h] + amount \in Int
  OBVIOUS
<1>2. after \in [Holders -> Int] /\ after[h] = b[h] + amount
      /\ \A x \in Holders \ {h} : b[x] = after[x]
  BY <1>1
<1> HIDE DEF after
<1>3. IsFiniteSet(Holders)
  BY GatewayConstants, FS_AddElement DEF Holders
<1>4. \A x \in Holders : b[x] \in Int /\ after[x] \in Int
  BY <1>2
<1>5. SumOf(after, Holders) = SumOf(b, Holders) - b[h] + after[h]
  BY <1>2, <1>3, <1>4, SumUpdate
<1>6. SumOf(b, Holders) \in Int
  BY <1>3, <1>4, SumType
<1>7. SumOf(after, Holders) = SumOf(b, Holders) + amount
  BY <1>1, <1>2, <1>5, <1>6
<1> QED BY <1>2, <1>6, <1>7 DEF after

\* The last entry of a list of calls is the last term of its sum.
LEMMA AmountsGrow ==
    ASSUME NEW calls \in Seq(OutboundRecords), NEW m \in OutboundRecords
    PROVE  SumOf(AmountsOf(Append(calls, m)), DOMAIN Append(calls, m))
              = SumOf(AmountsOf(calls), DOMAIN calls) + m.amount
<1> DEFINE n == Len(calls)
           f == AmountsOf(calls)
           g == AmountsOf(Append(calls, m))
<1>1. /\ n \in Nat /\ DOMAIN calls = 1..n /\ DOMAIN Append(calls, m) = 1..(n + 1)
      /\ Append(calls, m)[n + 1] = m /\ \A i \in 1..n : Append(calls, m)[i] = calls[i]
  BY AppendAtEnd
<1>2. m.amount \in Int /\ \A i \in 1..n : calls[i].amount \in Int
  <2>1. \A i \in 1..n : calls[i] \in OutboundRecords
    BY <1>1
  <2> QED BY <2>1, WholeAmounts
<1>3. g[n + 1] = m.amount /\ \A i \in 1..n : f[i] = calls[i].amount /\ g[i] = f[i]
  BY <1>1 DEF AmountsOf
<1> HIDE DEF f, g, n
<1>4. SumOf(g, 1..(n + 1)) = SumOf(f, 1..n) + g[n + 1]
  <2>1. \A i \in 1..n : f[i] \in Int /\ g[i] = f[i]
    BY <1>2, <1>3
  <2>2. g[n + 1] \in Int
    BY <1>2, <1>3
  <2> QED BY <1>1, <2>1, <2>2, SumNext
<1> QED BY <1>1, <1>3, <1>4 DEF f, g

\* A lock moves what it records from its sender to the contract.
LEMMA LockKeepsBooks ==
    ASSUME TypeOK, BooksInv, NEW from \in Accounts, NEW amount \in Amounts, NEW to \in OutDomains,
           NEW expiry \in Expiries, LockAndRelay(from, amount, to, expiry)
    PROVE  BooksInv'
<1> DEFINE m == OutboundMessage(from, amount, to, expiry, "Lock")
           taken == [balance EXCEPT ![from] = @ + (-amount)]
           given == [taken EXCEPT ![Gateway] = @ + amount]
<1>1. m \in OutboundRecords /\ m.amount = amount
  BY OutboundKey DEF OutboundMessage
<1>2. /\ locks' = Append(locks, m) /\ balance' = Escrow(from, amount)
      /\ UNCHANGED <<mints, burns, rewards>>
  BY DEF LockAndRelay
<1> HIDE DEF m
<1>3. amount \in Int /\ from \in Holders /\ Gateway \in Holders /\ from # Gateway
  BY GatewayConstants DEF Holders
<1>4. balance \in [Holders -> Int] /\ balance[Gateway] \in Int /\ balance[from] \in Int
  BY <1>3 DEF TypeOK
<1>5. balance' = given
  <2>1. Escrow(from, amount) = [balance EXCEPT ![from] = @ - amount, ![Gateway] = @ + amount]
    BY DEF Escrow
  <2>2. balance[from] - amount = balance[from] + (-amount)
    BY <1>3, <1>4
  <2> QED BY <1>2, <1>3, <1>4, <2>1, <2>2
<1>6. /\ taken \in [Holders -> Int] /\ SumOf(taken, Holders) = SumOf(balance, Holders) + (-amount)
      /\ SumOf(balance, Holders) \in Int
  <2>1. -amount \in Int
    BY <1>3
  <2> QED BY <1>3, <1>4, <2>1, SupplyMoves
<1>7. taken[Gateway] = balance[Gateway]
  BY <1>3, <1>4
<1> HIDE DEF taken
<1>8. SumOf(given, Holders) = SumOf(taken, Holders) + amount
  <2>1. taken \in [Holders -> Int] /\ Gateway \in Holders /\ amount \in Int
    BY <1>3, <1>6
  <2> QED BY <2>1, SupplyMoves
<1>9. balance'[Gateway] = balance[Gateway] + amount
  BY <1>3, <1>5, <1>6, <1>7
<1> HIDE DEF given
<1>10. Supply' = Supply
  <2>1. SumOf(given, Holders) = SumOf(balance, Holders)
    BY <1>3, <1>6, <1>8
  <2> QED BY <1>5, <2>1 DEF Supply
<1>11. SumOf(AmountsOf(locks), DOMAIN locks)' = SumOf(AmountsOf(locks), DOMAIN locks) + amount
  <2>1. locks \in Seq(OutboundRecords)
    BY DEF TypeOK
  <2>2. SumOf(AmountsOf(Append(locks, m)), DOMAIN Append(locks, m))
           = SumOf(AmountsOf(locks), DOMAIN locks) + m.amount
    BY <1>1, <2>1, AmountsGrow
  <2> QED BY <1>1, <1>2, <2>2
<1>12. SumOf(AmountsOf(locks), DOMAIN locks) \in Int
  BY BookTypes
<1>13. InitialBalance[Gateway] \in Int
  BY <1>3, GatewayConstants DEF Holders
<1> DEFINE sent == SumOf(AmountsOf(locks), DOMAIN locks)
<1>14. balance'[Gateway] >= InitialBalance[Gateway] + SumOf(AmountsOf(locks), DOMAIN locks)'
  <2>1. balance[Gateway] >= InitialBalance[Gateway] + sent
    BY DEF BooksInv
  <2> HIDE DEF sent
  <2>2. balance[Gateway] + amount >= InitialBalance[Gateway] + (sent + amount)
    BY <1>3, <1>4, <1>12, <1>13, <2>1 DEF sent
  <2> QED BY <1>9, <1>11, <2>2 DEF sent
<1>15. UNCHANGED <<AmountsOf(burns), Credited>> /\ \A a \in Accounts : FeesOf(a)' = FeesOf(a)
  BY <1>2 DEF AmountsOf, Credited, FeesOf
<1> QED BY <1>2, <1>10, <1>14, <1>15 DEF BooksInv

\* A burn takes what it records off its sender and off the supply.
LEMMA BurnKeepsBooks ==
    ASSUME TypeOK, BooksInv, NEW from \in Accounts, NEW amount \in Amounts, NEW to \in OutDomains,
           NEW expiry \in Expiries, BurnAndRelay(from, amount, to, expiry)
    PROVE  BooksInv'
<1> DEFINE m == OutboundMessage(from, amount, to, expiry, "Burn")
           taken == [balance EXCEPT ![from] = @ + (-amount)]
<1>1. m \in OutboundRecords /\ m.amount = amount
  BY OutboundKey DEF OutboundMessage
<1>2. /\ burns' = Append(burns, m) /\ balance' = [balance EXCEPT ![from] = @ - amount]
      /\ UNCHANGED <<mints, locks, rewards>>
  BY DEF BurnAndRelay
<1> HIDE DEF m
<1>3. amount \in Int /\ from \in Holders /\ Gateway \in Holders /\ from # Gateway
  BY GatewayConstants DEF Holders
<1>4. balance \in [Holders -> Int] /\ balance[from] \in Int
  BY <1>3 DEF TypeOK
<1>5. balance' = taken
  <2>1. balance[from] - amount = balance[from] + (-amount)
    BY <1>3, <1>4
  <2> QED BY <1>2, <1>4, <2>1
<1>6. SumOf(taken, Holders) = SumOf(balance, Holders) + (-amount) /\ SumOf(balance, Holders) \in Int
  <2>1. -amount \in Int
    BY <1>3
  <2> QED BY <1>3, <1>4, <2>1, SupplyMoves
<1>7. balance'[Gateway] = balance[Gateway]
  BY <1>2, <1>3, <1>4
<1> HIDE DEF taken
<1> DEFINE sent == SumOf(AmountsOf(burns), DOMAIN burns)
<1>8. SumOf(AmountsOf(burns), DOMAIN burns)' = sent + amount
  <2>1. burns \in Seq(OutboundRecords)
    BY DEF TypeOK
  <2>2. SumOf(AmountsOf(Append(burns, m)), DOMAIN Append(burns, m)) = sent + m.amount
    BY <1>1, <2>1, AmountsGrow
  <2> QED BY <1>1, <1>2, <2>2
<1>9. sent \in Int
  BY BookTypes
<1>10. Supply' = Supply + (-amount) /\ Supply \in Int
  BY <1>5, <1>6 DEF Supply
<1>11. (Supply + (-amount)) + (sent + amount) = Supply + sent
  <2> HIDE DEF sent
  <2> QED BY <1>3, <1>9, <1>10
<1>12. Supply' + SumOf(AmountsOf(burns), DOMAIN burns)' = Supply + sent
  BY <1>8, <1>10, <1>11
<1>13. UNCHANGED <<AmountsOf(locks), Credited>> /\ \A a \in Accounts : FeesOf(a)' = FeesOf(a)
  BY <1>2 DEF AmountsOf, Credited, FeesOf
<1> QED BY <1>2, <1>7, <1>12, <1>13 DEF BooksInv

\* What an inbound call does to messages and rewards, whichever entry point it used.
Paid(m, receiver, fee) ==
    /\ FinalizeInternal(m, receiver, fee)
    /\ rewards' = IF fee > 0 THEN [rewards EXCEPT ![receiver] = @ + fee] ELSE rewards
    /\ fee > 0 => receiver \in Accounts

\* Every inbound call pays its fee to an account and enters it as a reward.
LEMMA InboundPays ==
    ASSUME TypeOK, InboundCall
    PROVE  \E m \in Messages, receiver \in Holders, fee \in Fees \cup {0} :
              Paid(m, receiver, fee)
<1>1. PICK m \in Messages : \/ FinalizeInbound(m)
                            \/ \E relayer \in Accounts, fee \in Fees :
                                  \/ FinalizeInboundGasless(relayer, m, fee)
                                  \/ FinalizeInboundSponsored(relayer, m, fee)
  BY DEF InboundCall
<1>2. CASE FinalizeInbound(m)
  <2>1. m.recipient \in Holders
    BY GatewayConstants DEF Holders
  <2>2. Paid(m, m.recipient, 0)
    BY <1>2 DEF FinalizeInbound, Paid
  <2> QED BY <2>1, <2>2
<1>3. ASSUME NEW relayer \in Accounts, NEW fee \in Fees,
             FinalizeInboundGasless(relayer, m, fee) \/ FinalizeInboundSponsored(relayer, m, fee)
      PROVE  Paid(m, relayer, fee)
  BY <1>3 DEF FinalizeInboundGasless, FinalizeInboundSponsored, Reward, Paid
<1> QED BY <1>1, <1>2, <1>3 DEF Holders

\* What a mint adds to the supply, and to the contract's own balance at least.
LEMMA CreditAdds ==
    ASSUME NEW b \in [Holders -> Int], NEW m \in Messages, NEW receiver \in Holders,
           NEW fee \in Fees \cup {0}, m.amount - fee > 0
    PROVE  /\ SumOf(b, Holders) \in Int
           /\ SumOf(Credit(b, m, receiver, fee), Holders)
                 = SumOf(b, Holders) + (IF fee < 0 THEN m.amount - fee ELSE m.amount)
           /\ Credit(b, m, receiver, fee)[Gateway] >= b[Gateway]
<1>1. m.recipient \in Holders /\ m.amount \in Int /\ fee \in Int /\ m.amount - fee \in Int
  <2>1. m.recipient \in Holders
    BY GatewayConstants DEF Holders
  <2> QED BY <2>1, WholeAmounts
<1> DEFINE due == m.amount - fee
           paid == [b EXCEPT ![m.recipient] = @ + due]
           both == [paid EXCEPT ![receiver] = @ + fee]
<1>2. /\ paid \in [Holders -> Int] /\ SumOf(b, Holders) \in Int
      /\ SumOf(paid, Holders) = SumOf(b, Holders) + due
  <2> DEFINE h == m.recipient
  <2>1. h \in Holders /\ due \in Int
    BY <1>1
  <2> HIDE DEF h, due
  <2>2. /\ [b EXCEPT ![h] = @ + due] \in [Holders -> Int] /\ SumOf(b, Holders) \in Int
        /\ SumOf([b EXCEPT ![h] = @ + due], Holders) = SumOf(b, Holders) + due
    BY <2>1, SupplyMoves
  <2> QED BY <2>2 DEF h
<1>3. paid[Gateway] >= b[Gateway]
  BY <1>1 DEF Holders
<1>4. CASE fee > 0
  <2>1. Credit(b, m, receiver, fee) = both
    BY <1>4 DEF Credit
  <2>2. SumOf(both, Holders) = SumOf(paid, Holders) + fee
    <3>1. paid \in [Holders -> Int] /\ fee \in Int
      BY <1>1, <1>2
    <3> HIDE DEF paid
    <3>2. SumOf([paid EXCEPT ![receiver] = @ + fee], Holders) = SumOf(paid, Holders) + fee
      BY <3>1, SupplyMoves, ZenonT(30)
    <3> QED BY <3>2
  <2>3. both[Gateway] >= paid[Gateway]
    <3> HIDE DEF paid
    <3> QED BY <1>1, <1>2, <1>4 DEF Holders
  <2>4. SumOf(both, Holders) = SumOf(b, Holders) + m.amount
    BY <1>1, <1>2, <2>2
  <2>5. both[Gateway] >= b[Gateway]
    <3>1. Gateway \in Holders
      BY DEF Holders
    <3>2. b[Gateway] \in Int /\ paid[Gateway] \in Int /\ both[Gateway] \in Int
      <4> HIDE DEF paid
      <4> QED BY <1>1, <1>2, <3>1
    <3> HIDE DEF both, paid
    <3> QED BY <1>3, <2>3, <3>2
  <2> HIDE DEF both
  <2> QED BY <1>1, <1>2, <1>4, <2>1, <2>4, <2>5
<1>5. CASE ~(fee > 0)
  <2>1. Credit(b, m, receiver, fee) = paid
    BY <1>5 DEF Credit
  <2>2. m.amount - fee = IF fee < 0 THEN m.amount - fee ELSE m.amount
    BY <1>1, <1>5
  <2> HIDE DEF paid
  <2> QED BY <1>2, <1>3, <2>1, <2>2
<1> QED BY <1>4, <1>5

\* A settlement adds what it credited, and its fee to its receiver's rewards.
LEMMA MintKeepsBooks ==
    ASSUME TypeOK, BooksInv, NEW m \in Messages, NEW receiver \in Holders,
           NEW fee \in Fees \cup {0}, Paid(m, receiver, fee)
    PROVE  BooksInv'
<1> DEFINE n == Len(mints)
           entry == [msg |-> m, receiver |-> receiver, fee |-> fee]
           credit == IF fee < 0 THEN m.amount - fee ELSE m.amount
<1>1. /\ mints' = Append(mints, entry) /\ balance' = Credit(balance, m, receiver, fee)
      /\ m.amount - fee > 0 /\ UNCHANGED <<burns, locks>>
  BY DEF Paid, FinalizeInternal, InboundAccepts
<1>2. m.amount \in Int /\ fee \in Int /\ credit \in Int
  BY WholeAmounts
<1>3. /\ n \in Nat /\ DOMAIN mints = 1..n /\ DOMAIN mints' = 1..(n + 1)
      /\ mints'[n + 1] = entry /\ \A i \in 1..n : mints'[i] = mints[i]
  <2>1. mints \in Seq(MintRecords) /\ entry \in MintRecords
    BY DEF TypeOK, MintRecords
  <2> HIDE DEF entry
  <2> QED BY <1>1, <2>1, AppendAtEnd
<1>4. Supply' = Supply + credit /\ Supply \in Int
  <2>1. balance \in [Holders -> Int]
    BY DEF TypeOK
  <2> QED BY <1>1, <2>1, CreditAdds DEF Supply
<1>5. balance'[Gateway] >= balance[Gateway]
  <2>1. balance \in [Holders -> Int]
    BY DEF TypeOK
  <2> QED BY <1>1, <2>1, CreditAdds
<1>6. SumOf(Credited, DOMAIN mints)' = SumOf(Credited, DOMAIN mints) + credit
  <2>1. Credited'[n + 1] = credit /\ \A i \in 1..n : Credited'[i] = Credited[i]
    BY <1>3 DEF Credited
  <2>2. \A i \in 1..n : Credited[i] \in Int
    BY <1>3, BookTypes
  <2> HIDE DEF credit, n
  <2>3. SumOf(Credited', 1..(n + 1)) = SumOf(Credited, 1..n) + Credited'[n + 1]
    BY <1>2, <1>3, <2>1, <2>2, SumNext
  <2> QED BY <1>3, <2>1, <2>3
<1>7. ASSUME NEW a \in Accounts
      PROVE  rewards'[a] = SumOf(FeesOf(a), DOMAIN mints)'
  <2> DEFINE paid == IF receiver = a /\ fee > 0 THEN fee ELSE 0
             f == FeesOf(a)
             g == FeesOf(a)'
  <2>1. g[n + 1] = paid /\ \A i \in 1..n : g[i] = f[i]
    BY <1>3 DEF FeesOf
  <2>2. (\A i \in 1..n : f[i] \in Int) /\ paid \in Int
    BY <1>2, <1>3, BookTypes
  <2>3. rewards[a] = SumOf(f, 1..n) /\ rewards[a] \in Int
    BY <1>3 DEF BooksInv, TypeOK
  <2>4. rewards'[a] = rewards[a] + paid
    BY <1>2, <2>3 DEF Paid, TypeOK
  <2> HIDE DEF f, g, n, paid
  <2>5. SumOf(g, 1..(n + 1)) = SumOf(f, 1..n) + g[n + 1]
    BY <1>3, <2>1, <2>2, SumNext
  <2> QED BY <1>3, <2>1, <2>3, <2>4, <2>5 DEF g
<1>8. Supply' + SumOf(AmountsOf(burns), DOMAIN burns)'
         = InitialSupply + SumOf(Credited, DOMAIN mints)'
  <2> DEFINE burned == SumOf(AmountsOf(burns), DOMAIN burns)
             credited == SumOf(Credited, DOMAIN mints)
  <2>1. burned' = burned /\ burned \in Int
    BY <1>1, BookTypes DEF AmountsOf
  <2>2. credited \in Int
    <3>1. IsFiniteSet(DOMAIN mints)
      BY <1>3, FS_Interval
    <3> QED BY <3>1, BookTypes, SumType
  <2>3. InitialSupply \in Int
    <3>1. IsFiniteSet(Holders)
      BY GatewayConstants, FS_AddElement DEF Holders
    <3>2. \A h \in Holders : InitialBalance[h] \in Int
      BY GatewayConstants DEF Holders
    <3> QED BY <3>1, <3>2, SumType DEF InitialSupply
  <2>4. Supply + burned = InitialSupply + credited
    BY DEF BooksInv
  <2> HIDE DEF burned, credited, credit
  <2>5. (Supply + credit) + burned = InitialSupply + (credited + credit)
    BY <1>2, <1>4, <2>1, <2>2, <2>3, <2>4
  <2> QED BY <1>4, <1>6, <2>1, <2>5 DEF burned, credited
<1>9. balance'[Gateway] >= InitialBalance[Gateway] + SumOf(AmountsOf(locks), DOMAIN locks)'
  <2> DEFINE locked == SumOf(AmountsOf(locks), DOMAIN locks)
  <2>1. locked' = locked /\ locked \in Int
    BY <1>1, BookTypes DEF AmountsOf
  <2>2. Gateway \in Holders /\ InitialBalance[Gateway] \in Int /\ balance[Gateway] \in Int
        /\ balance'[Gateway] \in Int
    <3>1. balance' \in [Holders -> Nat]
      BY <1>1, CreditType
    <3> QED BY <3>1, GatewayConstants DEF Holders, TypeOK
  <2>3. balance[Gateway] >= InitialBalance[Gateway] + locked
    BY DEF BooksInv
  <2> HIDE DEF locked
  <2> QED BY <1>5, <2>1, <2>2, <2>3 DEF locked
<1> QED BY <1>7, <1>8, <1>9 DEF BooksInv

\* What no step but a settlement, a lock or a burn touches.
BooksRest == UNCHANGED <<balance, rewards, mints, burns, locks>>

\* Every step keeps the books.
LEMMA BooksKept == TypeOK /\ BooksInv /\ [Next]_gatewayVars => BooksInv'
<1> SUFFICES ASSUME TypeOK, BooksInv, [Next]_gatewayVars PROVE BooksInv'
  OBVIOUS
<1>1. CASE InboundCall
  BY <1>1, InboundPays, MintKeepsBooks
<1>2. CASE OutboundCall
  BY <1>2, LockKeepsBooks, BurnKeepsBooks DEF OutboundCall
<1>3. ASSUME NEW a \in Accounts, RenounceAdmin(a) \/ \E c \in Accounts : SetFeeConfig(a, c)
      PROVE  BooksRest
  BY <1>3 DEF BooksRest, RenounceAdmin, SetFeeConfig
<1>4. ASSUME CloseLedger
      PROVE  BooksRest
  BY <1>4 DEF BooksRest, CloseLedger, contractVars
<1>5. ASSUME NEW d, NEW h, NEW r, RegistryMoves(d, h, r)
      PROVE  BooksRest
  BY <1>5 DEF BooksRest, RegistryMoves, contractVars
<1>6. ASSUME UNCHANGED gatewayVars
      PROVE  BooksRest
  BY <1>6 DEF BooksRest, gatewayVars, contractVars
<1>7. CASE BooksRest
  BY <1>7 DEF BooksRest, BooksInv, Supply, Credited, FeesOf, AmountsOf
<1> QED BY <1>1, <1>2, <1>3, <1>4, <1>5, <1>6, <1>7 DEF Next

\* Before the first call the books are those the token began with.
LEMMA BooksInit == Init => BooksInv
<1> SUFFICES ASSUME Init PROVE BooksInv
  OBVIOUS
<1>1. DOMAIN mints = {} /\ DOMAIN burns = {} /\ DOMAIN locks = {}
  BY DEF Init
<1>2. /\ SumOf(AmountsOf(burns), DOMAIN burns) = 0 /\ SumOf(Credited, DOMAIN mints) = 0
      /\ SumOf(AmountsOf(locks), DOMAIN locks) = 0
      /\ \A a \in Accounts : SumOf(FeesOf(a), DOMAIN mints) = 0
  BY <1>1, SumEmpty
<1>3. Supply = InitialSupply
  BY DEF Init, Supply, InitialSupply
<1>4. InitialBalance[Gateway] \in Int /\ balance[Gateway] = InitialBalance[Gateway]
      /\ \A a \in Accounts : rewards[a] = 0
  BY GatewayConstants DEF Init
<1> QED BY <1>2, <1>3, <1>4 DEF BooksInv

\* Where every fee taken was at least nothing, a mint credits what was locked.
LEMMA CreditIsLocked ==
    ASSUME TypeOK, BooksInv, \A i \in DOMAIN mints : mints[i].fee >= 0
    PROVE  BooksBalance
<1>1. \A i \in DOMAIN mints : Credited[i] = LockedAmounts[i]
  BY BookTypes DEF Credited, LockedAmounts
<1>2. IsFiniteSet(DOMAIN mints)
  BY BookTypes, FS_Interval
<1>3. SumOf(Credited, DOMAIN mints) = SumOf(LockedAmounts, DOMAIN mints)
  BY <1>1, <1>2, SumSame
<1> QED BY <1>3 DEF BooksInv, BooksBalance

\* The books agree for ever, as long as no sponsor was let through with a fee
\* below nothing: that fee is the one way into a mint larger than its lock.
THEOREM BooksAgree ==
    Spec => []((\A i \in DOMAIN mints : mints[i].fee >= 0) => BooksBalance)
<1>1. TypeOK /\ BooksInv => ((\A i \in DOMAIN mints : mints[i].fee >= 0) => BooksBalance)
  BY CreditIsLocked
<1> QED BY <1>1, TypeCorrect, BooksInit, BooksKept, PTL DEF Spec
=============================================================================

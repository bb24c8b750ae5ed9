----------------------------- MODULE Gate2Proofs -----------------------------
(***************************************************************************)
(* Gate 2, for any accounts, amounts, requests and bounds.  A claimable    *)
(* burn stays claimable until it is claimed, for the two replay guards of  *)
(* the claim name the same messages; a nonce is good for one request,      *)
(* being spent with the request that used it.  What vault and battery owe, *)
(* who owns which ticket and what tiers were earned: the sums over         *)
(* tickets, batteries and proofs are followed step by step with the        *)
(* lemmas of SumTheorems.                                                  *)
(***************************************************************************)
EXTENDS Campaign, SumTheorems

Message ==
    [nonce : Nat, sender : {Router, Stranger}, domain : {SourceDomain}, amount : Int,
     feeExecuted : Nat, recipient : Recipients, relayFeeCap : Nat, batteryAmount : Nat,
     mod : {0, 1}]

BurnsTyped ==
    /\ burns \in Seq(Message)
    /\ \A i \in DOMAIN burns : burns[i].sender = Router => ValidRecipient(burns[i].recipient)

Claimed == {proofs[i].message : i \in DOMAIN proofs}

\* Circle's nonce, the claim's own record and the passport name the same messages.
GuardsAgree ==
    /\ proofs \in Seq({MigrationProof(m, fee) : m \in Message, fee \in Nat})
    /\ claimed = Claimed
    /\ received = Claimed

\* Every request that took effect spent its nonce.
NoncesSpent ==
    /\ forwards \in Seq(Requests)
    /\ \A i \in DOMAIN forwards : <<forwards[i].owner, forwards[i].nonce>> \in used
    /\ ForwardedOnce

gate2Vars == <<burns, proofs, claimed, received, forwards, used>>

-----------------------------------------------------------------------------

\* A burn of the router's is well formed: burnBatch checks the recipient first.
LEMMA RouterKeepsBurnsTyped ==
    ASSUME BurnsTyped, RouterStep
    PROVE  BurnsTyped'
<1> USE AmountsNatural
<1>1. CASE \E delta \in Deltas, recipient \in Recipients, cap \in FeeCaps,
              battery \in BatteryAmounts, mod \in {0, 1}, gasReserve \in GasReserves :
                 BurnBatch(delta, recipient, cap, battery, mod, gasReserve)
  <2>1. PICK delta \in Deltas, recipient \in Recipients, cap \in FeeCaps,
             battery \in BatteryAmounts, mod \in {0, 1}, gasReserve \in GasReserves :
                BurnBatch(delta, recipient, cap, battery, mod, gasReserve)
    BY <1>1
  <2>2. PICK fee \in CircleFees(delta - gasReserve) :
           burns' = Append(burns, BurnMessage(Router, delta - gasReserve, fee, recipient,
                                              cap, battery, mod))
    BY <2>1 DEF BurnBatch
  <2>3. ValidRecipient(recipient)
    BY <2>1 DEF BurnBatch
  <2>4. BurnMessage(Router, delta - gasReserve, fee, recipient, cap, battery, mod) \in Message
    BY <2>2 DEF BurnMessage, Message, CircleFees, BurnsTyped
  <2>5. burns' \in Seq(Message)
    BY <2>2, <2>4 DEF BurnsTyped
  <2>6. \A i \in DOMAIN burns' : burns'[i].sender = Router => ValidRecipient(burns'[i].recipient)
    BY <2>2, <2>3, <2>4 DEF BurnsTyped, BurnMessage
  <2> QED BY <2>5, <2>6 DEF BurnsTyped
<1>2. CASE \E amount \in Deltas, recipient \in Recipients : BurnDirectly(amount, recipient)
  <2>1. PICK amount \in Deltas, recipient \in Recipients : BurnDirectly(amount, recipient)
    BY <1>2
  <2>2. burns' = Append(burns, BurnMessage(Stranger, amount, 0, recipient, 0, 0, 0))
    BY <2>1 DEF BurnDirectly
  <2>3. BurnMessage(Stranger, amount, 0, recipient, 0, 0, 0) \in Message
    BY DEF BurnMessage, Message, BurnsTyped
  <2>4. burns' \in Seq(Message)
    BY <2>2, <2>3 DEF BurnsTyped
  <2>5. \A i \in DOMAIN burns' : burns'[i].sender = Router => ValidRecipient(burns'[i].recipient)
    BY <2>2, <2>3, StrangerIsNotRouter DEF BurnsTyped, BurnMessage
  <2> QED BY <2>4, <2>5 DEF BurnsTyped
<1> QED BY <1>1, <1>2 DEF RouterStep

\* A claim writes both guards and the passport, or none of them.
LEMMA ClaimKeepsGuards ==
    ASSUME BurnsTyped, GuardsAgree, ClaimStep
    PROVE  GuardsAgree'
<1>1. PICK m \in Range(burns), relayer \in Relayers :
         \E relayFee \in 0..m.relayFeeCap : ClaimMessage(m, relayer, relayFee)
  BY DEF ClaimStep
<1>2. PICK relayFee \in 0..m.relayFeeCap : ClaimMessage(m, relayer, relayFee)
  BY <1>1
<1>3. m \in Message
  BY DEF Range, BurnsTyped
<1>4. relayFee \in Nat
  BY <1>2, <1>3 DEF Message
<1> DEFINE Proofs == {MigrationProof(x, fee) : x \in Message, fee \in Nat}
<1>5. MigrationProof(m, relayFee) \in Proofs
  BY <1>3, <1>4
<1>6. /\ received' = received \cup {m}
      /\ claimed' = claimed \cup {m}
      /\ proofs' = Append(proofs, MigrationProof(m, relayFee))
  BY <1>2 DEF ClaimMessage, Passport
<1>7. proofs \in Seq(Proofs)
  BY DEF GuardsAgree
<1> HIDE DEF Proofs
<1>8. proofs' \in Seq(Proofs)
  BY <1>5, <1>6, <1>7
<1>9. Claimed' = Claimed \cup {m}
  <2>1. MigrationProof(m, relayFee).message = m
    BY DEF MigrationProof
  <2>2. /\ DOMAIN proofs' = 1..(Len(proofs) + 1)
        /\ proofs'[Len(proofs) + 1] = MigrationProof(m, relayFee)
        /\ \A i \in 1..Len(proofs) : proofs'[i] = proofs[i]
    BY <1>5, <1>6, <1>7
  <2>3. Len(proofs) \in Nat /\ DOMAIN proofs = 1..Len(proofs)
    BY <1>7
  <2> QED BY <2>1, <2>2, <2>3 DEF Claimed
<1> QED BY <1>6, <1>8, <1>9 DEF GuardsAgree, Proofs

\* A forwarded request joins the list with a nonce that was free until then.
LEMMA ForwardKeepsNonces ==
    ASSUME NoncesSpent, NEW r \in Requests, Forward(r)
    PROVE  NoncesSpent'
<1>1. /\ forwards' = Append(forwards, r)
      /\ used' = used \cup {<<r.owner, r.nonce>>}
      /\ <<r.owner, r.nonce>> \notin used
  BY DEF Forward, Charge, ForwardAccepts, FreshNonce
<1>2. forwards \in Seq(Requests)
  BY DEF NoncesSpent
<1>3. forwards' \in Seq(Requests)
  BY <1>1, <1>2
<1>4. /\ Len(forwards) \in Nat /\ DOMAIN forwards = 1..Len(forwards)
      /\ DOMAIN forwards' = 1..(Len(forwards) + 1)
      /\ forwards'[Len(forwards) + 1] = r
      /\ \A i \in 1..Len(forwards) : forwards'[i] = forwards[i]
  BY <1>1, <1>2
<1>5. \A i \in DOMAIN forwards' : <<forwards'[i].owner, forwards'[i].nonce>> \in used'
  BY <1>1, <1>4 DEF NoncesSpent
<1>6. ForwardedOnce'
  BY <1>1, <1>4 DEF NoncesSpent, ForwardedOnce
<1> QED BY <1>3, <1>5, <1>6 DEF NoncesSpent

-----------------------------------------------------------------------------

\* The inductive invariant, from the first state on.
LEMMA InitHolds == Init => BurnsTyped /\ GuardsAgree /\ NoncesSpent
<1> SUFFICES ASSUME Init PROVE BurnsTyped /\ GuardsAgree /\ NoncesSpent
  OBVIOUS
<1>1. BurnsTyped
  BY DEF Init, BurnsTyped
<1>2. GuardsAgree
  BY DEF Init, GuardsAgree, Claimed
<1>3. NoncesSpent
  BY DEF Init, NoncesSpent, ForwardedOnce
<1> QED BY <1>1, <1>2, <1>3

\* The battery's own calls spend no nonce and the ticket's know none.
LEMMA MoneyStepsKeepGate2Vars == BatteryStep \/ TicketStep => UNCHANGED gate2Vars
BY DEF BatteryStep, TicketStep, Deposit, Withdraw, RedeemToBattery, batteryVars,
       claimVars, gate2Vars

\* Every step keeps the inductive invariant.
LEMMA StepHolds ==
    ASSUME BurnsTyped, GuardsAgree, NoncesSpent, [Next]_vars
    PROVE  BurnsTyped' /\ GuardsAgree' /\ NoncesSpent'
<1>0. ASSUME UNCHANGED gate2Vars
      PROVE  BurnsTyped' /\ GuardsAgree' /\ NoncesSpent'
  BY <1>0 DEF gate2Vars, BurnsTyped, GuardsAgree, Claimed, NoncesSpent, ForwardedOnce
<1>1. ASSUME RouterStep,
             UNCHANGED <<usdcVars, batteryVars, ticketVars, claimVars, forwards>>
      PROVE  BurnsTyped' /\ GuardsAgree' /\ NoncesSpent'
  <2>1. BurnsTyped'
    BY <1>1, RouterKeepsBurnsTyped
  <2>2. GuardsAgree'
    BY <1>1 DEF GuardsAgree, Claimed, claimVars
  <2>3. NoncesSpent'
    BY <1>1 DEF NoncesSpent, ForwardedOnce, batteryVars
  <2> QED BY <2>1, <2>2, <2>3
<1>2. ASSUME ClaimStep
      PROVE  BurnsTyped' /\ GuardsAgree' /\ NoncesSpent'
  <2>1. BurnsTyped'
    BY <1>2 DEF ClaimStep, BurnsTyped
  <2>2. GuardsAgree'
    BY <1>2, ClaimKeepsGuards
  <2>3. UNCHANGED <<forwards, used>>
    BY <1>2 DEF ClaimStep, ClaimMessage, Passport
  <2>4. NoncesSpent'
    BY <2>3 DEF NoncesSpent, ForwardedOnce
  <2> QED BY <2>1, <2>2, <2>4
<1>3. ASSUME NEW r \in Requests, Forward(r)
      PROVE  BurnsTyped' /\ GuardsAgree' /\ NoncesSpent'
  <2>1. UNCHANGED <<claimVars, burns>>
    BY <1>3 DEF Forward
  <2>2. BurnsTyped' /\ GuardsAgree'
    BY <2>1 DEF BurnsTyped, GuardsAgree, Claimed, claimVars
  <2>3. NoncesSpent'
    BY <1>3, ForwardKeepsNonces
  <2> QED BY <2>2, <2>3
<1>4. ASSUME BatteryStep \/ TicketStep
      PROVE  BurnsTyped' /\ GuardsAgree' /\ NoncesSpent'
  BY <1>0, <1>4, MoneyStepsKeepGate2Vars
<1>5. ASSUME UNCHANGED <<batteryVars, ticketVars, claimVars, burns, forwards>>
      PROVE  BurnsTyped' /\ GuardsAgree' /\ NoncesSpent'
  BY <1>0, <1>5 DEF gate2Vars, batteryVars, claimVars
<1>6. ASSUME UNCHANGED <<usdcVars, bal, used, ticketVars, claimVars, burns, forwards>>
      PROVE  BurnsTyped' /\ GuardsAgree' /\ NoncesSpent'
  BY <1>0, <1>6 DEF gate2Vars, claimVars
<1>7. ASSUME UNCHANGED vars
      PROVE  BurnsTyped' /\ GuardsAgree' /\ NoncesSpent'
  BY <1>0, <1>7 DEF vars, gate2Vars, batteryVars, claimVars
<1> QED BY <1>1, <1>2, <1>3, <1>4, <1>5, <1>6, <1>7 DEF Next

\* What the guards name in common keeps every other message claimable.
LEMMA GuardsLeaveTheRestOpen ==
    ASSUME BurnsTyped, GuardsAgree
    PROVE  ClaimsStayOpen
<1> SUFFICES ASSUME NEW m \in Range(burns),
                    m.sender = Router,
                    m.recipient.class # "M",
                    m.amount - m.feeExecuted > m.batteryAmount,
                    Open(m),
                    \A i \in DOMAIN proofs : proofs[i].message # m
             PROVE  ClaimAccepts(m, m.recipient.address, 0)
  BY DEF ClaimsStayOpen
<1>1. m \in Message /\ ValidRecipient(m.recipient)
  BY DEF Range, BurnsTyped
<1>2. Verified(m)
  BY <1>1, BoundToRouter DEF Verified, Message
<1>3. HookParses(m)
  BY <1>1 DEF HookParses, ValidRecipient, Classes
<1>4. FeeWithinCeilings(m, 0)
  BY <1>1, MaxRelayFeeNatural DEF FeeWithinCeilings, In7, Message
<1>5. ~MessageAlreadyClaimed(m) /\ m \notin received
  BY DEF GuardsAgree, Claimed, MessageAlreadyClaimed
<1>6. m.amount \in Int /\ m.feeExecuted \in Nat /\ m.batteryAmount \in Nat
  BY <1>1 DEF Message
<1>7. Minted(m) > 0 /\ In7(0) + In7(m.batteryAmount) < Minted(m)
  BY <1>6 DEF Minted, In7
<1>8. CanHold(Destination(m))
  BY VaultIsAContract DEF Open, CanHold, Destination
<1> QED BY <1>2, <1>3, <1>4, <1>5, <1>7, <1>8 DEF ClaimAccepts

\* ClaimsStayOpen: whatever claims, tickets, batteries, requests and trustlines
\* do, a burn that arrives with more than its battery share, for a recipient the
\* claim reads, can be claimed by anybody until it is.
THEOREM ClaimableStaysClaimable == Spec => []ClaimsStayOpen
<1>1. Init => BurnsTyped /\ GuardsAgree /\ NoncesSpent
  BY InitHolds
<1>2. BurnsTyped /\ GuardsAgree /\ NoncesSpent /\ [Next]_vars
        => (BurnsTyped /\ GuardsAgree /\ NoncesSpent)'
  BY StepHolds
<1>3. BurnsTyped /\ GuardsAgree /\ NoncesSpent => ClaimsStayOpen
  BY GuardsLeaveTheRestOpen
<1> QED BY <1>1, <1>2, <1>3, PTL DEF Spec

\* ForwardedOnce: of the requests an owner signs under one nonce, at most one
\* ever moves money, however often and in whatever order they are submitted.
THEOREM NonceIsSpentOnce == Spec => []ForwardedOnce
<1>1. Init => BurnsTyped /\ GuardsAgree /\ NoncesSpent
  BY InitHolds
<1>2. BurnsTyped /\ GuardsAgree /\ NoncesSpent /\ [Next]_vars
        => (BurnsTyped /\ GuardsAgree /\ NoncesSpent)'
  BY StepHolds
<1>3. NoncesSpent => ForwardedOnce
  BY DEF NoncesSpent
<1> QED BY <1>1, <1>2, <1>3, PTL DEF Spec

-----------------------------------------------------------------------------
(* The owner lists.                                                        *)

\* The loop of burn_internal and transfer drops one id and keeps the others
\* once each.
LEMMA WithoutDrops ==
    ASSUME NEW D, NEW ids \in Seq(D), NEW id
    PROVE  /\ Without(ids, id) \in Seq(D)
           /\ Range(Without(ids, id)) = Range(ids) \ {id}
           /\ IsInjective(ids) => IsInjective(Without(ids, id))
<1> DEFINE Kept(k, m) ==
        k = [n \in 0..m |-> IF n = 0 THEN << >>
                            ELSE IF ids[n] = id THEN k[n - 1]
                            ELSE Append(k[n - 1], ids[n])]
<1>1. Without(ids, id) = (CHOOSE k : Kept(k, Len(ids)))[Len(ids)]
  BY DEF Without
<1>2. \A m \in 0..Len(ids) : \E k : Kept(k, m)
  <2> SUFFICES ASSUME NEW m0 \in 0..Len(ids), ~ \E k : Kept(k, m0) PROVE FALSE
    OBVIOUS
  <2> DEFINE T == {m \in 0..Len(ids) : ~ \E k : Kept(k, m)}
  <2>1. PICK m \in T : \A y \in T : ~(y < m)
    <3>1. m0 \in T /\ T \subseteq Nat
      OBVIOUS
    <3> HIDE DEF T
    <3> QED BY <3>1, SmallestNat
  <2>2. m \in 0..Len(ids) /\ ~ \E k : Kept(k, m)
    BY <2>1
  <2>3. m # 0
    <3>1. Kept([n \in 0..0 |-> << >>], 0)
      OBVIOUS
    <3> QED BY <2>2, <3>1
  <2>4. PICK h : Kept(h, m - 1)
    <3>1. m - 1 \in 0..Len(ids) /\ m - 1 < m
      BY <2>2, <2>3
    <3>2. m - 1 \notin T
      BY <2>1, <3>1
    <3> HIDE DEF Kept
    <3> QED BY <3>1, <3>2
  <2> DEFINE new == IF ids[m] = id THEN h[m - 1] ELSE Append(h[m - 1], ids[m])
             k == [n \in 0..m |-> IF n = m THEN new ELSE h[n]]
  <2>5. Kept(k, m)
    <3>1. \A n \in 0..m : k[n] = IF n = 0 THEN << >>
                                 ELSE IF ids[n] = id THEN k[n - 1]
                                 ELSE Append(k[n - 1], ids[n])
      <4> SUFFICES ASSUME NEW n \in 0..m
                   PROVE  k[n] = IF n = 0 THEN << >>
                                 ELSE IF ids[n] = id THEN k[n - 1]
                                 ELSE Append(k[n - 1], ids[n])
        OBVIOUS
      <4>1. CASE n = m
        <5>1. k[n - 1] = h[m - 1] /\ k[n] = new
          BY <2>2, <2>3, <4>1
        <5> HIDE DEF k
        <5> QED BY <2>3, <4>1, <5>1
      <4>2. CASE n # m /\ n # 0
        <5>1. n \in 0..(m - 1) /\ n - 1 \in 0..(m - 1)
          BY <2>2, <4>2
        <5>2. k[n] = h[n] /\ k[n - 1] = h[n - 1]
          BY <2>2, <4>2, <5>1
        <5> HIDE DEF k
        <5> QED BY <2>4, <4>2, <5>1, <5>2
      <4>3. CASE n = 0 /\ n # m
        <5>1. n \in 0..(m - 1)
          BY <2>2, <4>3
        <5>2. k[n] = h[n]
          BY <4>3
        <5> HIDE DEF k
        <5> QED BY <2>4, <4>3, <5>1, <5>2
      <4> QED BY <4>1, <4>2, <4>3
    <3>2. k = [n \in 0..m |-> k[n]]
      OBVIOUS
    <3> HIDE DEF k
    <3> QED BY <3>1, <3>2
  <2> QED BY <2>2, <2>5
<1> DEFINE c == CHOOSE k : Kept(k, Len(ids))
<1>3. Kept(c, Len(ids))
  <2>1. \E k : Kept(k, Len(ids))
    BY <1>2
  <2> HIDE DEF Kept
  <2> QED BY <2>1
<1>4. Without(ids, id) = c[Len(ids)]
  BY <1>1
<1> HIDE DEF c
<1> DEFINE Good(n) ==
        /\ c[n] \in Seq(D)
        /\ Range(c[n]) = {ids[i] : i \in 1..n} \ {id}
        /\ IsInjective(ids) => IsInjective(c[n])
<1>5. \A n \in 0..Len(ids) : Good(n)
  <2> SUFFICES ASSUME NEW n0 \in 0..Len(ids), ~Good(n0) PROVE FALSE
    OBVIOUS
  <2> DEFINE T == {n \in 0..Len(ids) : ~Good(n)}
  <2>1. PICK n \in T : \A y \in T : ~(y < n)
    <3>1. n0 \in T /\ T \subseteq Nat
      OBVIOUS
    <3> HIDE DEF T
    <3> QED BY <3>1, SmallestNat
  <2>2. n \in 0..Len(ids) /\ ~Good(n)
    BY <2>1
  <2>3. c[n] = IF n = 0 THEN << >> ELSE IF ids[n] = id THEN c[n - 1]
               ELSE Append(c[n - 1], ids[n])
    BY <1>3, <2>2
  <2>4. CASE n = 0
    <3>1. c[n] = << >>
      BY <2>3, <2>4
    <3>2. Good(n)
      BY <2>4, <3>1 DEF Range, IsInjective
    <3> QED BY <2>2, <3>2
  <2>5. CASE n # 0
    <3>1. n - 1 \in 0..Len(ids) /\ n - 1 < n
      BY <2>2, <2>5
    <3>2. Good(n - 1)
      BY <2>1, <3>1
    <3>3. {ids[i] : i \in 1..n} = {ids[i] : i \in 1..(n - 1)} \cup {ids[n]}
      BY <2>2, <2>5
    <3>4. ids[n] \in D
      BY <2>2, <2>5
    <3>5. CASE ids[n] = id
      BY <2>2, <2>3, <2>5, <3>2, <3>3, <3>5
    <3>6. CASE ids[n] # id
      <4> DEFINE s == c[n - 1]
      <4>1. c[n] = Append(s, ids[n]) /\ s \in Seq(D)
        BY <2>3, <2>5, <3>2, <3>6
      <4> HIDE DEF s
      <4>2. /\ DOMAIN c[n] = 1..(Len(s) + 1) /\ c[n][Len(s) + 1] = ids[n]
            /\ Len(s) \in Nat /\ DOMAIN s = 1..Len(s)
            /\ \A i \in 1..Len(s) : c[n][i] = s[i]
        BY <4>1, <3>4
      <4>3. Range(c[n]) = Range(s) \cup {ids[n]}
        BY <4>2 DEF Range
      <4>4. Range(c[n]) = {ids[i] : i \in 1..n} \ {id}
        BY <3>2, <3>3, <3>6, <4>3 DEF s
      <4>5. ASSUME IsInjective(ids) PROVE IsInjective(c[n])
        <5>1. ids[n] \notin Range(s)
          <6>1. ids[n] \notin {ids[i] : i \in 1..(n - 1)}
            BY <2>2, <2>5, <4>5 DEF IsInjective
          <6> QED BY <3>2, <6>1 DEF s
        <5>2. IsInjective(s)
          BY <3>2, <4>5 DEF s
        <5> QED BY <4>2, <5>1, <5>2 DEF IsInjective, Range
      <4>6. c[n] \in Seq(D)
        BY <4>1, <3>4
      <4> QED BY <2>2, <4>4, <4>5, <4>6
    <3> QED BY <3>5, <3>6
  <2> QED BY <2>4, <2>5
<1>6. Good(Len(ids))
  <2>1. Len(ids) \in 0..Len(ids)
    OBVIOUS
  <2> HIDE DEF Good
  <2> QED BY <1>5, <2>1
<1>7. Range(ids) = {ids[i] : i \in 1..Len(ids)}
  BY DEF Range
<1> QED BY <1>4, <1>6, <1>7

-----------------------------------------------------------------------------
(* The tickets.                                                            *)

TicketsTyped ==
    /\ nextId \in Nat
    /\ Live \subseteq 0..(nextId - 1)
    /\ \A id \in Live : tickets[id].amount \in Nat
    /\ DOMAIN ownerOf = Live
    /\ \A id \in Live : ownerOf[id] \in Addresses

\* The ticket contract's own books: the running total, the owners and the lists.
TicketBooks ==
    /\ TicketsTyped
    /\ liveTotal = SumOf(Worth, Live)
    /\ index \in [Addresses -> Seq(Nat)]
    /\ IndexNamesOwners

\* There are finitely many live tickets, each worth no more than all together.
LEMMA LiveIsFinite ==
    ASSUME TicketsTyped
    PROVE  /\ IsFiniteSet(Live)
           /\ \A id \in Live : Worth[id] \in Nat
           /\ \A id \in Live : Worth[id] <= SumOf(Worth, Live)
           /\ SumOf(Worth, Live) \in Nat
<1>1. IsFiniteSet(Live)
  <2>1. nextId - 1 \in Int /\ Live \subseteq 0..(nextId - 1)
    BY DEF TicketsTyped
  <2>2. IsFiniteSet(0..(nextId - 1))
    BY <2>1, FS_Interval
  <2> QED BY <2>1, <2>2, FS_Subset
<1>2. \A id \in Live : Worth[id] \in Nat
  BY DEF TicketsTyped, Worth
<1>3. \A id \in Live : Worth[id] <= SumOf(Worth, Live)
  BY <1>1, <1>2, SumBounds
<1>4. SumOf(Worth, Live) \in Nat
  BY <1>1, <1>2, SumNat
<1> QED BY <1>1, <1>2, <1>3, <1>4

\* A new id at the end of one list, and the ticket stored under it.
LEMMA AppendedIsListed ==
    ASSUME NEW ids \in Seq(Nat), IsInjective(ids), NEW id \in Nat, id \notin Range(ids)
    PROVE  /\ Append(ids, id) \in Seq(Nat)
           /\ Range(Append(ids, id)) = Range(ids) \cup {id}
           /\ IsInjective(Append(ids, id))
<1> DEFINE more == Append(ids, id)
<1>1. /\ more \in Seq(Nat) /\ Len(ids) \in Nat /\ DOMAIN ids = 1..Len(ids)
      /\ DOMAIN more = 1..(Len(ids) + 1) /\ more[Len(ids) + 1] = id
      /\ \A i \in 1..Len(ids) : more[i] = ids[i]
  OBVIOUS
<1> HIDE DEF more
<1>2. Range(more) = Range(ids) \cup {id}
  BY <1>1, SMTT(30) DEF Range
<1>3. IsInjective(more)
  BY <1>1, SMTT(30) DEF Range, IsInjective
<1> QED BY <1>1, <1>2, <1>3 DEF more

\* mint_ticket keeps the ticket books and adds the new right to the total.
LEMMA MintKeepsBooks ==
    ASSUME TicketBooks, NEW to \in Addresses, NEW amount \in Nat, NEW origin,
           MintTicket(to, amount, origin)
    PROVE  TicketBooks' /\ liveTotal' = liveTotal + amount
<1>1. TicketsTyped
  BY DEF TicketBooks
<1>2. nextId \in Nat /\ nextId \notin Live
  BY <1>1 DEF TicketsTyped
<1>3. Range(NewIds(<<amount>>)) = {nextId}
  BY <1>2 DEF NewIds, Range
<1>4. tickets' = [id \in Live \cup {nextId} |->
                     IF id \in Live THEN tickets[id] ELSE [amount |-> amount, origin |-> origin]]
  <2>1. tickets' = [id \in Live \cup {nextId} |->
                     IF id \in Live THEN tickets[id]
                     ELSE [amount |-> <<amount>>[id - nextId + 1], origin |-> origin]]
    BY <1>3 DEF MintTicket, Stored
  <2>2. nextId - nextId + 1 = 1 /\ <<amount>>[1] = amount
    BY <1>2
  <2> QED BY <2>1, <2>2
<1>5. ownerOf' = [id \in Live \cup {nextId} |-> IF id \in Live THEN ownerOf[id] ELSE to]
  BY <1>3 DEF MintTicket, StoredOwner
<1>6. Live' = Live \cup {nextId}
  BY <1>4 DEF Live
<1>7. TicketsTyped'
  BY <1>1, <1>2, <1>4, <1>5, <1>6 DEF MintTicket, TicketsTyped
<1>8. SumOf(Worth, Live)' = SumOf(Worth, Live) + amount
  <2>1. IsFiniteSet(Live) /\ \A id \in Live : Worth[id] \in Nat
    BY <1>1, LiveIsFinite
  <2>2. \A id \in Live : Worth'[id] = Worth[id]
    BY <1>4, <1>6 DEF Worth
  <2>3. Worth'[nextId] = amount
    BY <1>2, <1>4, <1>6 DEF Worth
  <2>4. SumOf(Worth', Live) = SumOf(Worth, Live)
    BY <2>1, <2>2, SumSame
  <2> DEFINE w == Worth'  l == Live
  <2> HIDE DEF w, l
  <2>5. SumOf(w, l \cup {nextId}) = SumOf(w, l) + w[nextId]
    BY <1>2, <2>1, <2>2, <2>3, SumAdd DEF w, l
  <2> QED BY <1>6, <2>3, <2>4, <2>5 DEF w, l
<1>9. liveTotal' = liveTotal + amount
  BY DEF MintTicket
<1>10. index' = [index EXCEPT ![to] = Append(@, nextId)] /\ index \in [Addresses -> Seq(Nat)]
  BY DEF MintTicket, TicketBooks
<1>11. \A a \in Addresses : Range(index[a]) = {id \in Live : ownerOf[id] = a} /\ IsInjective(index[a])
  BY DEF TicketBooks, IndexNamesOwners
<1>12. /\ Append(index[to], nextId) \in Seq(Nat)
       /\ Range(Append(index[to], nextId)) = Range(index[to]) \cup {nextId}
       /\ IsInjective(Append(index[to], nextId))
  BY <1>2, <1>10, <1>11, AppendedIsListed
<1>13. IndexNamesOwners'
  <2> SUFFICES ASSUME NEW a \in Addresses
               PROVE  /\ Range(index'[a]) = {id \in Live' : ownerOf'[id] = a}
                      /\ IsInjective(index'[a])
    BY DEF IndexNamesOwners
  <2>1. CASE a = to
    BY <1>2, <1>5, <1>6, <1>10, <1>11, <1>12, <2>1
  <2>2. CASE a # to
    BY <1>2, <1>5, <1>6, <1>10, <1>11, <2>2
  <2> QED BY <2>1, <2>2
<1>14. index' \in [Addresses -> Seq(Nat)]
  BY <1>10, <1>12
<1> QED BY <1>7, <1>8, <1>9, <1>13, <1>14 DEF TicketBooks

\* burn_internal keeps the ticket books and takes one right off the total.
LEMMA BurnKeepsBooks ==
    ASSUME TicketBooks, NEW id \in Live, BurnTicket(id)
    PROVE  /\ TicketBooks'
           /\ liveTotal' = liveTotal - tickets[id].amount
           /\ tickets[id].amount \in Nat /\ tickets[id].amount <= liveTotal
<1>1. TicketsTyped
  BY DEF TicketBooks
<1>2. /\ tickets' = [i \in Live \ {id} |-> tickets[i]]
      /\ ownerOf' = [i \in Live \ {id} |-> ownerOf[i]]
      /\ liveTotal' = liveTotal - tickets[id].amount /\ nextId' = nextId
      /\ index' = [index EXCEPT ![ownerOf[id]] = Without(@, id)]
  BY DEF BurnTicket, Restrict
<1>3. Live' = Live \ {id}
  BY <1>2 DEF Live
<1>4. TicketsTyped'
  BY <1>1, <1>2, <1>3 DEF TicketsTyped
<1>5. /\ IsFiniteSet(Live) /\ \A i \in Live : Worth[i] \in Nat
      /\ Worth[id] <= SumOf(Worth, Live) /\ Worth[id] = tickets[id].amount
      /\ SumOf(Worth, Live) \in Nat
  BY <1>1, LiveIsFinite DEF Worth
<1>6. SumOf(Worth, Live)' = liveTotal - tickets[id].amount
  <2>1. IsFiniteSet(Live \ {id})
    BY <1>5, FS_Subset
  <2>2. \A i \in Live \ {id} : Worth'[i] = Worth[i]
    BY <1>2, <1>3 DEF Worth
  <2>3. SumOf(Worth', Live \ {id}) = SumOf(Worth, Live \ {id})
    BY <2>1, <2>2, SumSame
  <2>4. SumOf(Worth, Live) = Worth[id] + SumOf(Worth, Live \ {id})
    BY <1>5, SumRemove
  <2>5. SumOf(Worth, Live \ {id}) \in Nat
    BY <1>5, <2>1, SumNat
  <2> QED BY <1>3, <1>5, <2>3, <2>4, <2>5 DEF TicketBooks
<1>7. ownerOf[id] \in Addresses
  BY <1>1 DEF TicketsTyped
<1>8. index \in [Addresses -> Seq(Nat)]
  BY DEF TicketBooks
<1>9. \A a \in Addresses : Range(index[a]) = {i \in Live : ownerOf[i] = a} /\ IsInjective(index[a])
  BY DEF TicketBooks, IndexNamesOwners
<1> DEFINE left == Without(index[ownerOf[id]], id)
<1>10. left \in Seq(Nat) /\ Range(left) = Range(index[ownerOf[id]]) \ {id} /\ IsInjective(left)
  <2>1. index[ownerOf[id]] \in Seq(Nat) /\ IsInjective(index[ownerOf[id]])
    BY <1>7, <1>8, <1>9
  <2> QED BY <2>1, WithoutDrops
<1>11. index'[ownerOf[id]] = left /\ \A a \in Addresses \ {ownerOf[id]} : index'[a] = index[a]
  BY <1>2, <1>7, <1>8
<1>12. index' \in [Addresses -> Seq(Nat)]
  BY <1>2, <1>8, <1>10
<1> HIDE DEF left
<1>13. IndexNamesOwners'
  <2> SUFFICES ASSUME NEW a \in Addresses
               PROVE  /\ Range(index'[a]) = {i \in Live' : ownerOf'[i] = a}
                      /\ IsInjective(index'[a])
    BY DEF IndexNamesOwners
  <2>1. CASE a = ownerOf[id]
    BY <1>2, <1>3, <1>7, <1>9, <1>10, <1>11, <2>1
  <2>2. CASE a # ownerOf[id]
    BY <1>2, <1>3, <1>9, <1>11, <2>2
  <2> QED BY <2>1, <2>2
<1>14. liveTotal = SumOf(Worth, Live)
  BY DEF TicketBooks
<1> QED BY <1>2, <1>4, <1>5, <1>6, <1>12, <1>13, <1>14 DEF TicketBooks

\* transfer moves a right from one list to another and no money, also when the
\* holder gives it to themself.
LEMMA TransferKeepsBooks ==
    ASSUME TicketBooks, NEW from \in Addresses, NEW to \in Addresses, NEW id,
           TransferTicket(from, to, id)
    PROVE  TicketBooks' /\ liveTotal' = liveTotal
<1>1. TicketsTyped
  BY DEF TicketBooks
<1>2. /\ id \in Live /\ ownerOf[id] = from
      /\ ownerOf' = [ownerOf EXCEPT ![id] = to]
      /\ tickets' = tickets /\ nextId' = nextId /\ liveTotal' = liveTotal
  BY DEF TransferTicket
<1> DEFINE left == Without(index[from], id)
           taken == [index EXCEPT ![from] = left]
           moved == [taken EXCEPT ![to] = Append(@, id)]
<1>3. index' = moved
  BY DEF TransferTicket, IndexMoved
<1>4. Live' = Live
  BY <1>2 DEF Live
<1>5. TicketsTyped'
  BY <1>1, <1>2, <1>4 DEF TicketsTyped
<1>6. SumOf(Worth, Live)' = SumOf(Worth, Live) /\ liveTotal = SumOf(Worth, Live)
  <2>1. Worth' = Worth
    BY <1>2, <1>4 DEF Worth
  <2> QED BY <1>4, <2>1 DEF TicketBooks
<1>7. index \in [Addresses -> Seq(Nat)]
  BY DEF TicketBooks
<1>8. \A a \in Addresses : Range(index[a]) = {i \in Live : ownerOf[i] = a} /\ IsInjective(index[a])
  BY DEF TicketBooks, IndexNamesOwners
<1>9. left \in Seq(Nat) /\ Range(left) = Range(index[from]) \ {id} /\ IsInjective(left)
  BY <1>7, <1>8, WithoutDrops
<1> HIDE DEF left
<1>10. /\ taken \in [Addresses -> Seq(Nat)]
       /\ \A a \in Addresses : /\ Range(taken[a]) = {i \in Live \ {id} : ownerOf[i] = a}
                               /\ IsInjective(taken[a])
  <2>1. taken \in [Addresses -> Seq(Nat)]
    BY <1>7, <1>9
  <2>2. ASSUME NEW a \in Addresses
        PROVE  Range(taken[a]) = {i \in Live \ {id} : ownerOf[i] = a} /\ IsInjective(taken[a])
    <3>1. CASE a = from
      BY <1>2, <1>7, <1>8, <1>9, <3>1
    <3>2. CASE a # from
      BY <1>2, <1>7, <1>8, <3>2
    <3> QED BY <3>1, <3>2
  <2> QED BY <2>1, <2>2
<1> HIDE DEF taken
<1>11. /\ Append(taken[to], id) \in Seq(Nat)
       /\ Range(Append(taken[to], id)) = Range(taken[to]) \cup {id}
       /\ IsInjective(Append(taken[to], id))
  <2>1. id \in Nat
    BY <1>1, <1>2 DEF TicketsTyped
  <2>2. taken[to] \in Seq(Nat) /\ IsInjective(taken[to]) /\ id \notin Range(taken[to])
    BY <1>10
  <2> QED BY <2>1, <2>2, AppendedIsListed
<1>12. index' \in [Addresses -> Seq(Nat)]
  BY <1>3, <1>10, <1>11
<1>13. index'[to] = Append(taken[to], id) /\ \A a \in Addresses \ {to} : index'[a] = taken[a]
  BY <1>3, <1>10
<1>14. ownerOf'[id] = to /\ \A i \in Live \ {id} : ownerOf'[i] = ownerOf[i]
  BY <1>1, <1>2 DEF TicketsTyped
<1>15. IndexNamesOwners'
  <2> SUFFICES ASSUME NEW a \in Addresses
               PROVE  /\ Range(index'[a]) = {i \in Live' : ownerOf'[i] = a}
                      /\ IsInjective(index'[a])
    BY DEF IndexNamesOwners
  <2>1. CASE a = to
    BY <1>2, <1>4, <1>10, <1>11, <1>13, <1>14, <2>1, ZenonT(30)
  <2>2. CASE a # to
    BY <1>2, <1>4, <1>10, <1>13, <1>14, <2>2
  <2> QED BY <2>1, <2>2
<1> QED BY <1>2, <1>5, <1>6, <1>12, <1>15 DEF TicketBooks


\* Two lists without repetitions and with nothing in common, one after the other.
LEMMA Joined ==
    ASSUME NEW s \in Seq(Nat), NEW t \in Seq(Nat), IsInjective(s), IsInjective(t),
           Range(s) \cap Range(t) = {}
    PROVE  /\ s \o t \in Seq(Nat)
           /\ Range(s \o t) = Range(s) \cup Range(t)
           /\ IsInjective(s \o t)
<1> DEFINE all == s \o t
           l == Len(s)
           n == Len(t)
<1>1. l \in Nat /\ n \in Nat /\ DOMAIN s = 1..l /\ DOMAIN t = 1..n
  OBVIOUS
<1>2. all \in Seq(Nat) /\ DOMAIN all = 1..(l + n)
  OBVIOUS
<1>3. \A i \in 1..l : all[i] = s[i]
  OBVIOUS
<1>4. \A i \in 1..n : l + i \in 1..(l + n) /\ all[l + i] = t[i]
  OBVIOUS
<1> HIDE DEF all, l, n
<1>5. \A k \in 1..(l + n) : k \in 1..l \/ \E i \in 1..n : k = l + i
  <2> SUFFICES ASSUME NEW k \in 1..(l + n), ~(k \in 1..l) PROVE \E i \in 1..n : k = l + i
    OBVIOUS
  <2>1. k - l \in 1..n /\ k = l + (k - l)
    BY <1>1
  <2> QED BY <2>1
<1>6. Range(all) = Range(s) \cup Range(t)
  <2>1. \A i \in 1..l : i \in 1..(l + n)
    BY <1>1
  <2>2. Range(s) \subseteq Range(all)
    BY <1>1, <1>2, <1>3, <2>1 DEF Range
  <2>3. Range(t) \subseteq Range(all)
    <3> SUFFICES ASSUME NEW i \in 1..n PROVE t[i] \in Range(all)
      BY <1>1 DEF Range
    <3>1. l + i \in 1..(l + n) /\ all[l + i] = t[i]
      BY <1>4
    <3> QED BY <1>2, <3>1 DEF Range
  <2>4. \A k \in 1..(l + n) : all[k] \in Range(s) \cup Range(t)
    BY <1>1, <1>3, <1>4, <1>5, ZenonT(30) DEF Range
  <2> QED BY <1>2, <2>2, <2>3, <2>4 DEF Range
<1>7. IsInjective(all)
  <2> SUFFICES ASSUME NEW i \in 1..(l + n), NEW j \in 1..(l + n), all[i] = all[j]
               PROVE  i = j
    BY <1>2 DEF IsInjective
  <2>1. \A k \in 1..l : all[k] \in Range(s)
    BY <1>1, <1>3 DEF Range
  <2>2. \A k \in 1..n : all[l + k] \in Range(t)
    BY <1>1, <1>4 DEF Range
  <2>3. CASE i \in 1..l /\ j \in 1..l
    BY <1>1, <1>3, <2>3 DEF IsInjective
  <2>4. CASE \E x \in 1..n, y \in 1..n : i = l + x /\ j = l + y
    <3>1. PICK x \in 1..n, y \in 1..n : i = l + x /\ j = l + y
      BY <2>4
    <3>2. t[x] = t[y]
      BY <1>4, <3>1
    <3>3. x = y
      BY <1>1, <3>2 DEF IsInjective
    <3> QED BY <3>1, <3>3
  <2> QED BY <1>5, <2>1, <2>2, <2>3, <2>4
<1> QED BY <1>2, <1>6, <1>7 DEF all

\* The ids a split takes are fresh and all different.
LEMMA SplitIdsAreNew ==
    ASSUME nextId \in Nat, NEW amounts \in Seq(Int)
    PROVE  /\ NewIds(amounts) \in Seq(Nat)
           /\ Range(NewIds(amounts)) = nextId..(nextId + Len(amounts) - 1)
           /\ IsInjective(NewIds(amounts))
<1> DEFINE new == NewIds(amounts)
           n == Len(amounts)
<1>1. n \in Nat /\ DOMAIN amounts = 1..n
  OBVIOUS
<1>2. new = [i \in 1..n |-> nextId + i - 1]
  BY <1>1 DEF NewIds
<1>3. new \in Seq(Nat)
  BY <1>1, <1>2
<1>4. Range(new) = nextId..(nextId + n - 1)
  <2>1. \A x \in nextId..(nextId + n - 1) : x - nextId + 1 \in 1..n /\ new[x - nextId + 1] = x
    BY <1>1, <1>2
  <2>2. \A i \in 1..n : new[i] \in nextId..(nextId + n - 1)
    BY <1>1, <1>2
  <2>3. DOMAIN new = 1..n
    BY <1>2
  <2> HIDE DEF new, n
  <2> QED BY <2>1, <2>2, <2>3 DEF Range
<1>5. IsInjective(new)
  BY <1>1, <1>2 DEF IsInjective
<1> QED BY <1>3, <1>4, <1>5

\* split keeps the ticket books: the parts take the parent's place in the lists
\* and their worth is its worth, so the total does not move.
LEMMA SplitKeepsBooks ==
    ASSUME TicketBooks, NEW owner \in Addresses, NEW id, NEW amounts \in Seq(Int),
           Split(owner, id, amounts)
    PROVE  TicketBooks' /\ liveTotal' = liveTotal
<1> DEFINE new == NewIds(amounts)
           fresh == Range(new)
           rest == Live \ {id}
<1>1. TicketsTyped /\ liveTotal = SumOf(Worth, Live) /\ index \in [Addresses -> Seq(Nat)]
  BY DEF TicketBooks
<1>2. /\ id \in Live /\ ownerOf[id] = owner
      /\ \A i \in DOMAIN amounts : amounts[i] > 0
      /\ Total(amounts) = tickets[id].amount
      /\ tickets' = Restrict(Stored(amounts, tickets[id].origin), rest \cup fresh)
      /\ ownerOf' = Restrict(StoredOwner(amounts, owner), rest \cup fresh)
      /\ index' = [index EXCEPT ![owner] = Without(@ \o new, id)]
      /\ nextId' = nextId + Len(amounts)
      /\ liveTotal' = liveTotal + Total(amounts) - tickets[id].amount
  BY DEF Split, Splits
<1>3. /\ nextId \in Nat /\ new \in Seq(Nat) /\ IsInjective(new)
      /\ fresh = nextId..(nextId + Len(amounts) - 1)
  BY <1>1, SplitIdsAreNew DEF TicketsTyped
<1>4. \A i \in Live : i \in Nat /\ i \notin fresh
  BY <1>1, <1>3 DEF TicketsTyped
<1>5. Len(amounts) \in Nat /\ DOMAIN amounts = 1..Len(amounts)
  OBVIOUS
<1> HIDE DEF new, fresh
<1>6. /\ DOMAIN tickets' = rest \cup fresh
      /\ \A i \in rest : tickets'[i] = tickets[i]
      /\ \A i \in fresh : tickets'[i].amount = amounts[i - nextId + 1]
  BY <1>2, <1>4 DEF Restrict, Stored, fresh, new
<1>7. /\ DOMAIN ownerOf' = rest \cup fresh
      /\ \A i \in rest : ownerOf'[i] = ownerOf[i]
      /\ \A i \in fresh : ownerOf'[i] = owner
  BY <1>2, <1>4 DEF Restrict, StoredOwner, fresh, new
<1>8. Live' = rest \cup fresh
  BY <1>6 DEF Live
<1>9. \A i \in fresh : i - nextId + 1 \in 1..Len(amounts) /\ amounts[i - nextId + 1] \in Nat
  <2> SUFFICES ASSUME NEW i \in fresh
               PROVE  i - nextId + 1 \in 1..Len(amounts) /\ amounts[i - nextId + 1] \in Nat
    OBVIOUS
  <2>1. i - nextId + 1 \in 1..Len(amounts)
    BY <1>3, <1>5
  <2>2. amounts[i - nextId + 1] \in Int /\ amounts[i - nextId + 1] > 0
    BY <1>2, <1>5, <2>1
  <2> QED BY <2>1, <2>2
<1>10. TicketsTyped'
  <2>1. nextId' \in Nat
    BY <1>2, <1>3, <1>5
  <2>2. Live' \subseteq 0..(nextId' - 1)
    BY <1>1, <1>2, <1>3, <1>5, <1>8 DEF TicketsTyped
  <2>3. \A i \in Live' : tickets'[i].amount \in Nat
    BY <1>1, <1>6, <1>8, <1>9 DEF TicketsTyped
  <2>4. DOMAIN ownerOf' = Live' /\ \A i \in Live' : ownerOf'[i] \in Addresses
    BY <1>1, <1>7, <1>8 DEF TicketsTyped
  <2> QED BY <2>1, <2>2, <2>3, <2>4 DEF TicketsTyped
<1>11. SumOf(Worth, Live)' = SumOf(Worth, Live)
  <2> DEFINE w == Worth'
             at == [i \in 1..Len(amounts) |-> nextId + i - 1]
  <2>1. IsFiniteSet(Live) /\ \A i \in Live : Worth[i] \in Nat
    BY <1>1, LiveIsFinite
  <2>2. IsFiniteSet(rest) /\ IsFiniteSet(1..Len(amounts))
    BY <1>5, <2>1, FS_Subset, FS_Interval
  <2>3. \A i \in rest : w[i] = Worth[i]
    BY <1>6, <1>8 DEF Worth
  <2>4. \A i \in fresh : w[i] = amounts[i - nextId + 1]
    BY <1>6, <1>8 DEF Worth
  <2>5. SumOf(w, rest) = SumOf(Worth, rest) /\ SumOf(Worth, rest) \in Int
    BY <2>1, <2>2, <2>3, SumSame, SumType
  <2> HIDE DEF w
  <2>6. SumOf(w, fresh) = Total(amounts)
    <3>1. \A i \in 1..Len(amounts) : at[i] \in fresh /\ at[i] - nextId + 1 = i
      BY <1>3, <1>5
    <3>2. \A i \in 1..Len(amounts) : amounts[i] \in Int /\ w[at[i]] = amounts[i]
      BY <1>5, <2>4, <3>1
    <3>3. \A i, j \in 1..Len(amounts) : at[i] = at[j] => i = j
      BY <1>3, <1>5
    <3>4. \A x \in fresh : x - nextId + 1 \in 1..Len(amounts) /\ x = at[x - nextId + 1]
      BY <1>3, <1>5
    <3>5. \A x \in fresh : \E i \in 1..Len(amounts) : x = at[i]
      BY <3>4
    <3> HIDE DEF at
    <3> DEFINE places == 1..Len(amounts)
    <3> HIDE DEF places
    <3>6. SumOf(w, fresh) = SumOf(amounts, places)
      <4>1. IsFiniteSet(places)
        BY <2>2 DEF places
      <4>2. \A i \in places : amounts[i] \in Int /\ w[at[i]] = amounts[i]
        BY <3>2 DEF places
      <4>3. \A i, j \in places : at[i] = at[j] => i = j
        BY <3>3 DEF places
      <4>4. \A i \in places : at[i] \in fresh
        BY <3>1 DEF places
      <4>5. \A x \in fresh : \E i \in places : x = at[i]
        BY <3>5 DEF places
      <4> QED BY <4>1, <4>2, <4>3, <4>4, <4>5, SumOnto
    <3>7. DOMAIN amounts = 1..Len(amounts)
      BY <1>5
    <3> QED BY <3>6, <3>7 DEF Total, places
  <2>7. SumOf(w, rest \cup fresh) = SumOf(w, rest) + SumOf(w, fresh)
    <3>1. IsFiniteSet(fresh)
      BY <1>3, <1>5, FS_Interval
    <3>2. rest \cap fresh = {}
      BY <1>4
    <3>3. \A i \in rest \cup fresh : w[i] \in Int
      BY <1>9, <2>1, <2>3, <2>4
    <3> HIDE DEF rest
    <3> QED BY <2>2, <3>1, <3>2, <3>3, SumUnion
  <2>8. SumOf(Worth, Live) = Worth[id] + SumOf(Worth, rest) /\ Worth[id] \in Int
    BY <1>2, <2>1, SumRemove
  <2>9. Worth[id] = Total(amounts)
    BY <1>2 DEF Worth
  <2> DEFINE r == SumOf(Worth, rest)
  <2>10. r + Worth[id] = Worth[id] + r
    BY <2>5, <2>8
  <2>11. SumOf(w, rest \cup fresh) = r + Worth[id]
    BY <2>5, <2>6, <2>7, <2>9
  <2> QED BY <1>8, <2>8, <2>10, <2>11 DEF w
<1>12. liveTotal' = liveTotal
  <2>1. tickets[id].amount \in Nat /\ SumOf(Worth, Live) \in Nat
    BY <1>1, <1>2, LiveIsFinite DEF TicketsTyped
  <2> QED BY <1>1, <1>2, <2>1
<1>13. \A a \in Addresses : Range(index[a]) = {i \in Live : ownerOf[i] = a} /\ IsInjective(index[a])
  BY DEF TicketBooks, IndexNamesOwners
<1> DEFINE all == index[owner] \o new
           left == Without(all, id)
<1>14. all \in Seq(Nat) /\ Range(all) = Range(index[owner]) \cup fresh /\ IsInjective(all)
  <2>1. index[owner] \in Seq(Nat) /\ IsInjective(index[owner])
    BY <1>1, <1>13
  <2>2. Range(index[owner]) \cap fresh = {}
    BY <1>4, <1>13
  <2> QED BY <1>3, <2>1, <2>2, Joined DEF fresh
<1> HIDE DEF all
<1>15. left \in Seq(Nat) /\ Range(left) = Range(all) \ {id} /\ IsInjective(left)
  BY <1>14, WithoutDrops
<1>16. index'[owner] = left /\ \A a \in Addresses \ {owner} : index'[a] = index[a]
  BY <1>1, <1>2 DEF all
<1>17. index' \in [Addresses -> Seq(Nat)]
  BY <1>1, <1>2, <1>15 DEF all
<1> HIDE DEF left
<1>18. IndexNamesOwners'
  <2> SUFFICES ASSUME NEW a \in Addresses
               PROVE  /\ Range(index'[a]) = {i \in Live' : ownerOf'[i] = a}
                      /\ IsInjective(index'[a])
    BY DEF IndexNamesOwners
  <2>1. CASE a = owner
    <3>1. Range(left) = (Range(index[owner]) \cup fresh) \ {id}
      BY <1>14, <1>15
    <3>2. {i \in Live' : ownerOf'[i] = owner} = {i \in rest : ownerOf[i] = owner} \cup fresh
      BY <1>7, <1>8
    <3>3. Range(index[owner]) = {i \in Live : ownerOf[i] = owner}
      BY <1>13
    <3>4. Range(left) = {i \in rest : ownerOf[i] = owner} \cup fresh
      BY <1>2, <1>4, <3>1, <3>3
    <3> QED BY <1>15, <1>16, <2>1, <3>2, <3>4
  <2>2. CASE a # owner
    <3>1. {i \in Live' : ownerOf'[i] = a} = {i \in rest : ownerOf[i] = a}
      BY <1>7, <1>8, <2>2
    <3>2. {i \in rest : ownerOf[i] = a} = {i \in Live : ownerOf[i] = a}
      BY <1>2, <2>2
    <3>3. index'[a] = index[a] /\ Range(index[a]) = {i \in Live : ownerOf[i] = a}
          /\ IsInjective(index[a])
      BY <1>13, <1>16, <2>2
    <3> QED BY <3>1, <3>2, <3>3
  <2> QED BY <2>1, <2>2
<1> QED BY <1>1, <1>10, <1>11, <1>12, <1>17, <1>18 DEF TicketBooks

-----------------------------------------------------------------------------
(* The money.                                                              *)

MoneyTyped == money \in [Addresses -> Nat] /\ bal \in [Addresses -> Nat]

\* What is owed is there: the inductive invariant of OwedIsHeld.
Books ==
    /\ MoneyTyped
    /\ TicketBooks
    /\ money[Vault] >= liveTotal
    /\ money[Battery] >= SumOf(bal, Addresses)

\* A transfer takes from one address what it gives another, both the same or not.
LEMMA SentMoves ==
    ASSUME NEW held \in [Addresses -> Nat], NEW from \in Addresses, NEW to \in Addresses,
           NEW amount \in Nat, held[from] >= amount
    PROVE  /\ Sent(held, from, to, amount) \in [Addresses -> Nat]
           /\ \A a \in Addresses \ {from} : Sent(held, from, to, amount)[a] >= held[a]
           /\ Sent(held, from, to, amount)[from] >= held[from] - amount
           /\ to # from => Sent(held, from, to, amount)[to] = held[to] + amount
<1> DEFINE debited == [held EXCEPT ![from] = held[from] - amount]
           sent == [debited EXCEPT ![to] = debited[to] + amount]
<1>1. held[from] \in Nat /\ held[from] - amount \in Nat
  OBVIOUS
<1>2. /\ debited \in [Addresses -> Nat] /\ debited[from] = held[from] - amount
      /\ \A a \in Addresses \ {from} : debited[a] = held[a]
  BY <1>1
<1> HIDE DEF debited
<1>3. /\ sent \in [Addresses -> Nat] /\ sent[to] = debited[to] + amount
      /\ \A a \in Addresses \ {to} : sent[a] = debited[a]
  BY <1>2
<1>4. Sent(held, from, to, amount) = sent
  BY DEF Sent, debited
<1> HIDE DEF sent
<1>5. \A a \in Addresses : held[a] \in Nat /\ debited[a] \in Nat /\ sent[a] \in Nat
  BY <1>2, <1>3
<1>6. \A a \in Addresses \ {from} : sent[a] >= held[a]
  <2> SUFFICES ASSUME NEW a \in Addresses \ {from} PROVE sent[a] >= held[a]
    OBVIOUS
  <2>1. CASE a = to
    BY <1>2, <1>3, <1>5, <2>1
  <2>2. CASE a # to
    BY <1>2, <1>3, <1>5, <2>2
  <2> QED BY <2>1, <2>2
<1>7. sent[from] >= held[from] - amount
  <2>1. CASE from = to
    BY <1>2, <1>3, <1>5, <2>1
  <2>2. CASE from # to
    BY <1>2, <1>3, <1>5, <2>2
  <2> QED BY <2>1, <2>2
<1>8. to # from => sent[to] = held[to] + amount
  BY <1>2, <1>3
<1> QED BY <1>3, <1>4, <1>6, <1>7, <1>8

\* The contracts are addresses of their own.
LEMMA OwnAddresses ==
    /\ Battery \in Addresses /\ Vault \in Addresses /\ Claim \in Addresses
    /\ Battery # Vault /\ Claim # Battery /\ Claim # Vault
    /\ Battery \notin Accounts /\ Vault \notin Accounts
    /\ Accounts \subseteq Addresses /\ IsFiniteSet(Addresses)
BY BatteryIsAContract, VaultIsAContract, ClaimIsAContract, AddressesDisjoint, Gate2Constants
   DEF Addresses

\* One owner's battery changes, and the sum of all of them as much.
LEMMA BatteryMoves ==
    ASSUME bal \in [Addresses -> Nat], NEW after \in [Addresses -> Nat], NEW owner \in Addresses,
           \A a \in Addresses \ {owner} : after[a] = bal[a]
    PROVE  /\ SumOf(bal, Addresses) \in Nat /\ SumOf(after, Addresses) \in Nat
           /\ SumOf(after, Addresses) = SumOf(bal, Addresses) - bal[owner] + after[owner]
<1>1. IsFiniteSet(Addresses)
  BY OwnAddresses
<1>2. \A a \in Addresses : bal[a] \in Nat /\ after[a] \in Nat
  OBVIOUS
<1>3. SumOf(bal, Addresses) \in Nat /\ SumOf(after, Addresses) \in Nat
  <2>1. \A a \in Addresses : bal[a] \in Nat
    BY <1>2
  <2>2. \A a \in Addresses : after[a] \in Nat
    BY <1>2
  <2> QED BY <1>1, <2>1, <2>2, SumNat
<1>4. SumOf(after, Addresses) = SumOf(bal, Addresses) - bal[owner] + after[owner]
  <2>1. \A a \in Addresses : bal[a] \in Int /\ after[a] \in Int
    BY <1>2
  <2> QED BY <1>1, <2>1, SumUpdate
<1> QED BY <1>3, <1>4

\* deposit adds to the battery's money what it adds to one owner's account.
LEMMA DepositMoves ==
    ASSUME MoneyTyped, money[Battery] >= SumOf(bal, Addresses),
           NEW from \in Addresses, from # Battery, NEW owner \in Addresses, NEW amount \in Int,
           Deposit(from, owner, amount)
    PROVE  /\ MoneyTyped' /\ money'[Battery] >= SumOf(bal', Addresses)
           /\ money'[from] >= money[from] - amount
           /\ \A a \in Addresses \ {from} : money'[a] >= money[a]
<1>1. /\ amount \in Nat /\ money[from] >= amount
      /\ money' = Sent(money, from, Battery, amount)
      /\ bal' = [bal EXCEPT ![owner] = @ + amount]
  BY DEF Deposit, CanSend, Credit
<1>2. Battery \in Addresses /\ money \in [Addresses -> Nat] /\ bal \in [Addresses -> Nat]
  BY OwnAddresses DEF MoneyTyped
<1>3. /\ money' \in [Addresses -> Nat] /\ money'[Battery] = money[Battery] + amount
      /\ money'[from] >= money[from] - amount
      /\ \A a \in Addresses \ {from} : money'[a] >= money[a]
  BY <1>1, <1>2, SentMoves
<1>4. bal' \in [Addresses -> Nat] /\ bal'[owner] = bal[owner] + amount
      /\ \A a \in Addresses \ {owner} : bal'[a] = bal[a]
  BY <1>1, <1>2
<1>5. /\ SumOf(bal, Addresses) \in Nat /\ SumOf(bal', Addresses) \in Nat
      /\ SumOf(bal', Addresses) = SumOf(bal, Addresses) - bal[owner] + bal'[owner]
  BY <1>2, <1>4, BatteryMoves
<1>6. bal[owner] \in Nat /\ money[Battery] \in Nat
  BY <1>2
<1>7. money'[Battery] >= SumOf(bal', Addresses)
  BY <1>1, <1>3, <1>4, <1>5, <1>6
<1> QED BY <1>3, <1>4, <1>7 DEF MoneyTyped

\* withdraw takes from both what its owner takes out.
LEMMA WithdrawKeepsBooks ==
    ASSUME Books, NEW owner \in Accounts, NEW amount \in Int, Withdraw(owner, amount),
           UNCHANGED ticketVars
    PROVE  Books'
<1>1. /\ amount \in Nat /\ amount <= bal[owner] /\ money[Battery] >= amount
      /\ money' = Sent(money, Battery, owner, amount)
      /\ bal' = [bal EXCEPT ![owner] = @ - amount]
  BY DEF Withdraw, Covers, CanSend
<1>2. /\ Battery \in Addresses /\ owner \in Addresses /\ owner # Battery /\ Vault \in Addresses
      /\ Vault # Battery
      /\ money \in [Addresses -> Nat] /\ bal \in [Addresses -> Nat]
  BY OwnAddresses DEF Books, MoneyTyped
<1>3. /\ money' \in [Addresses -> Nat] /\ money'[Battery] >= money[Battery] - amount
      /\ \A a \in Addresses \ {Battery} : money'[a] >= money[a]
  BY <1>1, <1>2, SentMoves
<1>4. bal' \in [Addresses -> Nat] /\ bal'[owner] = bal[owner] - amount
      /\ \A a \in Addresses \ {owner} : bal'[a] = bal[a]
  BY <1>1, <1>2
<1>5. /\ SumOf(bal, Addresses) \in Nat /\ SumOf(bal', Addresses) \in Nat
      /\ SumOf(bal', Addresses) = SumOf(bal, Addresses) - bal[owner] + bal'[owner]
  BY <1>2, <1>4, BatteryMoves
<1>6. bal[owner] \in Nat /\ money[Battery] \in Nat /\ money'[Battery] \in Nat
      /\ money[Vault] \in Nat /\ money'[Vault] \in Nat
  BY <1>2, <1>3
<1>7. money'[Battery] >= SumOf(bal', Addresses)
  BY <1>1, <1>3, <1>4, <1>5, <1>6 DEF Books
<1>8. TicketBooks' /\ liveTotal' = liveTotal /\ liveTotal \in Nat
  <2>1. TicketBooks /\ liveTotal \in Nat
    BY LiveIsFinite DEF Books, TicketBooks
  <2> QED BY <2>1 DEF ticketVars, TicketBooks, TicketsTyped, Live, Worth, IndexNamesOwners
<1>9. money'[Vault] >= liveTotal'
  BY <1>2, <1>3, <1>6, <1>8 DEF Books
<1> QED BY <1>3, <1>4, <1>7, <1>8, <1>9 DEF Books, MoneyTyped

\* What the ticket contract owes is at least nothing.
LEMMA LiveTotalIsNatural ==
    ASSUME TicketBooks
    PROVE  liveTotal \in Nat
BY LiveIsFinite DEF TicketBooks

\* redeem pays out of the vault what it takes off the total, over any balances
\* the transaction has so far; nobody else has less.
LEMMA RedeemMoves ==
    ASSUME TicketBooks, NEW held \in [Addresses -> Nat], held[Vault] >= liveTotal,
           NEW owner, NEW id, NEW to \in Addresses, Redeem(held, owner, id, to)
    PROVE  /\ TicketBooks' /\ money' \in [Addresses -> Nat]
           /\ money'[Vault] >= liveTotal'
           /\ money'[Battery] >= held[Battery]
<1>1. /\ id \in Live /\ BurnTicket(id)
      /\ money' = Sent(held, Vault, to, tickets[id].amount)
  BY DEF Redeem
<1>2. /\ TicketBooks' /\ liveTotal' = liveTotal - tickets[id].amount
      /\ tickets[id].amount \in Nat /\ tickets[id].amount <= liveTotal
  BY <1>1, BurnKeepsBooks
<1>3. liveTotal \in Nat /\ held[Vault] \in Nat
  BY OwnAddresses, LiveTotalIsNatural
<1>4. held[Vault] >= tickets[id].amount
  BY <1>2, <1>3
<1>5. Vault \in Addresses /\ Battery \in Addresses /\ Battery # Vault
  BY OwnAddresses
<1>6. /\ money' \in [Addresses -> Nat] /\ money'[Vault] >= held[Vault] - tickets[id].amount
      /\ money'[Battery] >= held[Battery]
  BY <1>1, <1>2, <1>4, <1>5, SentMoves
<1>7. money'[Vault] >= liveTotal'
  <2>1. money'[Vault] \in Nat
    BY <1>5, <1>6
  <2> QED BY <1>2, <1>3, <1>6, <2>1
<1> QED BY <1>2, <1>6, <1>7

\* Every call of the ticket contract keeps the books.
LEMMA TicketStepKeepsBooks ==
    ASSUME Books, TicketStep
    PROVE  Books'
<1>1. PICK owner \in Accounts, id \in Live :
         \/ /\ \/ \E to \in Payees : Redeem(money, owner, id, to)
               \/ \E to \in Payees : TransferTicket(owner, to, id) /\ UNCHANGED money
               \/ \E first, second \in SplitParts :
                     Split(owner, id, <<first, second>>) /\ UNCHANGED money
            /\ UNCHANGED <<trusting, batteryVars>>
         \/ RedeemToBattery(owner, id)
  BY DEF TicketStep
<1>2. /\ TicketBooks /\ MoneyTyped /\ money \in [Addresses -> Nat] /\ bal \in [Addresses -> Nat]
      /\ money[Vault] >= liveTotal /\ money[Battery] >= SumOf(bal, Addresses)
  BY DEF Books, MoneyTyped
<1>3. owner \in Addresses /\ Vault \in Addresses /\ Battery \in Addresses /\ Vault # Battery
  BY OwnAddresses
<1>4. ASSUME NEW to \in Payees, Redeem(money, owner, id, to), UNCHANGED batteryVars
      PROVE  Books'
  <2>1. to \in Addresses /\ bal' = bal
    BY <1>4, Gate2Constants DEF batteryVars
  <2>2. /\ TicketBooks' /\ money' \in [Addresses -> Nat]
        /\ money'[Vault] >= liveTotal'
        /\ money'[Battery] >= money[Battery]
    BY <1>2, <1>4, <2>1, RedeemMoves
  <2>3. money[Battery] \in Nat /\ money'[Battery] \in Nat /\ SumOf(bal, Addresses) \in Nat
    BY <1>2, <1>3, <2>2, BatteryMoves
  <2>4. money'[Battery] >= SumOf(bal, Addresses)
    BY <1>2, <2>2, <2>3
  <2> QED BY <1>2, <2>1, <2>2, <2>4 DEF Books, MoneyTyped
<1>5. ASSUME NEW to \in Payees, TransferTicket(owner, to, id), UNCHANGED <<money, batteryVars>>
      PROVE  Books'
  <2>1. to \in Addresses /\ bal' = bal /\ money' = money
    BY <1>5, Gate2Constants DEF batteryVars
  <2>2. TicketBooks' /\ liveTotal' = liveTotal
    BY <1>2, <1>3, <1>5, <2>1, TransferKeepsBooks
  <2> QED BY <1>2, <2>1, <2>2 DEF Books, MoneyTyped
<1>6. ASSUME NEW first \in SplitParts, NEW second \in SplitParts,
             Split(owner, id, <<first, second>>), UNCHANGED <<money, batteryVars>>
      PROVE  Books'
  <2>1. <<first, second>> \in Seq(Int) /\ bal' = bal /\ money' = money
    BY <1>6, Gate2Constants DEF batteryVars
  <2>2. TicketBooks' /\ liveTotal' = liveTotal
    BY <1>2, <1>3, <1>6, <2>1, SplitKeepsBooks
  <2> QED BY <1>2, <2>1, <2>2 DEF Books, MoneyTyped
<1>7. ASSUME RedeemToBattery(owner, id)
      PROVE  Books'
  <2>1. Deposit(Vault, owner, tickets[id].amount) /\ BurnTicket(id)
    BY <1>7 DEF RedeemToBattery
  <2>2. /\ TicketBooks' /\ liveTotal' = liveTotal - tickets[id].amount
        /\ tickets[id].amount \in Nat /\ tickets[id].amount <= liveTotal
    BY <1>2, <2>1, BurnKeepsBooks
  <2>3. /\ MoneyTyped' /\ money'[Battery] >= SumOf(bal', Addresses)
        /\ money'[Vault] >= money[Vault] - tickets[id].amount
    BY <1>2, <1>3, <2>1, <2>2, DepositMoves
  <2>4. liveTotal \in Nat /\ money[Vault] \in Nat /\ money'[Vault] \in Nat
    BY <1>2, <1>3, <2>3, LiveTotalIsNatural DEF MoneyTyped
  <2>5. money'[Vault] >= liveTotal'
    BY <1>2, <2>2, <2>3, <2>4
  <2> QED BY <2>2, <2>3, <2>5 DEF Books
<1> QED BY <1>1, <1>4, <1>5, <1>6, <1>7

\* A deposit moves money of somebody who is neither vault nor battery.
LEMMA DepositKeepsBooks ==
    ASSUME Books, NEW from \in Accounts, NEW owner \in Accounts, NEW amount \in Int,
           Deposit(from, owner, amount), UNCHANGED ticketVars
    PROVE  Books'
<1>1. /\ from \in Addresses /\ owner \in Addresses /\ from # Battery /\ from # Vault
      /\ Vault \in Addresses
  BY OwnAddresses
<1>2. /\ MoneyTyped' /\ money'[Battery] >= SumOf(bal', Addresses)
      /\ money'[Vault] >= money[Vault]
  BY <1>1, DepositMoves DEF Books
<1>3. TicketBooks' /\ liveTotal' = liveTotal /\ liveTotal \in Nat
  <2>1. TicketBooks /\ liveTotal \in Nat
    BY LiveTotalIsNatural DEF Books
  <2> QED BY <2>1 DEF ticketVars, TicketBooks, TicketsTyped, Live, Worth, IndexNamesOwners
<1>4. money[Vault] \in Nat /\ money'[Vault] \in Nat
  BY <1>1, <1>2 DEF Books, MoneyTyped
<1>5. money'[Vault] >= liveTotal'
  BY <1>2, <1>3, <1>4 DEF Books
<1> QED BY <1>2, <1>3, <1>5 DEF Books

\* A forwarded call pays its fee out of its owner's battery before its target
\* moves a ticket or money of the vault.
LEMMA ForwardKeepsBooks ==
    ASSUME Books, NEW r \in Requests, Forward(r)
    PROVE  Books'
<1> DEFINE held == AfterFee(r)
<1>1. /\ r.owner \in Addresses /\ r.relayer \in Addresses /\ r.to \in Addresses /\ r.fee \in Int
      /\ Battery \in Addresses /\ Vault \in Addresses /\ Vault # Battery
  BY Gate2Constants, OwnAddresses
<1>2. /\ TicketBooks /\ money \in [Addresses -> Nat] /\ bal \in [Addresses -> Nat]
      /\ money[Vault] >= liveTotal /\ money[Battery] >= SumOf(bal, Addresses)
  BY DEF Books, MoneyTyped
<1>3. /\ r.fee \in Nat /\ r.fee <= bal[r.owner] /\ money[Battery] >= r.fee
      /\ bal' = [bal EXCEPT ![r.owner] = @ - r.fee]
  BY <1>1 DEF Forward, Charge, ForwardAccepts, Covers, CanSend
<1>4. /\ held \in [Addresses -> Nat] /\ held[Battery] >= money[Battery] - r.fee
      /\ held[Vault] >= money[Vault]
  BY <1>1, <1>2, <1>3, SentMoves DEF AfterFee
<1>5. bal' \in [Addresses -> Nat] /\ bal'[r.owner] = bal[r.owner] - r.fee
      /\ \A a \in Addresses \ {r.owner} : bal'[a] = bal[a]
  BY <1>1, <1>2, <1>3
<1>6. /\ SumOf(bal, Addresses) \in Nat /\ SumOf(bal', Addresses) \in Nat
      /\ SumOf(bal', Addresses) = SumOf(bal, Addresses) - bal[r.owner] + bal'[r.owner]
  BY <1>1, <1>2, <1>5, BatteryMoves
<1>7. liveTotal \in Nat /\ money[Vault] \in Nat /\ money[Battery] \in Nat
      /\ bal[r.owner] \in Nat /\ held[Vault] \in Nat /\ held[Battery] \in Nat
  BY <1>1, <1>2, <1>4, LiveTotalIsNatural
<1>8. held[Vault] >= liveTotal /\ held[Battery] >= SumOf(bal', Addresses)
  BY <1>2, <1>3, <1>4, <1>5, <1>6, <1>7
<1>9. Called(r)
  BY DEF Forward
<1> HIDE DEF held
<1>10. CASE r.call = "other" /\ money' = held /\ UNCHANGED ticketVars
  <2>1. TicketBooks' /\ liveTotal' = liveTotal
    BY <1>2, <1>10 DEF ticketVars, TicketBooks, TicketsTyped, Live, Worth, IndexNamesOwners
  <2> QED BY <1>4, <1>5, <1>8, <1>10, <2>1 DEF Books, MoneyTyped
<1>11. CASE money' = held /\ TransferTicket(r.owner, r.to, r.id)
  <2>1. TicketBooks' /\ liveTotal' = liveTotal
    BY <1>1, <1>2, <1>11, TransferKeepsBooks
  <2> QED BY <1>4, <1>5, <1>8, <1>11, <2>1 DEF Books, MoneyTyped
<1>12. CASE Redeem(held, r.owner, r.id, r.to)
  <2>1. /\ TicketBooks' /\ money' \in [Addresses -> Nat]
        /\ money'[Vault] >= liveTotal' /\ money'[Battery] >= held[Battery]
    BY <1>1, <1>2, <1>4, <1>8, <1>12, RedeemMoves
  <2>2. money'[Battery] \in Nat
    BY <1>1, <2>1
  <2>3. money'[Battery] >= SumOf(bal', Addresses)
    BY <1>6, <1>7, <1>8, <2>1, <2>2
  <2> QED BY <1>5, <2>1, <2>3 DEF Books, MoneyTyped
<1> QED BY <1>9, <1>10, <1>11, <1>12 DEF Called, held

\* claim hands out exactly what Circle minted to it: the vault gets what a new
\* ticket is worth, the battery what its owner is credited, and nobody's money
\* is touched, whoever the relayer and the recipient are.
LEMMA ClaimKeepsBooks ==
    ASSUME Books, BurnsTyped, ClaimStep
    PROVE  Books'
<1>1. PICK m \in Range(burns), relayer \in Relayers :
         \E relayFee \in 0..m.relayFeeCap : ClaimMessage(m, relayer, relayFee)
  BY DEF ClaimStep
<1>2. PICK relayFee \in 0..m.relayFeeCap : ClaimMessage(m, relayer, relayFee)
  BY <1>1
<1>3. m \in Message
  BY DEF Range, BurnsTyped
<1>4. /\ relayFee \in Nat /\ m.amount \in Int /\ m.feeExecuted \in Nat /\ m.batteryAmount \in Nat
      /\ m.recipient \in Recipients
  BY <1>2, <1>3 DEF Message
<1>5. /\ HookParses(m) /\ In7(relayFee) + In7(m.batteryAmount) < Minted(m)
      /\ money' = Distributed(m, relayer, relayFee)
  BY <1>2 DEF ClaimMessage, ClaimAccepts
<1> DEFINE owner == m.recipient.address
           fee == In7(relayFee)
           share == In7(m.batteryAmount)
           rest == Rest(m, relayFee)
           to == Destination(m)
           r0 == Received(money, m)
           r1 == AfterRelay(r0, m, relayer, relayFee)
           r2 == AfterBattery(r1, m)
<1>6. /\ owner \in Addresses /\ relayer \in Addresses /\ to \in Addresses
      /\ Claim \in Addresses /\ Battery \in Addresses /\ Vault \in Addresses
      /\ Claim # Battery /\ Claim # Vault
  <2>1. owner \in Addresses
    BY <1>4, <1>5, Gate2Constants DEF HookParses
  <2> QED BY <2>1, Gate2Constants, OwnAddresses DEF Destination
<1>7. /\ TicketBooks /\ money \in [Addresses -> Nat] /\ bal \in [Addresses -> Nat]
      /\ money[Vault] >= liveTotal /\ money[Battery] >= SumOf(bal, Addresses)
      /\ liveTotal \in Nat
  BY LiveTotalIsNatural DEF Books, MoneyTyped
<1>8. /\ fee \in Nat /\ share \in Nat /\ rest \in Nat
      /\ Minted(m) \in Nat /\ Minted(m) = fee + share + rest
  BY <1>4, <1>5 DEF In7, Rest, Minted
<1>9. /\ (relayFee > 0 <=> fee > 0) /\ (m.batteryAmount > 0 <=> share > 0)
  BY <1>4 DEF In7
<1>10. money' = Sent(r2, Claim, to, rest)
  BY <1>5 DEF Distributed
<1> HIDE DEF fee, share, rest, to, owner
<1>11. /\ r0 \in [Addresses -> Nat] /\ r0[Claim] >= fee + share + rest
       /\ \A a \in Addresses : r0[a] >= money[a]
  <2>1. r0 = [money EXCEPT ![Claim] = money[Claim] + Minted(m)]
    BY DEF Received
  <2>2. money[Claim] \in Nat
    BY <1>6, <1>7
  <2>3. r0 \in [Addresses -> Nat] /\ r0[Claim] = money[Claim] + Minted(m)
        /\ \A a \in Addresses \ {Claim} : r0[a] = money[a]
    BY <1>6, <1>7, <1>8, <2>1, <2>2
  <2> HIDE DEF r0
  <2>4. \A a \in Addresses : money[a] \in Nat
    BY <1>7
  <2>5. r0[Claim] >= money[Claim] /\ r0[Claim] >= fee + share + rest
    BY <1>8, <2>2, <2>3
  <2>6. \A a \in Addresses : r0[a] >= money[a]
    BY <2>3, <2>4, <2>5
  <2> QED BY <2>3, <2>5, <2>6
<1> HIDE DEF r0
<1>12. /\ r1 \in [Addresses -> Nat] /\ r1[Claim] >= share + rest
       /\ \A a \in Addresses \ {Claim} : r1[a] >= r0[a]
  <2>1. \A a \in Addresses : r0[a] \in Nat
    BY <1>11
  <2>2. CASE relayFee > 0
    <3>1. r1 = Sent(r0, Claim, relayer, fee)
      BY <2>2 DEF AfterRelay, fee
    <3>2. r0[Claim] >= fee
      BY <1>6, <1>8, <1>11, <2>1
    <3>3. /\ r1 \in [Addresses -> Nat] /\ r1[Claim] >= r0[Claim] - fee
          /\ \A a \in Addresses \ {Claim} : r1[a] >= r0[a]
      BY <1>6, <1>8, <1>11, <3>1, <3>2, SentMoves, SMTT(60)
    <3> HIDE DEF r1
    <3>4. r1[Claim] \in Nat /\ r0[Claim] \in Nat
      BY <1>6, <2>1, <3>3
    <3> QED BY <1>8, <1>11, <3>3, <3>4
  <2>3. CASE ~(relayFee > 0)
    <3>1. r1 = r0
      BY <2>3 DEF AfterRelay
    <3> HIDE DEF r1
    <3> QED BY <1>6, <1>8, <1>11, <2>1, <3>1
  <2> QED BY <2>2, <2>3
<1> HIDE DEF r1
<1>13. /\ r2 \in [Addresses -> Nat] /\ r2[Claim] >= rest
       /\ r2[Battery] >= r1[Battery] + share
       /\ \A a \in Addresses \ {Claim} : r2[a] >= r1[a]
  <2>1. \A a \in Addresses : r1[a] \in Nat
    BY <1>12
  <2>2. CASE m.batteryAmount > 0
    <3>1. r2 = Sent(r1, Claim, Battery, share)
      BY <2>2 DEF AfterBattery, share
    <3>2. r1[Claim] >= share
      BY <1>6, <1>8, <1>12, <2>1
    <3>3. /\ r2 \in [Addresses -> Nat] /\ r2[Claim] >= r1[Claim] - share
          /\ r2[Battery] = r1[Battery] + share
          /\ \A a \in Addresses \ {Claim} : r2[a] >= r1[a]
      BY <1>6, <1>8, <1>12, <3>1, <3>2, SentMoves, SMTT(60)
    <3> HIDE DEF r2
    <3>4. r2[Claim] \in Nat /\ r1[Claim] \in Nat /\ r1[Battery] \in Nat /\ r2[Battery] \in Nat
      BY <1>6, <2>1, <3>3
    <3> QED BY <1>8, <1>12, <3>3, <3>4
  <2>3. CASE ~(m.batteryAmount > 0)
    <3>1. r2 = r1
      BY <2>3 DEF AfterBattery
    <3>2. share = 0
      BY <1>8, <1>9, <2>3
    <3> HIDE DEF r2
    <3> QED BY <1>6, <1>8, <1>12, <2>1, <3>1, <3>2
  <2> QED BY <2>2, <2>3
<1> HIDE DEF r2
<1>14. /\ money' \in [Addresses -> Nat]
       /\ \A a \in Addresses \ {Claim} : money'[a] >= r2[a]
       /\ to # Claim => money'[to] = r2[to] + rest
  BY <1>6, <1>8, <1>10, <1>13, SentMoves, SMTT(60)
<1>15. \A a \in Addresses : /\ money[a] \in Nat /\ r0[a] \in Nat /\ r1[a] \in Nat
                            /\ r2[a] \in Nat /\ money'[a] \in Nat
  BY <1>7, <1>11, <1>12, <1>13, <1>14
<1>16. money'[Battery] >= money[Battery] + share
  BY <1>6, <1>8, <1>11, <1>12, <1>13, <1>14, <1>15
<1>17. money'[Vault] >= money[Vault] /\ (TicketMode(m) => money'[Vault] >= money[Vault] + rest)
  <2>1. r2[Vault] >= money[Vault]
    BY <1>6, <1>11, <1>12, <1>13, <1>15
  <2>2. money'[Vault] >= money[Vault]
    BY <1>6, <1>14, <1>15, <2>1
  <2>3. ASSUME TicketMode(m) PROVE money'[Vault] >= money[Vault] + rest
    <3>1. to = Vault
      BY <2>3 DEF Destination, to
    <3> QED BY <1>6, <1>8, <1>14, <1>15, <2>1, <3>1
  <2> QED BY <2>2, <2>3
<1>18. bal' \in [Addresses -> Nat] /\ SumOf(bal', Addresses) = SumOf(bal, Addresses) + share
       /\ SumOf(bal, Addresses) \in Nat
  <2>1. CASE m.batteryAmount > 0 /\ Credit(owner, share)
    <3>1. bal' = [bal EXCEPT ![owner] = bal[owner] + share]
      BY <2>1 DEF Credit
    <3>2. bal[owner] \in Nat
      BY <1>6, <1>7
    <3>3. /\ bal' \in [Addresses -> Nat] /\ bal'[owner] = bal[owner] + share
          /\ \A a \in Addresses \ {owner} : bal'[a] = bal[a]
      BY <1>6, <1>7, <1>8, <3>1, <3>2
    <3>4. /\ SumOf(bal, Addresses) \in Nat /\ SumOf(bal', Addresses) \in Nat
          /\ SumOf(bal', Addresses) = SumOf(bal, Addresses) - bal[owner] + bal'[owner]
      BY <1>6, <1>7, <3>3, BatteryMoves
    <3> QED BY <1>8, <3>2, <3>3, <3>4
  <2>2. CASE m.batteryAmount = 0 /\ bal' = bal
    <3>1. SumOf(bal, Addresses) \in Nat
      BY <1>6, <1>7, BatteryMoves
    <3>2. share = 0
      BY <1>8, <1>9, <2>2
    <3> QED BY <1>7, <2>2, <3>1, <3>2
  <2> QED BY <1>2, <2>1, <2>2 DEF ClaimMessage, Passport, owner, share
<1>19. money'[Battery] >= SumOf(bal', Addresses)
  BY <1>6, <1>7, <1>8, <1>15, <1>16, <1>18
<1>20. TicketBooks' /\ money'[Vault] >= liveTotal'
  <2>1. CASE TicketMode(m) /\ MintTicket(owner, rest, m)
    <3>1. TicketBooks' /\ liveTotal' = liveTotal + rest
      BY <1>6, <1>7, <1>8, <2>1, MintKeepsBooks
    <3> QED BY <1>6, <1>7, <1>8, <1>15, <1>17, <2>1, <3>1
  <2>2. CASE UNCHANGED ticketVars
    <3>1. TicketBooks' /\ liveTotal' = liveTotal
      BY <1>7, <2>2 DEF ticketVars, TicketBooks, TicketsTyped, Live, Worth, IndexNamesOwners
    <3> QED BY <1>6, <1>7, <1>15, <1>17, <3>1
  <2> QED BY <1>2, <2>1, <2>2 DEF ClaimMessage, Passport, owner, rest
<1> QED BY <1>14, <1>18, <1>19, <1>20 DEF Books, MoneyTyped

\* Trustlines, burns, ledgers, stamps and tiers move no money and no ticket.
LEMMA BooksDependOn ==
    ASSUME Books, UNCHANGED <<money, bal, ticketVars>>
    PROVE  Books'
BY DEF Books, MoneyTyped, ticketVars, TicketBooks, TicketsTyped, Live, Worth, IndexNamesOwners

\* Nothing is owed in the first state.
LEMMA BooksFromTheStart == Init => Books
<1> SUFFICES ASSUME Init PROVE Books
  OBVIOUS
<1>1. MoneyTyped
  <2>1. \A a \in Addresses : money[a] \in Nat
    BY Gate2Constants DEF Init
  <2>2. money = [a \in Addresses |-> money[a]]
    BY DEF Init
  <2> QED BY <2>1, <2>2 DEF Init, MoneyTyped
<1>2. Live = {}
  BY DEF Init, Live
<1>3. TicketsTyped
  BY <1>2 DEF Init, TicketsTyped
<1>4. liveTotal = SumOf(Worth, Live)
  BY <1>2, SumEmpty DEF Init
<1>5. index \in [Addresses -> Seq(Nat)] /\ IndexNamesOwners
  <2>1. Range(<< >>) = {} /\ IsInjective(<< >>)
    BY DEF Range, IsInjective
  <2> QED BY <1>2, <2>1 DEF Init, IndexNamesOwners
<1>6. SumOf(bal, Addresses) = 0
  <2> DEFINE none == [a \in Addresses |-> 0]
  <2>1. bal = none
    BY DEF Init
  <2>2. IsFiniteSet(Addresses)
    BY OwnAddresses
  <2> HIDE DEF none
  <2>3. \A a \in Addresses : none[a] = 0
    BY DEF none
  <2>4. SumOf(none, Addresses) = 0
    BY <2>2, <2>3, SumZero
  <2> QED BY <2>1, <2>4
<1>7. money[Vault] >= liveTotal /\ money[Battery] >= 0
  <2>1. money[Vault] \in Nat /\ money[Battery] \in Nat
    BY <1>1, OwnAddresses DEF MoneyTyped
  <2> QED BY <2>1 DEF Init
<1> QED BY <1>1, <1>3, <1>4, <1>5, <1>6, <1>7 DEF Books, TicketBooks

\* Every step of Gate 2 keeps the books.
LEMMA StepKeepsBooks ==
    ASSUME Books, BurnsTyped, [Next]_vars
    PROVE  Books'
<1>1. CASE RouterStep /\ UNCHANGED <<usdcVars, batteryVars, ticketVars, claimVars, forwards>>
  BY <1>1, BooksDependOn DEF usdcVars, batteryVars
<1>2. CASE ClaimStep
  BY <1>2, ClaimKeepsBooks
<1>3. CASE BatteryStep
  <2>1. PICK owner \in Accounts, amount \in MoveAmounts :
           \/ \E other \in Accounts : Deposit(owner, other, amount)
           \/ Withdraw(owner, amount)
    BY <1>3 DEF BatteryStep
  <2>2. amount \in Int /\ UNCHANGED ticketVars
    BY <1>3, Gate2Constants DEF BatteryStep
  <2> QED BY <2>1, <2>2, DepositKeepsBooks, WithdrawKeepsBooks
<1>4. CASE TicketStep
  BY <1>4, TicketStepKeepsBooks
<1>5. CASE \E r \in Requests : Forward(r)
  BY <1>5, ForwardKeepsBooks
<1>6. CASE /\ \E a \in Accounts : OpenTrustline(a) \/ CloseTrustline(a)
           /\ UNCHANGED <<batteryVars, ticketVars, claimVars, burns, forwards>>
  BY <1>6, BooksDependOn DEF OpenTrustline, CloseTrustline, batteryVars
<1>7. CASE UNCHANGED <<usdcVars, bal, used, ticketVars, claimVars, burns, forwards>>
  BY <1>7, BooksDependOn DEF usdcVars
<1>8. CASE UNCHANGED vars
  BY <1>8, BooksDependOn DEF vars, usdcVars, batteryVars
<1> QED BY <1>1, <1>2, <1>3, <1>4, <1>5, <1>6, <1>7, <1>8 DEF Next

-----------------------------------------------------------------------------
(* The campaign.                                                           *)

\* The running summary of everybody is what their proofs add up to.
SummariesAgree ==
    /\ \A i \in DOMAIN proofs : proofs[i].amount \in Nat
    /\ summary = [a \in Addresses |-> [total |-> SumOf(Proven, ProofsOf(a)),
                                       count |-> Cardinality(ProofsOf(a))]]

\* A tier on record was earned, and totals only grow.
TiersBacked ==
    /\ tier \in [Accounts -> 0..3]
    /\ \A a \in Accounts : summary[a].total >= Threshold[tier[a]]

\* A set of proofs is finite and so are its sums.
LEMMA ProofsAddUp ==
    ASSUME GuardsAgree, SummariesAgree, NEW a
    PROVE  /\ IsFiniteSet(ProofsOf(a)) /\ Cardinality(ProofsOf(a)) \in Nat
           /\ \A i \in ProofsOf(a) : Proven[i] \in Nat
           /\ SumOf(Proven, ProofsOf(a)) \in Nat
<1>1. Len(proofs) \in Nat /\ DOMAIN proofs = 1..Len(proofs)
  BY DEF GuardsAgree
<1>2. IsFiniteSet(DOMAIN proofs)
  BY <1>1, FS_Interval
<1>3. IsFiniteSet(ProofsOf(a))
  BY <1>2, FS_Subset DEF ProofsOf
<1>4. \A i \in ProofsOf(a) : Proven[i] \in Nat
  BY DEF ProofsOf, Proven, SummariesAgree
<1> QED BY <1>3, <1>4, SumNat, FS_CardinalityType

\* claim writes the proof and the summary of one owner in one call.
LEMMA ClaimKeepsSummaries ==
    ASSUME BurnsTyped, GuardsAgree, SummariesAgree, ClaimStep
    PROVE  /\ SummariesAgree'
           /\ \A a \in Addresses : summary'[a].total >= summary[a].total
                                   /\ summary'[a].total \in Nat
<1>1. PICK m \in Range(burns), relayer \in Relayers :
         \E relayFee \in 0..m.relayFeeCap : ClaimMessage(m, relayer, relayFee)
  BY DEF ClaimStep
<1>2. PICK relayFee \in 0..m.relayFeeCap : ClaimMessage(m, relayer, relayFee)
  BY <1>1
<1>3. m \in Message
  BY DEF Range, BurnsTyped
<1> DEFINE p == MigrationProof(m, relayFee)
           n == Len(proofs) + 1
           owner == m.recipient.address
<1>4. Minted(m) \div 10 \in Nat
  <2>1. Minted(m) \in Int /\ Minted(m) > 0
    BY <1>2, <1>3 DEF ClaimMessage, ClaimAccepts, Minted, In7, Message
  <2> QED BY <2>1
<1>5. /\ proofs' = Append(proofs, p)
      /\ summary' = [summary EXCEPT ![owner] = [total |-> @.total + Minted(m) \div 10,
                                                count |-> @.count + 1]]
  BY <1>2 DEF ClaimMessage, Passport
<1>6. p.owner = owner /\ p.amount = Minted(m) \div 10
  BY DEF MigrationProof
<1> HIDE DEF p, owner
<1>7. /\ Len(proofs) \in Nat /\ DOMAIN proofs = 1..Len(proofs)
      /\ DOMAIN proofs' = 1..(Len(proofs) + 1) /\ proofs'[n] = p
      /\ \A i \in 1..Len(proofs) : proofs'[i] = proofs[i]
  <2>1. PICK S : proofs \in Seq(S)
    BY DEF GuardsAgree
  <2>2. proofs \in Seq(S \cup {p})
    BY <2>1
  <2> QED BY <1>5, <2>2
<1>8. DOMAIN proofs' = DOMAIN proofs \cup {n} /\ n \notin DOMAIN proofs
  BY <1>7
<1>9. \A i \in DOMAIN proofs' : proofs'[i].amount \in Nat
  BY <1>4, <1>6, <1>7, <1>8 DEF SummariesAgree
<1>10. \A a \in Addresses : /\ IsFiniteSet(ProofsOf(a)) /\ Cardinality(ProofsOf(a)) \in Nat
                            /\ \A i \in ProofsOf(a) : Proven[i] \in Nat
                            /\ SumOf(Proven, ProofsOf(a)) \in Nat
  BY ProofsAddUp
<1>11. /\ \A i \in DOMAIN proofs : Proven'[i] = Proven[i]
       /\ Proven'[n] = Minted(m) \div 10
  BY <1>6, <1>7, <1>8 DEF Proven
<1>12. ASSUME NEW a \in Addresses
       PROVE  /\ summary'[a] = [total |-> SumOf(Proven, ProofsOf(a)),
                                count |-> Cardinality(ProofsOf(a))]'
              /\ summary'[a].total >= summary[a].total /\ summary'[a].total \in Nat
  <2> DEFINE w == Proven'
             mine == ProofsOf(a)
  <2>1. /\ summary[a] = [total |-> SumOf(Proven, mine), count |-> Cardinality(mine)]
        /\ IsFiniteSet(mine) /\ SumOf(Proven, mine) \in Nat /\ Cardinality(mine) \in Nat
        /\ \A i \in mine : Proven[i] \in Nat
    BY <1>10 DEF SummariesAgree
  <2>2. \A i \in mine : w[i] = Proven[i] /\ w[i] \in Int
    BY <1>11, <2>1 DEF ProofsOf
  <2>3. SumOf(w, mine) = SumOf(Proven, mine)
    BY <2>1, <2>2, SumSame
  <2>4. n \notin mine
    BY <1>8 DEF ProofsOf
  <2>5. CASE a = owner
    <3>1. ProofsOf(a)' = mine \cup {n}
      BY <1>6, <1>7, <1>8, <2>5 DEF ProofsOf
    <3>2. w[n] = Minted(m) \div 10 /\ w[n] \in Int
      BY <1>4, <1>11
    <3> HIDE DEF w, mine
    <3>3. SumOf(w, mine \cup {n}) = SumOf(w, mine) + w[n]
      BY <2>1, <2>2, <2>4, <3>2, SumAdd
    <3>4. Cardinality(mine \cup {n}) = Cardinality(mine) + 1
      BY <2>1, <2>4, FS_AddElement
    <3>5. summary'[a] = [total |-> summary[a].total + Minted(m) \div 10,
                         count |-> summary[a].count + 1]
      BY <1>5, <2>5 DEF SummariesAgree
    <3>6. summary'[a] = [total |-> SumOf(w, mine \cup {n}), count |-> Cardinality(mine \cup {n})]
      BY <2>1, <2>3, <3>2, <3>3, <3>4, <3>5
    <3>7. summary'[a].total >= summary[a].total /\ summary'[a].total \in Nat
      BY <1>4, <2>1, <3>5
    <3> QED BY <3>1, <3>6, <3>7 DEF w
  <2>6. CASE a # owner
    <3>1. ProofsOf(a)' = mine
      BY <1>6, <1>7, <1>8, <2>6 DEF ProofsOf
    <3>2. summary'[a] = summary[a]
      BY <1>5, <2>6 DEF SummariesAgree
    <3>3. summary'[a] = [total |-> SumOf(w, mine), count |-> Cardinality(mine)]
      BY <2>1, <2>3, <3>2
    <3>4. summary'[a].total >= summary[a].total /\ summary'[a].total \in Nat
      BY <2>1, <3>2
    <3> QED BY <3>1, <3>3, <3>4
  <2> QED BY <2>5, <2>6
<1>13. DOMAIN summary' = Addresses /\ summary' = [a \in Addresses |-> summary'[a]]
  BY <1>5 DEF SummariesAgree
<1> QED BY <1>9, <1>12, <1>13 DEF SummariesAgree

\* Exactly one tier is the best a total has reached.
LEMMA EarnedIsReached ==
    ASSUME NEW total \in Nat
    PROVE  Earned(total) \in 0..3 /\ total >= Threshold[Earned(total)]
<1> USE TiersAscend
<1>1. Threshold[0] = 0 /\ Threshold[1] = Bronze /\ Threshold[2] = Silver /\ Threshold[3] = Gold
  BY DEF Threshold
<1>2. \A u \in 0..3 : u = 0 \/ u = 1 \/ u = 2 \/ u = 3
  OBVIOUS
<1>3. \E t \in 0..3 : /\ total >= Threshold[t]
                      /\ \A u \in 0..3 : total >= Threshold[u] => u <= t
  <2>1. CASE total >= Gold
    <3>1. \A u \in 0..3 : u <= 3
      OBVIOUS
    <3> WITNESS 3 \in 0..3
    <3> QED BY <1>1, <2>1, <3>1
  <2>2. CASE ~(total >= Gold) /\ total >= Silver
    <3> WITNESS 2 \in 0..3
    <3> QED BY <1>1, <1>2, <2>2
  <2>3. CASE ~(total >= Silver) /\ total >= Bronze
    <3> WITNESS 1 \in 0..3
    <3> QED BY <1>1, <1>2, <2>3
  <2>4. CASE ~(total >= Bronze)
    <3> WITNESS 0 \in 0..3
    <3> QED BY <1>1, <1>2, <2>4
  <2> QED BY <2>1, <2>2, <2>3, <2>4
<1> QED BY <1>3 DEF Earned

\* The first state has no proofs, empty summaries and no tier.
LEMMA CampaignFromTheStart ==
    ASSUME CampaignInit
    PROVE  SummariesAgree /\ TiersBacked
<1>1. DOMAIN proofs = {} /\ \A a : ProofsOf(a) = {}
  BY DEF CampaignInit, Init, ProofsOf
<1>2. SumOf(Proven, {}) = 0 /\ Cardinality({}) = 0
  BY SumEmpty, FS_EmptySet
<1>3. summary = [a \in Addresses |-> [total |-> 0, count |-> 0]]
  BY DEF CampaignInit, Init
<1>4. SummariesAgree
  BY <1>1, <1>2, <1>3 DEF SummariesAgree
<1>5. TiersBacked
  <2>1. Threshold[0] = 0
    BY DEF Threshold
  <2>2. tier = [a \in Accounts |-> 0]
    BY DEF CampaignInit
  <2>3. \A a \in Accounts : summary[a].total = 0
    BY <1>3, OwnAddresses
  <2> QED BY <2>1, <2>2, <2>3 DEF TiersBacked
<1> QED BY <1>4, <1>5

\* Nothing but a claim writes a proof or a summary.
LEMMA OnlyClaimsWriteSummaries ==
    ASSUME [Next]_vars
    PROVE  ClaimStep \/ UNCHANGED <<proofs, summary>>
BY DEF Next, ClaimStep, BatteryStep, TicketStep, RedeemToBattery, Deposit, Forward, claimVars,
       vars, Withdraw

\* claim_tier grants what the summary has reached, and no step takes from it.
LEMMA CampaignKeepsTiers ==
    ASSUME BurnsTyped, GuardsAgree, SummariesAgree, TiersBacked, [CampaignNext]_campaignVars
    PROVE  SummariesAgree' /\ TiersBacked'
<1>1. \A a \in Accounts : a \in Addresses /\ summary[a].total \in Nat
  BY OwnAddresses, ProofsAddUp DEF SummariesAgree
<1>2. CASE ClaimStep /\ tier' = tier
  <2>1. SummariesAgree' /\ \A a \in Addresses : summary'[a].total >= summary[a].total
                                                  /\ summary'[a].total \in Nat
    BY <1>2, ClaimKeepsSummaries
  <2>2. TiersBacked'
    <3> SUFFICES ASSUME NEW a \in Accounts PROVE summary'[a].total >= Threshold[tier[a]]
      BY <1>2 DEF TiersBacked
    <3>1. summary'[a].total >= summary[a].total /\ summary[a].total >= Threshold[tier[a]]
      BY <1>1, <2>1 DEF TiersBacked
    <3>2. Threshold[tier[a]] \in Nat
      BY TiersAscend DEF TiersBacked, Threshold
    <3>3. summary'[a].total \in Nat
      BY <1>1, <2>1
    <3> QED BY <1>1, <3>1, <3>2, <3>3
  <2> QED BY <2>1, <2>2
<1>3. CASE UNCHANGED <<proofs, summary, tier>>
  BY <1>3 DEF SummariesAgree, TiersBacked, Proven, ProofsOf
<1>4. CASE \E owner \in Accounts : ClaimTier(owner) /\ UNCHANGED <<vars, stampVars>>
  <2>1. PICK owner \in Accounts : ClaimTier(owner) /\ UNCHANGED <<vars, stampVars>>
    BY <1>4
  <2>2. UNCHANGED <<proofs, summary>>
    BY <2>1 DEF vars, claimVars
  <2>3. SummariesAgree'
    BY <2>2 DEF SummariesAgree, Proven, ProofsOf
  <2> DEFINE total == summary[owner].total
  <2>4. Earned(total) \in 0..3 /\ total >= Threshold[Earned(total)]
    BY <1>1, EarnedIsReached
  <2>5. tier' = [tier EXCEPT ![owner] = Granted(owner)]
    BY <2>1 DEF ClaimTier
  <2>6. Granted(owner) \in 0..3 /\ total >= Threshold[Granted(owner)]
    BY <2>4 DEF Granted, TiersBacked
  <2>7. TiersBacked'
    BY <2>2, <2>5, <2>6 DEF TiersBacked
  <2> QED BY <2>3, <2>7
<1>5. CASE \E owner \in Accounts : Stamp(owner) /\ UNCHANGED <<vars, tierVars>>
  BY <1>3, <1>5 DEF vars, claimVars, tierVars
<1>6. CASE Next /\ UNCHANGED <<tierVars, stampVars>>
  BY <1>2, <1>3, <1>6, OnlyClaimsWriteSummaries DEF tierVars
<1>7. CASE UNCHANGED campaignVars
  BY <1>3, <1>7 DEF campaignVars, vars, claimVars, tierVars
<1> QED BY <1>4, <1>5, <1>6, <1>7 DEF CampaignNext

-----------------------------------------------------------------------------
(* The theorems.                                                           *)

\* What the books say of money and of owners.
LEMMA BooksPayAndName == Books => OwedIsHeld /\ IndexNamesOwners
BY DEF Books, TicketBooks, OwedIsHeld

\* OwedIsHeld: through claims, splits, transfers, redemptions, deposits,
\* withdrawals and forwarded calls in any order, the vault holds what its live
\* tickets are worth and the battery what its owners were credited.
THEOREM WhatIsOwedIsHeld == Spec => []OwedIsHeld
<1>1. Init => Books /\ BurnsTyped /\ GuardsAgree /\ NoncesSpent
  BY InitHolds, BooksFromTheStart
<1>2. Books /\ BurnsTyped /\ GuardsAgree /\ NoncesSpent /\ [Next]_vars
        => (Books /\ BurnsTyped /\ GuardsAgree /\ NoncesSpent)'
  BY StepHolds, StepKeepsBooks
<1>3. Books => OwedIsHeld
  BY BooksPayAndName
<1> QED BY <1>1, <1>2, <1>3, PTL DEF Spec

\* IndexNamesOwners: the list of an owner names the live tickets of that owner
\* once each and nothing else, also where a ticket is given to its own holder
\* and where a split stores the parts before it burns the whole.
THEOREM ListsNameOwners == Spec => []IndexNamesOwners
<1>1. Init => Books /\ BurnsTyped /\ GuardsAgree /\ NoncesSpent
  BY InitHolds, BooksFromTheStart
<1>2. Books /\ BurnsTyped /\ GuardsAgree /\ NoncesSpent /\ [Next]_vars
        => (Books /\ BurnsTyped /\ GuardsAgree /\ NoncesSpent)'
  BY StepHolds, StepKeepsBooks
<1>3. Books => IndexNamesOwners
  BY BooksPayAndName
<1> QED BY <1>1, <1>2, <1>3, PTL DEF Spec

\* The contracts beside Gate 2 change nothing of it, so that everything proved
\* of Gate 2 alone holds next to them.
THEOREM CampaignRefinesGate2 == CampaignSpec => Spec
<1>1. CampaignInit => Init
  BY DEF CampaignInit
<1>2. [CampaignNext]_campaignVars => [Next]_vars
  BY DEF CampaignNext, campaignVars
<1> QED BY <1>1, <1>2, PTL DEF CampaignSpec, Spec

\* TierIsEarned: the tier anybody holds was reached by the proofs that name them,
\* and the running total the campaign reads is what those proofs add up to.
THEOREM TiersAreEarned == CampaignSpec => []TierIsEarned
<1> DEFINE I == BurnsTyped /\ GuardsAgree /\ NoncesSpent /\ SummariesAgree /\ TiersBacked
<1>1. CampaignInit => I
  BY InitHolds, CampaignFromTheStart DEF CampaignInit
<1>2. I /\ [CampaignNext]_campaignVars => I'
  <2> SUFFICES ASSUME I, [CampaignNext]_campaignVars PROVE I'
    OBVIOUS
  <2>1. [Next]_vars
    BY DEF CampaignNext, campaignVars
  <2>2. BurnsTyped' /\ GuardsAgree' /\ NoncesSpent'
    BY <2>1, StepHolds
  <2>3. SummariesAgree' /\ TiersBacked'
    BY CampaignKeepsTiers
  <2> QED BY <2>2, <2>3
<1>3. I => TierIsEarned
  <2> SUFFICES ASSUME SummariesAgree, TiersBacked PROVE TierIsEarned
    OBVIOUS
  <2> SUFFICES ASSUME NEW a \in Accounts
               PROVE  /\ summary[a] = [total |-> SumOf(Proven, ProofsOf(a)),
                                       count |-> Cardinality(ProofsOf(a))]
                      /\ SumOf(Proven, ProofsOf(a)) >= Threshold[tier[a]]
    BY DEF TierIsEarned
  <2>1. a \in Addresses
    BY OwnAddresses
  <2>2. summary[a] = [total |-> SumOf(Proven, ProofsOf(a)), count |-> Cardinality(ProofsOf(a))]
    BY <2>1 DEF SummariesAgree
  <2>3. summary[a].total = SumOf(Proven, ProofsOf(a))
    BY <2>2
  <2> QED BY <2>2, <2>3 DEF TiersBacked
<1> QED BY <1>1, <1>2, <1>3, PTL DEF CampaignSpec
=============================================================================

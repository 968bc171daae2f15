------------------------- MODULE TonPayments_proofs -------------------------
(***************************************************************************)
(* Proofs about TonPayments, for any set of payments and transactions, any *)
(* page limit, any TTLs with PollTTL >= PendingTTL and any number of faults.*)
(***************************************************************************)
EXTENDS TonPayments, FiniteSetTheorems, WellFoundedInduction, TLAPS

\* Only payments with a row are signed for, and only those are paid.
ChainInv ==
    /\ 1..Len(chain) \subseteq Charge
    /\ \A p \in Payment : status[p] # "none" =>
          createdAt[p] <= clock /\ expiresAt[p] = createdAt[p] + PendingTTL
    /\ \A p \in creating \cup asked : status[p] # "none"
    /\ \A k \in 1..Len(chain) :
          chain[k].memo # NoPayment =>
              /\ chain[k].memo \in asked
              /\ createdAt[chain[k].memo] <= chain[k].at

\* c is the first transfer for p, and settles it as s.
Decides(p, c, s) ==
    /\ c \in 1..indexed
    /\ chain[c].memo = p
    /\ s = IF chain[c].exact THEN "paid" ELSE "mismatch"
    /\ \A k \in 1..(c - 1) : chain[k].memo # p

\* The rows a pass still has to handle are pending and were open at `now`;
\* the row in hand has been decided by a transfer.
PassInv ==
    /\ step = "idle" => todo = {}
    /\ \A p \in todo : status[p] = "pending" /\ expiresAt[p] > now
    /\ step \in {"settle", "reread", "hooks", "notify"} =>
          cur \in Payment \ todo /\ Decides(cur, found, goal)
    /\ step \in {"reread", "hooks", "notify"} => status[cur] = goal
    /\ step \in {"reread", "hooks"} => calls[cur][goal] = 0
    /\ step = "notify" => calls[cur][goal] = 1

SettledInv ==
    \A p \in Payment : status[p] \notin {"none", "pending"} => Decides(p, charge[p], status[p])

IInv ==
    /\ TypeOK
    /\ ChainInv
    /\ PassInv
    /\ SettledInv
    /\ EffectsFollowCommit
-----------------------------------------------------------------------------
\* Any set of naturals that is not empty has a least element.
LEMMA LeastElement ==
    ASSUME NEW S \in SUBSET Nat, S # {}
    PROVE  \E k \in S : \A j \in S : k <= j
<1>1. PICK k \in S : \A j \in S : <<j, k>> \notin OpToRel(<, Nat)
  BY NatLessThanWellFounded, WFMin
<1>2. \A j \in S : k <= j
  <2>. SUFFICES ASSUME NEW j \in S, ~ (k <= j)
                PROVE  FALSE
    OBVIOUS
  <2>1. <<j, k>> \in Nat \X Nat /\ j < k
    OBVIOUS
  <2>2. <<j, k>> \in OpToRel(<, Nat)
    BY <2>1, <<j, k>>[1] = j, <<j, k>>[2] = k, Zenon DEF OpToRel
  <2>. QED
    BY <1>1, <2>2
<1>. QED
  BY <1>2

\* find_by_payload answers nothing, or the first match on the page.
LEMMA FindByPayloadType ==
    ASSUME TypeOK, ChainInv, NEW p \in Payment
    PROVE  \/ FindByPayload(p) = NoCharge
           \/ /\ FindByPayload(p) \in Matches(p)
              /\ \A j \in Matches(p) : FindByPayload(p) <= j
<1>1. CASE Matches(p) = {}
  BY <1>1 DEF FindByPayload
<1>2. CASE Matches(p) # {}
  <2>1. Matches(p) \in SUBSET Nat
    BY DEF Matches, Page, TypeOK
  <2>2. \E k \in Matches(p) : \A j \in Matches(p) : k <= j
    BY <1>2, <2>1, LeastElement
  <2>. QED
    BY <1>2, <2>2 DEF FindByPayload
<1>. QED
  BY <1>1, <1>2

\* The first match on the page is the first transfer for the payment: what
\* precedes a transaction of the page is on the page too, and every transfer
\* for a payment is younger than its row.
LEMMA FindByPayloadDecides ==
    ASSUME TypeOK, ChainInv, NEW p \in Payment, FindByPayload(p) # NoCharge
    PROVE  /\ FindByPayload(p) \in Charge
           /\ Decides(p, FindByPayload(p), Verdict(p, FindByPayload(p)))
<1>. DEFINE k == FindByPayload(p)
            Since == {i \in 1..indexed : chain[i].at >= createdAt[p] - 1}
            UpTo(i) == {j \in Since : j <= i}
<1>. HIDE DEF k
<1>1. k \in Matches(p) /\ \A j \in Matches(p) : k <= j
  BY FindByPayloadType DEF k
<1>2. k \in 1..indexed /\ chain[k].memo = p /\ Cardinality(UpTo(k)) <= PageLimit
  BY <1>1 DEF Matches, Page
<1>3. indexed \in Nat /\ indexed <= Len(chain) /\ Len(chain) \in Nat
  BY DEF TypeOK
<1>4. k \in Charge
  BY <1>2, <1>3 DEF ChainInv
<1>5. ASSUME NEW j \in 1..(k - 1), chain[j].memo = p
      PROVE  FALSE
  <2>1. j \in 1..indexed /\ j \in 1..Len(chain) /\ j < k
    BY <1>2, <1>3
  <2>2. chain[j].at \in Nat /\ createdAt[p] \in Nat
    <3>1. chain[j] \in Transaction
      BY <2>1 DEF TypeOK
    <3>. QED
      BY <3>1 DEF Transaction, TypeOK
  <2>3. createdAt[p] <= chain[j].at
    BY <1>5, <2>1, NoPaymentIsNotAPayment DEF ChainInv
  <2>4. j \in Since
    BY <2>1, <2>2, <2>3
  <2>5. IsFiniteSet(UpTo(k))
    <3>1. IsFiniteSet(1..indexed)
      BY <1>3, FS_Interval
    <3>. QED
      BY <3>1, FS_Subset
  <2>6. UpTo(j) \in SUBSET UpTo(k)
    BY <1>2, <1>3, <2>1
  <2>7. Cardinality(UpTo(j)) <= Cardinality(UpTo(k))
    BY <2>5, <2>6, FS_Subset
  <2>8. /\ Cardinality(UpTo(j)) \in Nat
        /\ Cardinality(UpTo(k)) \in Nat
    BY <2>5, <2>6, FS_Subset, FS_CardinalityType
  <2>9. Cardinality(UpTo(j)) <= PageLimit
    BY <1>2, <2>7, <2>8, BoundsType
  <2>10. j \in Matches(p)
    BY <1>5, <2>4, <2>9 DEF Matches, Page
  <2>. QED
    BY <1>1, <1>3, <2>1, <2>10
<1>6. Verdict(p, k) = IF chain[k].exact THEN "paid" ELSE "mismatch"
  BY <1>4, NoChargeIsNotACharge DEF Verdict
<1>. QED
  BY <1>2, <1>4, <1>5, <1>6 DEF Decides, k
-----------------------------------------------------------------------------
\* A fault stays within its bound.
LEMMA FaultType ==
    ASSUME faults \in 0..MaxFaults, Fault
    PROVE  faults' \in 0..MaxFaults
BY BoundsType DEF Fault

\* The verdict on a row of the pass is never "expired": the pass selected it
\* because its window was still open.
LEMMA VerdictType ==
    ASSUME TypeOK, ChainInv, PassInv, NEW p \in todo, NEW k
    PROVE  Verdict(p, k) \in {"paid", "mismatch", "none"}
<1>1. /\ p \in Payment
      /\ expiresAt[p] = createdAt[p] + PendingTTL
      /\ expiresAt[p] > now
      /\ createdAt[p] \in Nat
      /\ now \in Nat
  <2>1. p \in Payment /\ status[p] = "pending" /\ expiresAt[p] > now
    BY DEF TypeOK, PassInv
  <2>2. expiresAt[p] = createdAt[p] + PendingTTL
    BY <2>1 DEF ChainInv
  <2>. QED
    BY <2>1, <2>2, BoundsType DEF TypeOK
<1>2. ~ WindowClosed(p)
  BY <1>1, TTLType, PollTTLCovers DEF WindowClosed
<1>. QED
  BY <1>2 DEF Verdict

\* What a pass decides about a row: nothing, or what its first transfer says.
LEMMA DecideType ==
    ASSUME IInv, NEW p \in Payment, Lookup(p) \/ LookupFails(p)
    PROVE  /\ p \in todo /\ step = "next"
           /\ todo' = todo \ {p}
           /\ cur' = p
           /\ UNCHANGED <<clock, rowVars, walletVars, chainVars, now, effectVars>>
           /\ faults' \in 0..MaxFaults
           /\ found' \in Charge \cup {NoCharge}
           /\ \/ step' = "next" /\ goal' = "none"
              \/ step' = "settle" /\ goal' \in {"paid", "mismatch"} /\ Decides(p, found', goal')
<1>1. CASE Lookup(p)
  <2>1. Decide(p, FindByPayload(p)) /\ UNCHANGED faults
    BY <1>1 DEF Lookup
  <2>2. p \in todo /\ Verdict(p, FindByPayload(p)) \in {"paid", "mismatch", "none"}
    BY <2>1, VerdictType DEF Decide, IInv
  <2>3. CASE FindByPayload(p) = NoCharge
    <3>1. Verdict(p, FindByPayload(p)) = "none"
      BY <2>2, <2>3 DEF Verdict
    <3>. QED
      BY <2>1, <2>3, <3>1 DEF Decide, IInv, TypeOK
  <2>4. CASE FindByPayload(p) # NoCharge
    <3>1. /\ FindByPayload(p) \in Charge
          /\ Decides(p, FindByPayload(p), Verdict(p, FindByPayload(p)))
      BY <2>4, FindByPayloadDecides DEF IInv
    <3>2. Verdict(p, FindByPayload(p)) # "none"
      BY <3>1 DEF Decides
    <3>. QED
      BY <2>1, <2>2, <3>1, <3>2 DEF Decide, IInv, TypeOK
  <2>. QED
    BY <2>3, <2>4
<1>2. CASE LookupFails(p)
  <2>1. Decide(p, NoCharge) /\ Fault
    BY <1>2 DEF LookupFails
  <2>2. p \in todo /\ Verdict(p, NoCharge) \in {"paid", "mismatch", "none"}
    BY <2>1, VerdictType DEF Decide, IInv
  <2>3. Verdict(p, NoCharge) = "none"
    BY <2>2 DEF Verdict
  <2>. QED
    BY <2>1, <2>3, FaultType DEF Decide, IInv, TypeOK
<1>. QED
  BY <1>1, <1>2

-----------------------------------------------------------------------------
\* Type correctness, one lemma per group of actions.
LEMMA TypeInit == ASSUME Init PROVE TypeOK
BY BoundsType DEF Init, TypeOK, TableInit, TableTypeOK, Status, Step

CreateStep(p) == CreateTonRow(p) \/ SendTransaction(p) \/ SendTransactionFails(p)

LEMMA TypeCreate ==
    ASSUME TypeOK, NEW p \in Payment, CreateStep(p)
    PROVE  TypeOK'
<1>1. CASE CreateTonRow(p)
  BY <1>1, TTLType, BoundsType DEF CreateTonRow, CreatePending, TypeOK, TableTypeOK, Status,
     chainVars, passVars, effectVars
<1>2. CASE SendTransaction(p)
  BY <1>2 DEF SendTransaction, TypeOK, TableTypeOK, rowVars, tableVars, chainVars, passVars, effectVars
<1>3. CASE SendTransactionFails(p)
  BY <1>3, FaultType DEF SendTransactionFails, TypeOK, TableTypeOK, rowVars, tableVars, chainVars,
     passVars, effectVars
<1>. QED
  BY <1>1, <1>2, <1>3 DEF CreateStep

OutsideStep ==
    \/ Tick
    \/ \E memo \in Payment \cup {NoPayment}, exact \in BOOLEAN : Transfer(memo, exact)
    \/ Index

LEMMA TypeOutside ==
    ASSUME TypeOK, OutsideStep
    PROVE  TypeOK'
<1>1. CASE Tick
  BY <1>1, BoundsType DEF Tick, TypeOK, TableTypeOK, rowVars, tableVars, walletVars, chainVars,
     passVars, effectVars
<1>2. ASSUME NEW memo \in Payment \cup {NoPayment}, NEW exact \in BOOLEAN, Transfer(memo, exact)
      PROVE  TypeOK'
  <2>. DEFINE tx == [memo |-> memo, exact |-> exact, at |-> clock]
  <2>1. tx \in Transaction
    BY BoundsType DEF Transaction, TypeOK
  <2>2. chain' \in Seq(Transaction) /\ Len(chain') = Len(chain) + 1
    BY <1>2, <2>1 DEF Transfer, TypeOK
  <2>3. indexed' \in 0..Len(chain')
    BY <1>2, <2>2 DEF Transfer, TypeOK
  <2>. QED
    BY <1>2, <2>2, <2>3 DEF Transfer, TypeOK, TableTypeOK, rowVars, tableVars, walletVars,
       passVars, effectVars
<1>3. CASE Index
  BY <1>3 DEF Index, TypeOK, TableTypeOK, rowVars, tableVars, walletVars, passVars, effectVars
<1>. QED
  BY <1>1, <1>2, <1>3 DEF OutsideStep

PassStep == StartPoll \/ StartPollFails \/ PollStep \/ Crash

LEMMA TypePass ==
    ASSUME IInv, PassStep
    PROVE  TypeOK'
<1>. USE DEF IInv
<1>1. CASE StartPoll
  BY <1>1 DEF StartPoll, FindPendingTon, TypeOK, TableTypeOK, rowVars, tableVars, walletVars,
     chainVars, effectVars, Step
<1>2. CASE StartPollFails
  BY <1>2, FaultType DEF StartPollFails, TypeOK, TableTypeOK, rowVars, tableVars, walletVars,
     chainVars, passVars, effectVars
<1>3. CASE EndPoll
  BY <1>3, BoundsType DEF EndPoll, PassForgotten, TypeOK, TableTypeOK, rowVars, tableVars, walletVars,
     chainVars, effectVars, Step
<1>4. ASSUME NEW p \in Payment, Lookup(p) \/ LookupFails(p)
      PROVE  TypeOK'
  BY <1>4, DecideType DEF TypeOK, TableTypeOK, rowVars, tableVars, walletVars, chainVars,
     effectVars, Step, Terminal
<1>5. ASSUME step = "settle", MarkCurrent
      PROVE  TableTypeOK'
  BY <1>5 DEF PassInv, Decides, MarkCurrent, UpdatePending, TypeOK, TableTypeOK, Status, Terminal
<1>6. CASE Settle
  BY <1>5, <1>6 DEF Settle, TypeOK, walletVars, chainVars, passVars, effectVars, Step
<1>7. CASE SettleFails
  BY <1>5, <1>7, FaultType DEF SettleFails, TypeOK, TableTypeOK, tableVars, walletVars, chainVars,
     passVars, effectVars, Step
<1>8. CASE RereadRow \/ RereadRowFails
  BY <1>8, FaultType DEF RereadRow, RereadRowFails, TypeOK, TableTypeOK, rowVars, tableVars,
     walletVars, chainVars, passVars, effectVars, Step
<1>9. CASE InvokeHooks
  <2>1. cur \in Payment /\ goal \in Terminal
    BY <1>9 DEF InvokeHooks, PassInv, Decides, Terminal
  <2>2. calls' \in [Payment -> [Terminal -> Nat]]
    BY <1>9, <2>1 DEF InvokeHooks, TypeOK
  <2>. QED
    BY <1>9, <2>2 DEF InvokeHooks, TypeOK, TableTypeOK, rowVars, tableVars, walletVars, chainVars,
       passVars, Step
<1>10. CASE NotifyUser
  <2>1. cur \in Payment /\ goal \in Terminal
    BY <1>10 DEF NotifyUser, PassInv, Decides, Terminal
  <2>. QED
    BY <1>10, <2>1 DEF NotifyUser, TypeOK, TableTypeOK, rowVars, tableVars, walletVars, chainVars,
       passVars, Step
<1>11. CASE Crash
  BY <1>11, FaultType, BoundsType DEF Crash, PassForgotten, TypeOK, TableTypeOK, rowVars, tableVars,
     chainVars, effectVars, Step
<1>. QED
  BY <1>1, <1>2, <1>3, <1>4, <1>6, <1>7, <1>8, <1>9, <1>10, <1>11 DEF PassStep, PollStep
-----------------------------------------------------------------------------
\* The rest of the invariant, action by action.
LEMMA InvInit == ASSUME Init PROVE IInv
BY TypeInit, TTLType DEF Init, TableInit, IInv, ChainInv, PassInv, SettledInv, EffectsFollowCommit,
   Terminal

LEMMA TypeStutter ==
    ASSUME TypeOK, UNCHANGED vars
    PROVE  TypeOK'
BY DEF TypeOK, TableTypeOK, vars, rowVars, tableVars, walletVars, chainVars, passVars, effectVars

LEMMA TypeNext ==
    ASSUME IInv, [Next]_vars
    PROVE  TypeOK'
BY TypeCreate, TypeOutside, TypePass, TypeStutter
   DEF Next, CreateStep, OutsideStep, PassStep, IInv

\* Outside a pass and create_ton_payment only the clock and the chain move,
\* and they only grow.
LEMMA OutsideGrows ==
    ASSUME TypeOK, OutsideStep
    PROVE  /\ UNCHANGED <<rowVars, walletVars, step, passVars, effectVars>>
           /\ clock <= clock' /\ indexed <= indexed'
           /\ \A k \in 1..Len(chain) : chain'[k] = chain[k]
<1>. /\ clock \in Nat /\ indexed \in Nat /\ Len(chain) \in Nat /\ chain \in Seq(Transaction)
  BY BoundsType DEF TypeOK
<1>1. CASE Tick
  BY <1>1 DEF Tick, chainVars
<1>2. ASSUME NEW memo \in Payment \cup {NoPayment}, NEW exact \in BOOLEAN, Transfer(memo, exact)
      PROVE  /\ UNCHANGED <<rowVars, walletVars, step, passVars, effectVars>>
             /\ clock <= clock' /\ indexed <= indexed'
             /\ \A k \in 1..Len(chain) : chain'[k] = chain[k]
  BY <1>2 DEF Transfer, Transaction
<1>3. CASE Index
  BY <1>3 DEF Index
<1>. QED
  BY <1>1, <1>2, <1>3 DEF OutsideStep

\* A transfer that decides a payment still does when the chain has grown.
LEMMA DecidesKept ==
    ASSUME TypeOK, TypeOK', NEW p, NEW c, NEW s, Decides(p, c, s), OutsideStep
    PROVE  Decides(p, c, s)'
<1>1. c \in 1..Len(chain) /\ Len(chain) \in Nat /\ indexed \in Nat /\ indexed' \in Nat
  <2>1. Len(chain) \in Nat /\ indexed \in 0..Len(chain)
    BY DEF TypeOK
  <2>2. indexed' \in Nat
    BY DEF TypeOK
  <2>. QED
    BY <2>1, <2>2 DEF Decides
<1>2. indexed <= indexed' /\ \A k \in 1..Len(chain) : chain'[k] = chain[k]
  BY OutsideGrows
<1>3. c \in 1..indexed'
  BY <1>1, <1>2 DEF Decides
<1>4. chain'[c] = chain[c] /\ \A k \in 1..(c - 1) : chain'[k] = chain[k]
  BY <1>1, <1>2
<1>. QED
  BY <1>3, <1>4 DEF Decides

LEMMA InvOutside ==
    ASSUME IInv, OutsideStep
    PROVE  IInv'
<1>. USE DEF IInv
<1>1. TypeOK'
  BY TypeOutside
<1>2. UNCHANGED <<rowVars, walletVars, step, passVars, effectVars>> /\ clock <= clock'
  BY OutsideGrows
<1>3. ChainInv'
  <2>1. /\ 1..Len(chain') \subseteq Charge
        /\ \A k \in 1..Len(chain') :
              chain'[k].memo # NoPayment =>
                  /\ chain'[k].memo \in asked
                  /\ createdAt[chain'[k].memo] <= chain'[k].at
    <3>1. CASE chain' = chain
      BY <3>1 DEF ChainInv
    <3>2. ASSUME NEW memo \in Payment \cup {NoPayment}, NEW exact \in BOOLEAN, Transfer(memo, exact)
          PROVE  <2>1
      <4>. DEFINE tx == [memo |-> memo, exact |-> exact, at |-> clock]
      <4>1. tx \in Transaction
        BY BoundsType DEF Transaction, TypeOK
      <4>2. /\ chain' = Append(chain, tx) /\ Len(chain') = Len(chain) + 1 /\ Len(chain) \in Nat
            /\ chain'[Len(chain) + 1] = tx
            /\ \A k \in 1..Len(chain) : chain'[k] = chain[k]
        BY <3>2, <4>1 DEF Transfer, TypeOK
      <4>3. memo # NoPayment => memo \in asked /\ memo \in Payment /\ createdAt[memo] <= clock
        BY <3>2, NoPaymentIsNotAPayment DEF Transfer, ChainInv, TypeOK
      <4>4. Len(chain) + 1 \in Charge
        BY <3>2 DEF Transfer
      <4>5. \A k \in 1..Len(chain') : k \in 1..Len(chain) \/ k = Len(chain) + 1
        BY <4>2
      <4>. QED
        BY <4>2, <4>3, <4>4, <4>5 DEF ChainInv
    <3>. QED
      BY <3>1, <3>2 DEF OutsideStep, Tick, Index, chainVars
  <2>2. \A p \in Payment : createdAt[p] <= clock => createdAt[p] <= clock'
    BY <1>1, <1>2, BoundsType DEF TypeOK
  <2>. QED
    BY <1>2, <2>1, <2>2 DEF ChainInv, rowVars, tableVars, walletVars
<1>4. PassInv'
  BY <1>1, <1>2, DecidesKept DEF PassInv, rowVars, tableVars, passVars, effectVars
<1>5. SettledInv'
  BY <1>1, <1>2, DecidesKept DEF SettledInv, rowVars, tableVars
<1>6. EffectsFollowCommit'
  BY <1>2 DEF EffectsFollowCommit, rowVars, tableVars, effectVars
<1>. QED
  BY <1>1, <1>3, <1>4, <1>5, <1>6

LEMMA InvCreate ==
    ASSUME IInv, NEW p \in Payment, CreateStep(p)
    PROVE  IInv'
<1>. USE DEF IInv
<1>1. TypeOK'
  BY TypeCreate
<1>2. CASE CreateTonRow(p)
  <2>1. /\ status[p] = "none" /\ status' = [status EXCEPT ![p] = "pending"]
        /\ createdAt' = [createdAt EXCEPT ![p] = clock]
        /\ expiresAt' = [expiresAt EXCEPT ![p] = clock + PendingTTL]
        /\ creating' = creating \cup {p}
        /\ UNCHANGED <<clock, charge, asked, chain, indexed, step, now, todo, cur, goal, found, calls, told>>
    BY <1>2 DEF CreateTonRow, CreatePending, chainVars, passVars, effectVars
  <2>2. clock \in Nat
    BY BoundsType DEF TypeOK
  <2>3. ChainInv'
    <3>1. /\ createdAt' \in [Payment -> Nat] /\ createdAt'[p] = clock /\ expiresAt'[p] = clock + PendingTTL
          /\ status'[p] = "pending"
          /\ \A q \in Payment \ {p} : /\ createdAt'[q] = createdAt[q]
                                      /\ expiresAt'[q] = expiresAt[q]
                                      /\ status'[q] = status[q]
      BY <2>1, <2>2 DEF TypeOK, TableTypeOK
    <3>2. p \notin asked /\ creating \cup asked \subseteq Payment
      BY <2>1 DEF ChainInv, TypeOK
    <3>3. \A q \in Payment : status'[q] # "none" =>
             createdAt'[q] <= clock /\ expiresAt'[q] = createdAt'[q] + PendingTTL
      BY <2>2, <3>1 DEF ChainInv
    <3>4. \A q \in creating' \cup asked : status'[q] # "none"
      BY <2>1, <3>1, <3>2 DEF ChainInv
    <3>5. \A k \in 1..Len(chain) : chain[k].memo # NoPayment =>
             chain[k].memo \in asked /\ createdAt'[chain[k].memo] <= chain[k].at
      BY <3>1, <3>2 DEF ChainInv
    <3>. QED
      BY <2>1, <3>3, <3>4, <3>5 DEF ChainInv
  <2>4. p \notin todo /\ (step \in {"settle", "reread", "hooks", "notify"} => goal # "none")
    BY <2>1 DEF PassInv, Decides
  <2>5. PassInv'
    <3>1. \A q \in Payment \ {p} : status'[q] = status[q] /\ expiresAt'[q] = expiresAt[q]
      BY <2>1 DEF TypeOK, TableTypeOK
    <3>2. \A q \in todo : q # p /\ q \in Payment
      BY <2>4 DEF TypeOK
    <3>3. step \in {"reread", "hooks", "notify"} => status'[cur] = goal
      <4>1. SUFFICES ASSUME step \in {"reread", "hooks", "notify"} PROVE status'[cur] = goal
        OBVIOUS
      <4>2. cur \in Payment /\ status[cur] = goal /\ goal \in {"paid", "mismatch"}
        BY <4>1 DEF PassInv, Decides
      <4>. QED
        BY <2>1, <3>1, <4>2
    <3>. QED
      BY <2>1, <3>1, <3>2, <3>3 DEF PassInv, Decides
  <2>6. SettledInv'
    BY <2>1 DEF SettledInv, Decides, TypeOK, TableTypeOK
  <2>7. EffectsFollowCommit'
    BY <2>1 DEF EffectsFollowCommit, TypeOK, TableTypeOK, Terminal
  <2>. QED
    BY <1>1, <2>3, <2>5, <2>6, <2>7
<1>3. CASE SendTransaction(p) \/ SendTransactionFails(p)
  BY <1>1, <1>3 DEF SendTransaction, SendTransactionFails, ChainInv, PassInv, SettledInv, Decides,
     EffectsFollowCommit, rowVars, tableVars, chainVars, passVars, effectVars
<1>. QED
  BY <1>2, <1>3 DEF CreateStep

LEMMA InvStart ==
    ASSUME IInv, StartPoll \/ StartPollFails \/ EndPoll \/ Crash
    PROVE  IInv'
<1>. USE DEF IInv
<1>1. TypeOK'
  BY TypePass DEF PassStep, PollStep
<1>2. UNCHANGED <<clock, rowVars, asked, chainVars, effectVars>> /\ creating' \subseteq creating
  BY DEF StartPoll, StartPollFails, EndPoll, Crash, walletVars
<1>3. ChainInv'
  BY <1>2 DEF ChainInv, rowVars, tableVars, chainVars
<1>4. PassInv'
  BY <1>2 DEF StartPoll, FindPendingTon, StartPollFails, EndPoll, PassForgotten, Crash, PassInv, Decides,
     rowVars, tableVars, chainVars, passVars, effectVars
<1>5. SettledInv' /\ EffectsFollowCommit'
  BY <1>2 DEF SettledInv, Decides, EffectsFollowCommit, rowVars, tableVars, chainVars, effectVars
<1>. QED
  BY <1>1, <1>3, <1>4, <1>5

LEMMA InvDecide ==
    ASSUME IInv, NEW p \in Payment, Lookup(p) \/ LookupFails(p)
    PROVE  IInv'
<1>. USE DEF IInv
<1>1. TypeOK'
  BY TypePass DEF PassStep, PollStep
<1>2. /\ UNCHANGED <<clock, status, charge, createdAt, expiresAt, creating, asked, chain, indexed,
                     now, calls, told>>
      /\ todo' = todo \ {p} /\ cur' = p
      /\ \/ step' = "next"
         \/ step' = "settle" /\ Decides(p, found', goal')
  BY DecideType DEF rowVars, tableVars, walletVars, chainVars, effectVars
<1>3. ChainInv'
  BY <1>2 DEF ChainInv
<1>4. PassInv'
  BY <1>2 DEF PassInv, Decides
<1>5. SettledInv' /\ EffectsFollowCommit'
  BY <1>2 DEF SettledInv, Decides, EffectsFollowCommit
<1>. QED
  BY <1>1, <1>3, <1>4, <1>5

\* The one step that writes a status: the row in hand goes from pending to
\* what its first transfer says, before any callback was called for it.
LEMMA InvMark ==
    ASSUME IInv, MarkCurrent, Settle \/ SettleFails
    PROVE  IInv'
<1>. USE DEF IInv
<1>1. TypeOK'
  BY TypePass DEF PassStep, PollStep
<1>2. /\ step = "settle" /\ cur \in Payment \ todo /\ Decides(cur, found, goal)
      /\ step' = "next" \/ (step' = "reread" /\ Matched(cur))
      /\ UNCHANGED <<clock, createdAt, expiresAt, creating, asked, chain, indexed,
                     now, todo, cur, goal, found, calls, told>>
  BY DEF Settle, SettleFails, PassInv, walletVars, chainVars, passVars, effectVars
<1>3. CASE Matched(cur)
  <2>1. found # NoCharge
    BY <1>2, HashesArePositions DEF Decides, TypeOK
  <2>2. /\ status[cur] = "pending"
        /\ status' = [status EXCEPT ![cur] = goal]
        /\ charge' = [charge EXCEPT ![cur] = found]
    BY <1>3, <2>1 DEF MarkCurrent, UpdatePending, Matched
  <2>3. goal \in {"paid", "mismatch"}
    BY <1>2 DEF Decides
  <2>4. /\ status \in [Payment -> Status] /\ charge \in [Payment -> Charge \cup {NoCharge}]
        /\ creating \subseteq Payment /\ asked \subseteq Payment /\ todo \subseteq Payment
    BY DEF TypeOK, TableTypeOK
  <2>5. ChainInv'
    BY <1>2, <2>2, <2>3, <2>4 DEF ChainInv
  <2>6. \A h \in Terminal : calls[cur][h] = 0
    BY <1>2, <2>2 DEF EffectsFollowCommit, Terminal
  <2>7. told[cur] = "none"
    BY <1>2, <2>2 DEF EffectsFollowCommit, TypeOK, Terminal
  <2>8. PassInv'
    BY <1>2, <2>2, <2>3, <2>4, <2>6 DEF PassInv, Decides, Terminal
  <2>9. SettledInv'
    BY <1>2, <2>2, <2>3, <2>4 DEF SettledInv, Decides
  <2>10. EffectsFollowCommit'
    BY <1>2, <2>2, <2>4, <2>6, <2>7 DEF EffectsFollowCommit
  <2>. QED
    BY <1>1, <2>5, <2>8, <2>9, <2>10
<1>4. CASE ~ Matched(cur)
  <2>1. UNCHANGED <<status, charge>> /\ step' = "next"
    BY <1>2, <1>4 DEF MarkCurrent, UpdatePending, TypeOK, TableTypeOK
  <2>. QED
    BY <1>1, <1>2, <2>1 DEF ChainInv, PassInv, SettledInv, Decides, EffectsFollowCommit
<1>. QED
  BY <1>3, <1>4

\* Steps of the pass that leave the table alone.
LEMMA InvMove ==
    ASSUME IInv, UNCHANGED <<rowVars, clock, walletVars, chainVars, passVars, effectVars>>,
           step' = "next" \/ (step = "reread" /\ step' = "hooks"), PassStep,
           step # "idle"
    PROVE  IInv'
<1>1. TypeOK'
  BY TypePass
<1>. QED
  BY <1>1 DEF IInv, ChainInv, PassInv, SettledInv, Decides, EffectsFollowCommit, rowVars, tableVars,
     walletVars, chainVars, passVars, effectVars

LEMMA InvEffects ==
    ASSUME IInv, InvokeHooks \/ NotifyUser
    PROVE  IInv'
<1>. USE DEF IInv
<1>1. TypeOK'
  BY TypePass DEF PassStep, PollStep
<1>2. /\ cur \in Payment /\ status[cur] = goal /\ goal \in Terminal
      /\ Decides(cur, found, goal)
      /\ UNCHANGED <<clock, status, charge, createdAt, expiresAt, creating, asked, chain, indexed,
                     now, todo, cur, goal, found>>
  BY DEF InvokeHooks, NotifyUser, PassInv, Decides, Terminal, rowVars, tableVars, walletVars,
     chainVars, passVars
<1>3. ChainInv' /\ SettledInv'
  BY <1>2 DEF ChainInv, SettledInv, Decides
<1>4. CASE InvokeHooks
  <2>1. /\ calls' = [calls EXCEPT ![cur][goal] = 1]
        /\ calls[cur][goal] = 0 /\ step' = "notify" /\ step = "hooks" /\ told' = told
    <3>1. calls[cur][goal] = 0 /\ step' = "notify" /\ step = "hooks" /\ told' = told
      BY <1>4 DEF InvokeHooks, PassInv
    <3>2. calls' = [calls EXCEPT ![cur] = [calls[cur] EXCEPT ![goal] = calls[cur][goal] + 1]]
      BY <1>4 DEF InvokeHooks
    <3>. QED
      BY <3>1, <3>2
  <2>2. calls \in [Payment -> [Terminal -> Nat]]
    BY DEF TypeOK
  <2>3. told[cur] = "none"
    BY <1>2, <2>1 DEF EffectsFollowCommit
  <2>4. PassInv'
    BY <1>2, <2>1, <2>2 DEF PassInv, Decides
  <2>5. EffectsFollowCommit'
    BY <1>2, <2>1, <2>2, <2>3 DEF EffectsFollowCommit
  <2>. QED
    BY <1>1, <1>3, <2>4, <2>5
<1>5. CASE NotifyUser
  <2>1. /\ calls[cur][goal] = 1 /\ calls' = calls /\ step = "notify" /\ step' = "next"
        /\ told' = [told EXCEPT ![cur] = goal] \/ told' = told
    BY <1>5 DEF NotifyUser, PassInv
  <2>2. told \in [Payment -> Terminal \cup {"none"}]
    BY DEF TypeOK
  <2>3. PassInv'
    BY <1>2, <2>1 DEF PassInv, Decides
  <2>4. EffectsFollowCommit'
    BY <1>2, <2>1, <2>2 DEF EffectsFollowCommit
  <2>. QED
    BY <1>1, <1>3, <2>3, <2>4
<1>. QED
  BY <1>4, <1>5

LEMMA InvStutter == ASSUME IInv, UNCHANGED vars PROVE IInv'
BY TypeStutter DEF IInv, ChainInv, PassInv, SettledInv, Decides, EffectsFollowCommit, vars, rowVars,
   tableVars, walletVars, chainVars, passVars, effectVars

LEMMA InvNext ==
    ASSUME IInv, [Next]_vars
    PROVE  IInv'
<1>1. CASE OutsideStep
  BY <1>1, InvOutside
<1>2. ASSUME NEW p \in Payment, CreateStep(p)
      PROVE  IInv'
  BY <1>2, InvCreate
<1>3. CASE StartPoll \/ StartPollFails \/ EndPoll \/ Crash
  BY <1>3, InvStart
<1>4. ASSUME NEW p \in Payment, Lookup(p) \/ LookupFails(p)
      PROVE  IInv'
  BY <1>4, InvDecide
<1>5. CASE Settle
  BY <1>5, InvMark DEF Settle
<1>6. CASE SettleFails
  <2>1. CASE UNCHANGED tableVars
    BY <1>6, <2>1, InvMove DEF SettleFails, PassStep, PollStep, rowVars
  <2>2. CASE MarkCurrent
    BY <1>6, <2>2, InvMark
  <2>. QED
    BY <1>6, <2>1, <2>2 DEF SettleFails
<1>7. CASE RereadRow \/ RereadRowFails
  BY <1>7, InvMove DEF RereadRow, RereadRowFails, PassStep, PollStep
<1>8. CASE InvokeHooks \/ NotifyUser
  BY <1>8, InvEffects
<1>9. CASE UNCHANGED vars
  BY <1>9, InvStutter
<1>. QED
  BY <1>1, <1>2, <1>3, <1>4, <1>5, <1>6, <1>7, <1>8, <1>9
     DEF Next, CreateStep, OutsideStep, PollStep

LEMMA Invariant == Spec => []IInv
<1>1. Init => IInv
  BY InvInit
<1>2. IInv /\ [Next]_vars => IInv'
  BY InvNext
<1>. QED
  BY <1>1, <1>2, PTL DEF Spec

-----------------------------------------------------------------------------
\* Every reachable state is well-typed: the poller never writes a status or a
\* transaction that does not exist.
THEOREM TypeCorrect == Spec => []TypeOK
<1>1. IInv => TypeOK
  BY DEF IInv
<1>. QED
  BY <1>1, Invariant, PTL

\* A settled payment was decided by the first transfer that carried its
\* comment, whatever was indexed when, and whichever pages were read.
THEOREM FirstTransferRules == Spec => []FirstTransferDecides
<1>1. IInv => FirstTransferDecides
  BY DEF IInv, SettledInv, Decides, FirstTransferDecides
<1>. QED
  BY <1>1, Invariant, PTL

\* Callbacks and the notice follow the commit, once, across failures and
\* crashes at every await of the pass.
THEOREM CommitFirst == Spec => []EffectsFollowCommit
<1>1. IInv => EffectsFollowCommit
  BY DEF IInv
<1>. QED
  BY <1>1, Invariant, PTL

-----------------------------------------------------------------------------
\* Every step of the detailed model is a step of the ledger or a stutter.
LEMMA StepImplementsLedger ==
    ASSUME IInv, [Next]_vars
    PROVE  [Ledger!Next]_(Ledger!vars)
<1>. USE DEF Ledger!vars
<1>0. /\ status \in [Payment -> Status] /\ calls \in [Payment -> [Terminal -> Nat]]
  BY DEF IInv, TypeOK, TableTypeOK
<1>1. ASSUME NEW p \in Payment, CreateTonRow(p)
      PROVE  Ledger!Next
  <2>1. Ledger!Open(p)
    BY <1>1 DEF CreateTonRow, CreatePending, effectVars, Ledger!Open
  <2>. QED
    BY <2>1 DEF Ledger!Next
<1>2. CASE MarkCurrent /\ (Settle \/ SettleFails)
  <2>1. cur \in Payment /\ goal \in Terminal /\ calls' = calls
    BY <1>2 DEF IInv, PassInv, Decides, Settle, SettleFails, effectVars, Terminal
  <2>2. CASE status[cur] = "pending"
    <3>1. Ledger!Settle(cur, goal)
      BY <1>2, <2>1, <2>2 DEF MarkCurrent, UpdatePending, Matched, Ledger!Settle
    <3>. QED
      BY <2>1, <3>1 DEF Ledger!Next
  <2>3. CASE status[cur] # "pending"
    <3>1. status' = status
      BY <1>0, <1>2, <2>1, <2>3 DEF MarkCurrent, UpdatePending, Matched
    <3>. QED
      BY <2>1, <3>1
  <2>. QED
    BY <2>2, <2>3
<1>3. CASE InvokeHooks
  <2>1. /\ cur \in Payment /\ goal \in Terminal /\ status[cur] = goal /\ calls[cur][goal] = 0
    BY <1>3 DEF IInv, PassInv, Decides, InvokeHooks, Terminal
  <2>2. /\ calls' = [calls EXCEPT ![cur] = [calls[cur] EXCEPT ![goal] = calls[cur][goal] + 1]]
        /\ status' = status
    BY <1>3 DEF InvokeHooks, rowVars, tableVars
  <2>3. calls' = [calls EXCEPT ![cur][goal] = 1]
    BY <2>1, <2>2
  <2>4. Ledger!Call(cur, goal)
    BY <2>1, <2>2, <2>3 DEF Ledger!Call
  <2>. QED
    BY <2>1, <2>4 DEF Ledger!Next
<1>4. ASSUME UNCHANGED <<status, calls>>
      PROVE  [Ledger!Next]_(Ledger!vars)
  BY <1>4
<1>5. CASE OutsideStep
  BY <1>4, <1>5, OutsideGrows DEF IInv, rowVars, tableVars, effectVars
<1>6. ASSUME NEW p \in Payment, SendTransaction(p) \/ SendTransactionFails(p)
      PROVE  [Ledger!Next]_(Ledger!vars)
  BY <1>4, <1>6 DEF SendTransaction, SendTransactionFails, rowVars, tableVars, effectVars
<1>7. CASE StartPoll \/ StartPollFails \/ EndPoll \/ Crash
  BY <1>4, <1>7 DEF StartPoll, StartPollFails, EndPoll, Crash, rowVars, tableVars, effectVars
<1>8. ASSUME NEW p \in Payment, Lookup(p) \/ LookupFails(p)
      PROVE  [Ledger!Next]_(Ledger!vars)
  BY <1>4, <1>8, DecideType DEF rowVars, tableVars, effectVars
<1>9. CASE (Settle \/ SettleFails) /\ ~ MarkCurrent
  BY <1>4, <1>9 DEF Settle, SettleFails, tableVars, effectVars
<1>10. CASE RereadRow \/ RereadRowFails \/ NotifyUser
  BY <1>4, <1>10 DEF RereadRow, RereadRowFails, NotifyUser, rowVars, tableVars, effectVars
<1>11. CASE UNCHANGED vars
  BY <1>4, <1>11 DEF vars, rowVars, tableVars, effectVars
<1>. QED
  BY <1>1, <1>2, <1>3, <1>5, <1>6, <1>7, <1>8, <1>9, <1>10, <1>11
     DEF Next, OutsideStep, PollStep

\* create_ton_payment and the poller implement the ledger: a payment settles
\* once, and the callback of its status is called at most once, after it.
THEOREM RefinesLedger == Spec => ImplementsLedger
<1>1. Init => Ledger!Init
  BY DEF Init, TableInit, Ledger!Init
<1>2. IInv /\ [Next]_vars => [Ledger!Next]_(Ledger!vars)
  BY StepImplementsLedger
<1>. QED
  BY <1>1, <1>2, Invariant, PTL DEF Spec, ImplementsLedger, Ledger!Spec
-----------------------------------------------------------------------------
(* Why the run ton_expiry finds a row that is never marked expired, although *)
(* the poller's docstring says so: not a matter of the run's constants.      *)

NoRowExpires == \A p \in Payment : status[p] # "expired"

\* No fairness, timing or number of faults makes _process_ton_payment take its
\* expiry branch, unless the poller's TTL is shorter than the one
\* create_ton_payment stamps: find_pending_ton selects a row only while it is
\* open, on the same reading of the clock.
THEOREM ExpiryBranchIsDead == Spec => []NoRowExpires
<1>1. IInv => NoRowExpires
  BY DEF IInv, SettledInv, Decides, NoRowExpires
<1>. QED
  BY <1>1, Invariant, PTL

InPass(p) == p \in todo \/ (cur = p /\ step \in {"settle", "reread", "hooks", "notify"})

\* The rows that no pass comes back to: a transfer indexed after the window
\* closed is never noticed, and the user never told.
ClosedRowIsStuck ==
    [][\A p \in Payment :
        status[p] = "pending" /\ expiresAt[p] <= clock /\ ~InPass(p)
            => status'[p] = "pending" /\ ~InPass(p)']_vars

\* Whatever happens, a pending row whose window closed outside a pass is
\* never selected again and stays pending.
THEOREM ClosedRowsAreStuck == Spec => ClosedRowIsStuck
<1>. DEFINE Closed(p) == status[p] = "pending" /\ expiresAt[p] <= clock /\ ~InPass(p)
            Stays(p) == status'[p] = "pending" /\ ~InPass(p)'
<1>1. ASSUME IInv, [Next]_vars, NEW p \in Payment, Closed(p)
      PROVE  Stays(p)
  <2>. USE DEF InPass
  <2>0. expiresAt[p] \in Nat /\ clock \in Nat /\ status \in [Payment -> Status]
    BY <1>1, BoundsType DEF IInv, TypeOK, TableTypeOK
  <2>1. CASE OutsideStep
    BY <1>1, <2>1, OutsideGrows DEF IInv, rowVars, tableVars, passVars
  <2>2. ASSUME NEW q \in Payment, CreateStep(q)
        PROVE  Stays(p)
    BY <1>1, <2>0, <2>2 DEF CreateStep, CreateTonRow, CreatePending, SendTransaction,
       SendTransactionFails, rowVars, tableVars, passVars
  <2>3. CASE StartPoll
    BY <1>1, <2>0, <2>3 DEF StartPoll, FindPendingTon, rowVars, tableVars
  <2>4. CASE StartPollFails \/ EndPoll \/ Crash
    BY <1>1, <2>4 DEF StartPollFails, EndPoll, Crash, PassForgotten, rowVars, tableVars, passVars
  <2>5. ASSUME NEW q \in Payment, Lookup(q) \/ LookupFails(q)
        PROVE  Stays(p)
    BY <1>1, <2>5, DecideType DEF rowVars, tableVars
  <2>6. CASE Settle \/ SettleFails
    <3>1. step = "settle" /\ p # cur
      BY <1>1, <2>6 DEF Settle, SettleFails
    <3>2. UNCHANGED <<todo, cur>> /\ (MarkCurrent \/ UNCHANGED status)
      BY <2>6 DEF Settle, SettleFails, passVars, tableVars
    <3>. QED
      BY <1>1, <2>0, <3>1, <3>2 DEF MarkCurrent, UpdatePending
  <2>7. CASE RereadRow \/ RereadRowFails \/ InvokeHooks \/ NotifyUser
    BY <1>1, <2>7 DEF RereadRow, RereadRowFails, InvokeHooks, NotifyUser, rowVars, tableVars, passVars
  <2>8. CASE UNCHANGED vars
    BY <1>1, <2>8 DEF vars, rowVars, tableVars, passVars
  <2>. QED
    BY <1>1, <2>1, <2>2, <2>3, <2>4, <2>5, <2>6, <2>7, <2>8
       DEF Next, CreateStep, OutsideStep, PollStep
<1>2. IInv /\ [Next]_vars => [\A p \in Payment : Closed(p) => Stays(p)]_vars
  BY <1>1
<1>. QED
  BY <1>2, Invariant, PTL DEF Spec, ClosedRowIsStuck
=============================================================================

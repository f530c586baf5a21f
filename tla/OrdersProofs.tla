---------------------------- MODULE OrdersProofs ----------------------------
(***************************************************************************)
(* Theorems about Orders, for every number of orders, requests, processes, *)
(* errors and crashes.  The argument has two layers: the reference count   *)
(* keeps the entry of a mutex in the map for as long as somebody refers to *)
(* it, so that all requests for an order in one process use one mutex; and *)
(* under that mutex nobody else changes the order between a read and the   *)
(* save that follows it.                                                   *)
(***************************************************************************)
EXTENDS Orders, TLAPS, FiniteSetTheorems

-----------------------------------------------------------------------------
(* The lock. *)

Referring(m) == {h \in Handlers : rcm[h] = m}

Holding(h) == pc[h] \in Critical /\ rcm[h] # NoMutex

\* What a request is about, and whether it uses the lock.
Jobs ==
    \A h \in Handlers :
        /\ pc[h] = "idle" => trade[h] = NoTrade /\ user[h] = NoUser
        /\ pc[h] # "idle" => /\ trade[h] \in Trades
                             /\ event[h] \in EventsOf(gateway[trade[h]])
        /\ pc[h] \in {"idle", "lookup"} => rcm[h] = NoMutex
        /\ pc[h] \in {"lookup", "lock", "release", "create", "increase"} =>
              ~Unlocked(gateway[trade[h]], event[h])
        /\ pc[h] \notin {"idle", "lookup"} =>
              (rcm[h] = NoMutex <=> Unlocked(gateway[trade[h]], event[h]))

\* The entry of an order is the mutex of everybody who refers to one for it.
Entries == \A h \in Handlers : rcm[h] # NoMutex => Entry(h) = rcm[h]

\* Different orders have different mutexes.
Injective ==
    \A n1, n2 \in Nodes, o1, o2 \in Trades :
        orderLocks[n1][o1] = orderLocks[n2][o2] /\ orderLocks[n1][o1] # NoMutex =>
            n1 = n2 /\ o1 = o2

Counted == \A m \in Mutexes : refCount[m] = Cardinality(Referring(m))

Exclusive ==
    /\ \A h \in Handlers : Holding(h) => rcm[h] \in locked
    /\ \A g, h \in Handlers : Holding(g) /\ Holding(h) /\ rcm[g] = rcm[h] => g = h

LockInv == TypeOK /\ Jobs /\ Entries /\ Injective /\ Counted /\ Exclusive

\* Two requests of one process never work on one order at the same time, unless
\* they are of the kinds that do not ask for the lock.
MutualExclusion ==
    \A g, h \in Handlers :
        /\ Holding(g) /\ Holding(h)
        /\ NodeOf[g] = NodeOf[h] /\ trade[g] = trade[h]
        => g = h

-----------------------------------------------------------------------------
(* The credit. *)

\* Users redeem one code at a time, and a wallet order belongs to one request.
Alone ==
    \A h \in Handlers :
        /\ pc[h] # "idle" => (event[h] = "redeem" <=> user[h] # NoUser)
        /\ \A g \in Handlers :
              /\ NodeOf[g] = NodeOf[h] /\ user[g] = user[h] /\ user[h] # NoUser => g = h
              /\ trade[g] = trade[h] /\ pc[h] # "idle" /\ gateway[trade[h]] = "wallet" => g = h

Steps ==
    \A h \in Handlers :
        /\ pc[h] = "increase" => gateway[trade[h]] = "epay" /\ event[h] = "paid"
        /\ pc[h] \in {"create", "refund", "expire"} => event[h] = "buy"

\* What a request knows of the row it is about to save.
Known(h) ==
    /\ pc[h] = "write" /\ event[h] # "void" => credits[trade[h]] = 0
    /\ pc[h] = "write" /\ gateway[trade[h]] \in Guarded => status[trade[h]] = "pending"
    /\ pc[h] = "increase" => credits[trade[h]] = 0 /\ status[trade[h]] = "success"
    /\ pc[h] \in {"lookup", "lock", "create"} /\ event[h] = "buy" =>
          status[trade[h]] = "none"

Reads == \A h \in Handlers : Known(h)

\* An order that waits for its payment was not credited, and another one at most once.
Sound(o) ==
    /\ status[o] \in {"none", "pending"} => credits[o] = 0
    /\ credits[o] <= 1
    /\ credits[o] > 0 /\ gateway[o] \in Guarded => status[o] = "success"

Rows == \A o \in Trades : Sound(o)

Rewarded ==
    /\ rewards > 0 => settled
    /\ \A h \in Handlers : pc[h] = "grant" => settled /\ rewards = 0
    /\ \A g, h \in Handlers : pc[g] = "grant" /\ pc[h] = "grant" => g = h

\* What a wallet purchase has taken and given so far.
Purse(h) ==
    LET o == trade[h]
    IN  /\ pc[h] \in {"read", "write", "refund"} =>
              status[o] = "pending" /\ debit[o] = Price /\ credits[o] = 0
        /\ pc[h] = "expire" => credits[o] = 0 /\ (o \notin unrefunded => debit[o] = 0)
        /\ pc[h] \in {"settle", "grant"} => debit[o] = Price /\ credits[o] = 1
        /\ pc[h] \in {"unlock", "release"} /\ o \notin unrefunded =>
              debit[o] = IF credits[o] = 0 THEN 0 ELSE Price

Purses ==
    crashes = 0 =>
        /\ \A h \in Handlers : pc[h] # "idle" /\ event[h] = "buy" => Purse(h)
        /\ \A o \in Trades : gateway[o] = "wallet" =>
              /\ status[o] = "none" => debit[o] = 0
              /\ Idle(o) /\ o \notin unrefunded => debit[o] = IF credits[o] = 0 THEN 0 ELSE Price

CreditInv == LockInv /\ Alone /\ Steps /\ Reads /\ Rows

-----------------------------------------------------------------------------
(* Constants. *)

LEMMA Numbers ==
    /\ Unit \in Nat /\ Dollars \in Nat /\ Product \in Nat /\ Start \in Nat
    /\ MaxErrors \in Nat /\ MaxCrashes \in Nat /\ Cap \in Nat
BY OrdersAssumption, Zenon

LEMMA PriceType == Price \in Nat
BY Numbers DEF Price

LEMMA WorthType ==
    ASSUME NEW g \in Gateways
    PROVE  Worth(g) \in Nat /\ ManualWorth(g) \in Nat
<1>1. Amount(g) \in Nat /\ Unit \in Nat
  BY Numbers DEF Amount
<1>2. ManualWorth(g) \in Nat
  BY <1>1 DEF ManualWorth
<1>3. Worth(g) \in Nat
  BY Numbers, PriceType DEF Worth
<1> QED BY <1>2, <1>3

LEMMA WorthEpay == Worth("epay") = Price /\ Worth("code") = Price
BY DEF Worth, TopUps

-----------------------------------------------------------------------------
(* Type correctness. *)

LEMMA TypeInit == Init => TypeOK
<1> HAVE Init
<1> USE DEF Init
<1>1. /\ gateway \in [Trades -> Gateways]
      /\ status \in [Trades -> Statuses]
  BY DEF Statuses
<1>2. /\ pc \in [Handlers -> Labels]
      /\ event \in [Handlers -> Events]
      /\ copy \in [Handlers -> Statuses]
  BY DEF Labels, Critical, Events, Statuses
<1>3. /\ quota \in Nat /\ rewards \in Nat /\ owned \in Nat
      /\ errors \in 0 .. MaxErrors
      /\ crashes \in 0 .. MaxCrashes
  BY Numbers
<1>5. settled \in BOOLEAN
  OBVIOUS
<1>4. /\ orderLocks \in [Nodes -> [Trades -> Mutexes \cup {NoMutex}]]
      /\ rcm \in [Handlers -> Mutexes \cup {NoMutex}]
      /\ refCount \in [Mutexes -> Nat]
      /\ locked \subseteq Mutexes
  OBVIOUS
<1> QED BY <1>1, <1>2, <1>3, <1>4, <1>5 DEF TypeOK

\* The row of every type invariant that concerns the requests.
LEMMA AckType ==
    ASSUME TypeOK, NEW o \in Trades, NEW e \in Events, Ack(o, e)
    PROVE  acked' \in [Trades -> SUBSET Events]
BY DEF TypeOK, Ack

LEMMA AnswerType ==
    ASSUME TypeOK, NEW h \in Handlers, trade[h] \in Trades, NEW ok \in BOOLEAN, Answer(h, ok)
    PROVE  acked' \in [Trades -> SUBSET Events]
BY AckType DEF TypeOK, Answer, Events

LEMMA ReceiveType ==
    ASSUME TypeOK, NEW h \in Handlers, NEW o \in Trades, NEW e \in Events,
           NEW u \in Users \cup {NoUser}, Receive(h, o, e, u)
    PROVE  TypeOK'
<1>1. acked' \in [Trades -> SUBSET Events]
  BY AckType DEF TypeOK, Receive
<1> QED
  BY <1>1 DEF TypeOK, Receive, Labels, Critical, dbVars, rowVars, userVars, lockVars, faultVars

LEMMA LockType ==
    ASSUME TypeOK, Jobs, NEW h \in Handlers,
           LockLookup(h) \/ LockAcquire(h) \/ UnlockOrder(h)
    PROVE  TypeOK'
<1> USE DEF TypeOK, Labels, Critical, dbVars, rowVars, userVars, providerVars, jobVars,
            lockVars, faultVars
<1>0. NodeOf[h] \in Nodes
  BY OrdersAssumption
<1>1. CASE LockLookup(h)
  <2> PICK m \in Mutexes :
        /\ orderLocks' = [orderLocks EXCEPT ![NodeOf[h]][trade[h]] = m]
        /\ rcm' = [rcm EXCEPT ![h] = m]
        /\ refCount' = [refCount EXCEPT ![m] = @ + 1]
    BY <1>1 DEF LockLookup
  <2>1. orderLocks' \in [Nodes -> [Trades -> Mutexes \cup {NoMutex}]]
    BY <1>0
  <2>2. rcm' \in [Handlers -> Mutexes \cup {NoMutex}] /\ refCount' \in [Mutexes -> Nat]
    OBVIOUS
  <2> QED BY <1>1, <2>1, <2>2 DEF LockLookup
<1>2. CASE LockAcquire(h)
  <2>1. rcm[h] \in Mutexes
    BY <1>2 DEF LockAcquire, Jobs
  <2> QED BY <1>2, <2>1 DEF LockAcquire
<1>3. CASE UnlockOrder(h)
  <2>1. trade[h] \in Trades
    BY <1>3 DEF UnlockOrder, Jobs
  <2>2. Entry(h) \in Mutexes \cup {NoMutex}
    BY <2>1, <1>0 DEF Entry
  <2> QED BY <1>3, <2>2 DEF UnlockOrder, Forget, Statuses
<1> QED BY <1>1, <1>2, <1>3

LEMMA ReleaseType ==
    ASSUME LockInv, NEW h \in Handlers, Release(h)
    PROVE  TypeOK'
<1>1. rcm[h] \in Mutexes
  BY DEF LockInv, TypeOK, Jobs, Release
<1>2. refCount[rcm[h]] # 0
  <2>1. Referring(rcm[h]) # {} /\ IsFiniteSet(Referring(rcm[h]))
    BY OrdersAssumption, FS_Subset DEF Referring
  <2> QED BY <1>1, <2>1, FS_EmptySet DEF LockInv, Counted
<1>3. refCount' \in [Mutexes -> Nat]
  <2>1. refCount \in [Mutexes -> Nat] /\ refCount' = [refCount EXCEPT ![rcm[h]] = @ - 1]
    BY DEF LockInv, TypeOK, Release
  <2>2. refCount[rcm[h]] \in Nat /\ refCount[rcm[h]] - 1 \in Nat
    BY <1>1, <1>2, <2>1
  <2> QED BY <2>1, <2>2, <1>1
<1>4. NodeOf[h] \in Nodes
  BY OrdersAssumption
<1>5. orderLocks' \in [Nodes -> [Trades -> Mutexes \cup {NoMutex}]]
  BY <1>4 DEF LockInv, TypeOK, Release
<1> QED
  BY <1>3, <1>5 DEF LockInv, TypeOK, Release, Forget, Labels, Critical, Statuses,
     dbVars, rowVars, userVars, providerVars, faultVars

LEMMA CreditType ==
    ASSUME TypeOK, NEW h \in Handlers, trade[h] \in Trades, NEW n \in Nat, Credit(h, n)
    PROVE  /\ credits' \in [Trades -> Nat]
           /\ quota' \in Nat
BY DEF TypeOK, Credit

\* A step of h between two points of its work on the row.
Inner(h) ==
    \/ ReadToComplete(h) \/ CapReached(h) \/ ReadToVoid(h)
    \/ CommitTopUp(h) \/ SaveEpay(h) \/ IncreaseUserQuota(h)
    \/ CommitSubscription(h) \/ CommitRedeem(h) \/ CommitVoid(h)
    \/ WalletDeduct(h) \/ WalletRefund(h) \/ WalletExpire(h)
    \/ Settle(h) \/ Grant(h)
    \/ Trouble(h)

LEMMA InnerTrade ==
    ASSUME TypeOK, Jobs, NEW h \in Handlers, Inner(h)
    PROVE  trade[h] \in Trades /\ gateway[trade[h]] \in Gateways /\ pc[h] \in Critical
<1>1. pc[h] \in Critical
  BY DEF Inner, ReadToComplete, CapReached, ReadToVoid, CommitTopUp, SaveEpay, IncreaseUserQuota,
     CommitSubscription, CommitRedeem, CommitVoid, WalletDeduct, WalletRefund, WalletExpire,
     Settle, Grant, Trouble, ReadFails, WriteFails, WalletDeductFails, WalletRefundFails,
     RewardFails, Critical
<1>2. trade[h] \in Trades
  BY <1>1 DEF Jobs, Critical
<1> QED BY <1>1, <1>2 DEF TypeOK

Moves(h) ==
    \E l \in Critical :
        /\ pc' = [pc EXCEPT ![h] = l]
        /\ l = "increase" => gateway[trade[h]] = "epay" /\ event[h] = "paid"
        /\ l # "create"

LEMMA InnerPc ==
    ASSUME TypeOK, Jobs, NEW h \in Handlers, Inner(h)
    PROVE  Moves(h) /\ UNCHANGED <<gateway, charge, jobVars, lockVars, crashes>>
<1> USE DEF Moves, Critical, Goto, rowVars, userVars, dbVars, providerVars, faultVars
<1>1. CASE ReadToComplete(h) BY <1>1 DEF ReadToComplete
<1>2. CASE ReadToVoid(h) BY <1>2 DEF ReadToVoid
<1>3. CASE CommitTopUp(h) BY <1>3 DEF CommitTopUp
<1>4. CASE SaveEpay(h) BY <1>4 DEF SaveEpay
<1>5. CASE IncreaseUserQuota(h) BY <1>5 DEF IncreaseUserQuota
<1>6. CASE CommitSubscription(h) BY <1>6 DEF CommitSubscription
<1>7. CASE CommitRedeem(h) BY <1>7 DEF CommitRedeem
<1>8. CASE CommitVoid(h) BY <1>8 DEF CommitVoid
<1>9. CASE WalletDeduct(h) BY <1>9 DEF WalletDeduct
<1>10. CASE WalletRefund(h) BY <1>10 DEF WalletRefund
<1>11. CASE WalletExpire(h) BY <1>11 DEF WalletExpire
<1>12. CASE Settle(h) BY <1>12 DEF Settle
<1>13. CASE Grant(h) BY <1>13 DEF Grant
<1>14. CASE ReadFails(h) BY <1>14 DEF ReadFails
<1>15. CASE WriteFails(h) BY <1>15 DEF WriteFails
<1>16. CASE WalletDeductFails(h) BY <1>16 DEF WalletDeductFails
<1>17. CASE WalletRefundFails(h) BY <1>17 DEF WalletRefundFails
<1>18. CASE RewardFails(h) BY <1>18 DEF RewardFails
<1>19. CASE CapReached(h) BY <1>19 DEF CapReached
<1> QED
  BY <1>1, <1>2, <1>3, <1>4, <1>5, <1>6, <1>7, <1>8, <1>9, <1>10, <1>11, <1>12, <1>13, <1>14,
     <1>15, <1>16, <1>17, <1>18, <1>19 DEF Inner, Trouble

LEMMA InnerRow ==
    ASSUME TypeOK, Jobs, NEW h \in Handlers, Inner(h)
    PROVE  /\ errors' = errors \/ (errors < MaxErrors /\ errors' = errors + 1)
           /\ \/ debit' = debit
              \/ debit' = [debit EXCEPT ![trade[h]] = @ + Price]
              \/ debit' = [debit EXCEPT ![trade[h]] = @ - Price]
           /\ status' = status \/ \E s \in Statuses : status' = [status EXCEPT ![trade[h]] = s]
           /\ rewards' = rewards \/ rewards' = rewards + 1
           /\ owned' = owned \/ owned' = owned + 1
           /\ unrefunded' = unrefunded \/ unrefunded' = unrefunded \cup {trade[h]}
           /\ settled' = settled \/ settled' = (settled \/ Invited)
<1> USE InnerTrade DEF TypeOK, Fault, Set, Statuses, rowVars, userVars, dbVars, faultVars
<1>1. CASE ReadToComplete(h) BY <1>1 DEF ReadToComplete
<1>2. CASE ReadToVoid(h) BY <1>2 DEF ReadToVoid
<1>3. CASE CommitTopUp(h) BY <1>3 DEF CommitTopUp
<1>4. CASE SaveEpay(h) BY <1>4 DEF SaveEpay
<1>5. CASE IncreaseUserQuota(h) BY <1>5 DEF IncreaseUserQuota
<1>6. CASE CommitSubscription(h) BY <1>6 DEF CommitSubscription
<1>7. CASE CommitRedeem(h) BY <1>7 DEF CommitRedeem
<1>8. CASE CommitVoid(h) BY <1>8 DEF CommitVoid
<1>9. CASE WalletDeduct(h) BY <1>9 DEF WalletDeduct
<1>10. CASE WalletRefund(h) BY <1>10 DEF WalletRefund
<1>11. CASE WalletExpire(h) BY <1>11 DEF WalletExpire
<1>12. CASE Settle(h) BY <1>12 DEF Settle
<1>13. CASE Grant(h) BY <1>13 DEF Grant
<1>14. CASE ReadFails(h) BY <1>14 DEF ReadFails
<1>15. CASE WriteFails(h) BY <1>15 DEF WriteFails
<1>16. CASE WalletDeductFails(h) BY <1>16 DEF WalletDeductFails
<1>17. CASE WalletRefundFails(h) BY <1>17 DEF WalletRefundFails
<1>18. CASE RewardFails(h) BY <1>18 DEF RewardFails
<1>19. CASE CapReached(h) BY <1>19 DEF CapReached
<1> QED
  BY <1>1, <1>2, <1>3, <1>4, <1>5, <1>6, <1>7, <1>8, <1>9, <1>10, <1>11, <1>12, <1>13, <1>14,
     <1>15, <1>16, <1>17, <1>18, <1>19 DEF Inner, Trouble

LEMMA InnerType ==
    ASSUME TypeOK, Jobs, NEW h \in Handlers, Inner(h)
    PROVE  TypeOK'
<1>0. trade[h] \in Trades /\ gateway[trade[h]] \in Gateways
  BY InnerTrade
<1>1. /\ pc' \in [Handlers -> Labels]
      /\ gateway' \in [Trades -> Gateways]
      /\ charge' \in [Trades -> {"open", "paid", "void"}]
      /\ trade' \in [Handlers -> Trades \cup {NoTrade}]
      /\ event' \in [Handlers -> Events]
      /\ user' \in [Handlers -> Users \cup {NoUser}]
      /\ orderLocks' \in [Nodes -> [Trades -> Mutexes \cup {NoMutex}]]
      /\ rcm' \in [Handlers -> Mutexes \cup {NoMutex}]
      /\ refCount' \in [Mutexes -> Nat]
      /\ locked' \subseteq Mutexes
      /\ crashes' \in 0 .. MaxCrashes
  <2>1. PICK l \in Critical : /\ pc' = [pc EXCEPT ![h] = l]
                              /\ l = "increase" => gateway[trade[h]] = "epay" /\ event[h] = "paid"
                              /\ l # "create"
    BY InnerPc DEF Moves
  <2>2. UNCHANGED <<gateway, charge, jobVars, lockVars, crashes>>
    BY InnerPc
  <2> QED BY <2>1, <2>2 DEF TypeOK, Labels, jobVars, lockVars
<1>2. copy' \in [Handlers -> Statuses]
  BY <1>0 DEF TypeOK, Inner, Trouble, ReadToComplete, CapReached, ReadToVoid, CommitTopUp, SaveEpay,
     IncreaseUserQuota, CommitSubscription, CommitRedeem, CommitVoid, WalletDeduct, WalletRefund,
     WalletExpire, Settle, Grant, ReadFails, WriteFails, WalletDeductFails, WalletRefundFails,
     RewardFails
<1>3. errors' \in 0 .. MaxErrors
  BY InnerRow, Numbers DEF TypeOK
<1>4. acked' \in [Trades -> SUBSET Events]
  <2>1. (\E ok \in BOOLEAN : Answer(h, ok)) \/ UNCHANGED acked
    BY DEF Inner, Trouble, ReadToComplete, CapReached, ReadToVoid, CommitTopUp, SaveEpay,
     IncreaseUserQuota, CommitSubscription, CommitRedeem, CommitVoid, WalletDeduct, WalletRefund,
     WalletExpire, Settle, Grant, ReadFails, WriteFails, WalletDeductFails, WalletRefundFails,
     RewardFails, providerVars
  <2> QED BY <2>1, <1>0, AnswerType DEF TypeOK
<1>5. status' \in [Trades -> Statuses]
  BY <1>0, InnerRow DEF TypeOK
<1>6. debit' \in [Trades -> Int]
  BY <1>0, InnerRow, PriceType DEF TypeOK
<1>7. settled' \in BOOLEAN
  <2>1. settled \in BOOLEAN /\ Invited \in BOOLEAN
    BY OrdersAssumption DEF TypeOK
  <2>2. settled' = settled \/ settled' = (settled \/ Invited)
    BY InnerRow
  <2> QED BY <2>1, <2>2, Zenon
<1>9. rewards' \in Nat
  <2>1. rewards' = rewards \/ rewards' = rewards + 1
    BY InnerRow
  <2> QED BY <2>1 DEF TypeOK
<1>10. owned' \in Nat /\ unrefunded' \subseteq Trades
  <2>1. owned' = owned \/ owned' = owned + 1
    BY InnerRow
  <2>2. unrefunded' = unrefunded \/ unrefunded' = unrefunded \cup {trade[h]}
    BY InnerRow
  <2> QED BY <2>1, <2>2, <1>0 DEF TypeOK
<1>8. /\ credits' \in [Trades -> Nat]
      /\ quota' \in Nat
  <2>1. \/ \E n \in Nat : Credit(h, n)
        \/ credits' = credits /\ quota' \in {quota, quota + Price}
        \/ credits' = credits /\ quota >= Price /\ quota' = quota - Price
    BY <1>0, WorthType, WorthEpay, PriceType DEF Inner, Trouble, ReadToComplete, CapReached, ReadToVoid,
     CommitTopUp, SaveEpay, IncreaseUserQuota, CommitSubscription, CommitRedeem, CommitVoid,
     WalletDeduct, WalletRefund, WalletExpire, Settle, Grant, ReadFails, WriteFails,
     WalletDeductFails, WalletRefundFails, RewardFails, dbVars, rowVars, userVars
  <2>2. CASE \E n \in Nat : Credit(h, n)
    BY <2>2, <1>0, CreditType
  <2>3. CASE credits' = credits /\ quota' \in {quota, quota + Price}
    BY <2>3, PriceType DEF TypeOK
  <2>4. CASE credits' = credits /\ quota >= Price /\ quota' = quota - Price
    BY <2>4, PriceType DEF TypeOK
  <2> QED BY <2>1, <2>2, <2>3, <2>4
<1> QED BY <1>1, <1>2, <1>3, <1>4, <1>5, <1>6, <1>7, <1>8, <1>9, <1>10 DEF TypeOK

LEMMA CrashType ==
    ASSUME TypeOK, NEW n \in Nodes, Crash(n)
    PROVE  TypeOK'
<1> USE DEF TypeOK, Crash, dbVars, rowVars, userVars, providerVars
<1>1. /\ pc' \in [Handlers -> Labels]
      /\ trade' \in [Handlers -> Trades \cup {NoTrade}]
      /\ user' \in [Handlers -> Users \cup {NoUser}]
      /\ copy' \in [Handlers -> Statuses]
      /\ rcm' \in [Handlers -> Mutexes \cup {NoMutex}]
  BY DEF Labels, Statuses
<1>2. /\ orderLocks' \in [Nodes -> [Trades -> Mutexes \cup {NoMutex}]]
      /\ refCount' \in [Mutexes -> Nat]
      /\ locked' \subseteq Mutexes
      /\ crashes' \in 0 .. MaxCrashes
  BY Numbers
<1> QED BY <1>1, <1>2

-----------------------------------------------------------------------------
(* The lock is kept. *)

LEMMA LockInit == Init => LockInv
<1> HAVE Init
<1>1. TypeOK
  BY TypeInit
<1>2. Jobs /\ Entries /\ Injective /\ Exclusive
  BY DEF Init, Jobs, Entries, Injective, Exclusive, Holding, Critical
<1>3. Counted
  <2> SUFFICES ASSUME NEW m \in Mutexes PROVE refCount[m] = Cardinality(Referring(m))
    BY DEF Counted
  <2>1. Referring(m) = {}
    BY OrdersAssumption DEF Init, Referring, NoMutex
  <2> QED BY <2>1, FS_EmptySet DEF Init
<1> QED BY <1>1, <1>2, <1>3 DEF LockInv

LEMMA LockInner ==
    ASSUME LockInv, NEW h \in Handlers, Inner(h)
    PROVE  LockInv'
<1> USE DEF LockInv
<1>1. TypeOK'
  BY InnerType
<1>2. trade[h] \in Trades /\ pc[h] \in Critical
  BY InnerTrade
<1>3. PICK l \in Critical :
        /\ pc' = [pc EXCEPT ![h] = l]
        /\ l = "increase" => gateway[trade[h]] = "epay" /\ event[h] = "paid"
        /\ l # "create"
  BY InnerPc DEF Moves
<1>4. /\ gateway' = gateway /\ trade' = trade /\ event' = event /\ user' = user
      /\ orderLocks' = orderLocks /\ rcm' = rcm /\ refCount' = refCount /\ locked' = locked
  BY InnerPc DEF jobVars, lockVars
<1>5. Jobs'
  <2> SUFFICES ASSUME NEW g \in Handlers
               PROVE  /\ pc'[g] = "idle" => trade[g] = NoTrade /\ user[g] = NoUser
                      /\ pc'[g] # "idle" => /\ trade[g] \in Trades
                                           /\ event[g] \in EventsOf(gateway[trade[g]])
                      /\ pc'[g] \in {"idle", "lookup"} => rcm[g] = NoMutex
                      /\ pc'[g] \in {"lookup", "lock", "release", "create", "increase"} =>
                            ~Unlocked(gateway[trade[g]], event[g])
                      /\ pc'[g] \notin {"idle", "lookup"} =>
                            (rcm[g] = NoMutex <=> Unlocked(gateway[trade[g]], event[g]))
    BY <1>4 DEF Jobs, EventsOf, Unlocked
  <2>1. CASE g # h
    BY <2>1, <1>3 DEF Jobs, TypeOK
  <2>2. CASE g = h
    <3>1. pc'[h] = l /\ pc[h] \notin {"idle", "lookup"}
      BY <1>2, <1>3 DEF TypeOK, Critical
    <3>2. l = "increase" => ~Unlocked(gateway[trade[h]], event[h])
      BY <1>3 DEF Unlocked
    <3> QED BY <2>2, <3>1, <3>2, <1>3 DEF Jobs, Critical
  <2> QED BY <2>1, <2>2
<1>6. Entries' /\ Injective' /\ Counted'
  BY <1>4 DEF Entries, Entry, Injective, Counted, Referring
<1>7. \A g \in Handlers : Holding(g)' => Holding(g)
  BY <1>2, <1>3, <1>4 DEF Holding, TypeOK
<1>8. Exclusive'
  BY <1>7, <1>4 DEF Exclusive
<1> QED BY <1>1, <1>5, <1>6, <1>8

LEMMA LockReceive ==
    ASSUME LockInv, NEW h \in Handlers, NEW o \in Trades, NEW e \in Events,
           NEW u \in Users \cup {NoUser}, Receive(h, o, e, u)
    PROVE  LockInv'
<1> USE DEF LockInv
<1>1. TypeOK'
  BY ReceiveType
<1>2. /\ pc[h] = "idle" /\ rcm[h] = NoMutex /\ e \in EventsOf(gateway[o])
      /\ pc' = [pc EXCEPT ![h] = IF Unlocked(gateway[o], e) THEN "read" ELSE "lookup"]
      /\ trade' = [trade EXCEPT ![h] = o]
      /\ event' = [event EXCEPT ![h] = e]
      /\ user' = [user EXCEPT ![h] = u]
      /\ gateway' = gateway
      /\ orderLocks' = orderLocks /\ rcm' = rcm /\ refCount' = refCount /\ locked' = locked
  BY DEF Receive, Callable, Jobs, dbVars, rowVars, lockVars
<1>3. Jobs'
  <2> SUFFICES ASSUME NEW g \in Handlers
               PROVE  /\ pc'[g] = "idle" => trade'[g] = NoTrade /\ user'[g] = NoUser
                      /\ pc'[g] # "idle" => /\ trade'[g] \in Trades
                                           /\ event'[g] \in EventsOf(gateway[trade'[g]])
                      /\ pc'[g] \in {"idle", "lookup"} => rcm[g] = NoMutex
                      /\ pc'[g] \in {"lookup", "lock", "release", "create", "increase"} =>
                            ~Unlocked(gateway[trade'[g]], event'[g])
                      /\ pc'[g] \notin {"idle", "lookup"} =>
                            (rcm[g] = NoMutex <=> Unlocked(gateway[trade'[g]], event'[g]))
    BY <1>2 DEF Jobs, EventsOf, Unlocked
  <2>1. CASE g # h
    <3>1. pc'[g] = pc[g] /\ trade'[g] = trade[g] /\ event'[g] = event[g] /\ user'[g] = user[g]
      BY <2>1, <1>2 DEF TypeOK
    <3> QED BY <3>1 DEF Jobs
  <2>2. CASE g = h
    <3>1. /\ pc'[h] = IF Unlocked(gateway[o], e) THEN "read" ELSE "lookup"
          /\ trade'[h] = o /\ event'[h] = e
      BY <1>2 DEF TypeOK
    <3> QED BY <2>2, <3>1, <1>2
  <2> QED BY <2>1, <2>2
<1>4. Entries'
  BY <1>2 DEF Entries, Entry, TypeOK
<1>5. Injective' /\ Counted'
  BY <1>2 DEF Injective, Counted, Referring
<1>6. \A g \in Handlers : Holding(g)' => Holding(g)
  BY <1>2 DEF Holding, TypeOK
<1>7. Exclusive'
  BY <1>6, <1>2 DEF Exclusive
<1> QED BY <1>1, <1>3, <1>4, <1>5, <1>7

LEMMA LockLookupKept ==
    ASSUME LockInv, NEW h \in Handlers, LockLookup(h)
    PROVE  LockInv'
<1> USE DEF LockInv
<1>1. TypeOK'
  BY LockType
<1>2. /\ pc[h] = "lookup" /\ rcm[h] = NoMutex /\ trade[h] \in Trades /\ NodeOf[h] \in Nodes
      /\ ~Unlocked(gateway[trade[h]], event[h])
      /\ pc' = [pc EXCEPT ![h] = "lock"]
      /\ gateway' = gateway /\ trade' = trade /\ event' = event /\ user' = user
      /\ locked' = locked
  BY OrdersAssumption DEF LockLookup, Jobs, dbVars, rowVars, jobVars
<1>3. PICK m \in Mutexes :
        /\ Entry(h) = NoMutex => Unreferenced(m)
        /\ Entry(h) # NoMutex => m = Entry(h)
        /\ orderLocks' = [orderLocks EXCEPT ![NodeOf[h]][trade[h]] = m]
        /\ rcm' = [rcm EXCEPT ![h] = m]
        /\ refCount' = [refCount EXCEPT ![m] = @ + 1]
  BY DEF LockLookup
<1>4. m # NoMutex /\ rcm'[h] = m /\ \A g \in Handlers : g # h => rcm'[g] = rcm[g]
  BY <1>3, OrdersAssumption DEF NoMutex, TypeOK
<1>5. \A n \in Nodes, o \in Trades :
        orderLocks'[n][o] = IF n = NodeOf[h] /\ o = trade[h] THEN m ELSE orderLocks[n][o]
  BY <1>2, <1>3 DEF TypeOK
<1>6. Jobs'
  <2>1. \A g \in Handlers : g # h => pc'[g] = pc[g]
    BY <1>2 DEF TypeOK
  <2>2. pc'[h] = "lock"
    BY <1>2 DEF TypeOK
  <2> QED BY <2>1, <2>2, <1>2, <1>4 DEF Jobs, EventsOf, Unlocked
<1>7. Entries'
  <2> SUFFICES ASSUME NEW g \in Handlers, rcm'[g] # NoMutex
               PROVE  orderLocks'[NodeOf[g]][trade[g]] = rcm'[g]
    BY <1>2 DEF Entries, Entry
  <2>1. CASE g = h
    BY <2>1, <1>2, <1>4, <1>5
  <2>2. CASE g # h
    <3>1. rcm'[g] = rcm[g] /\ orderLocks[NodeOf[g]][trade[g]] = rcm[g]
      BY <2>2, <1>4 DEF Entries, Entry
    <3>2. NodeOf[g] \in Nodes /\ trade[g] \in Trades
      BY <3>1, OrdersAssumption DEF Jobs
    <3>3. CASE NodeOf[g] = NodeOf[h] /\ trade[g] = trade[h]
      BY <3>1, <3>2, <3>3, <1>3, <1>5 DEF Entry
    <3> QED BY <3>1, <3>2, <3>3, <1>5
  <2> QED BY <2>1, <2>2
<1>8. Injective'
  <2>1. CASE Entry(h) = NoMutex
    BY <2>1, <1>2, <1>3, <1>5 DEF Injective, Unreferenced
  <2>2. CASE Entry(h) # NoMutex
    <3>1. \A n \in Nodes, o \in Trades : orderLocks'[n][o] = orderLocks[n][o]
      BY <2>2, <1>3, <1>5 DEF Entry
    <3> QED BY <3>1 DEF Injective
  <2> QED BY <2>1, <2>2
<1>9. Counted'
  <2> SUFFICES ASSUME NEW k \in Mutexes PROVE refCount'[k] = Cardinality(Referring(k)')
    BY DEF Counted
  <2>1. IsFiniteSet(Referring(k)) /\ refCount[k] = Cardinality(Referring(k))
    BY OrdersAssumption, FS_Subset DEF Referring, Counted
  <2>2. CASE k # m
    <3>1. Referring(k)' = Referring(k)
      BY <2>2, <1>2, <1>4, OrdersAssumption DEF Referring, NoMutex
    <3>2. refCount'[k] = refCount[k]
      BY <2>2, <1>3 DEF TypeOK
    <3> QED BY <3>1, <3>2, <2>1
  <2>3. CASE k = m
    <3>1. Referring(k)' = Referring(k) \cup {h} /\ h \notin Referring(k)
      BY <2>3, <1>2, <1>4 DEF Referring
    <3>2. refCount'[k] = refCount[k] + 1
      BY <2>3, <1>3 DEF TypeOK
    <3> QED BY <3>1, <3>2, <2>1, FS_AddElement
  <2> QED BY <2>2, <2>3
<1>10. \A g \in Handlers : Holding(g)' => Holding(g) /\ rcm'[g] = rcm[g]
  BY <1>2, <1>4 DEF Holding, TypeOK, Critical
<1>11. Exclusive'
  BY <1>10, <1>2 DEF Exclusive
<1> QED BY <1>1, <1>6, <1>7, <1>8, <1>9, <1>11

LEMMA LockAcquireKept ==
    ASSUME LockInv, NEW h \in Handlers, LockAcquire(h)
    PROVE  LockInv'
<1> USE DEF LockInv
<1>1. TypeOK'
  BY LockType
<1>2. /\ pc[h] = "lock" /\ rcm[h] # NoMutex /\ rcm[h] \notin locked
      /\ ~Unlocked(gateway[trade[h]], event[h])
      /\ trade[h] \in Trades
      /\ pc' = [pc EXCEPT ![h] = IF event[h] = "buy" THEN "create" ELSE "read"]
      /\ locked' = locked \cup {rcm[h]}
      /\ gateway' = gateway /\ trade' = trade /\ event' = event /\ user' = user
      /\ orderLocks' = orderLocks /\ rcm' = rcm /\ refCount' = refCount
  BY DEF LockAcquire, Jobs, dbVars, rowVars, jobVars
<1>3. Jobs'
  <2>1. \A g \in Handlers : g # h => pc'[g] = pc[g]
    BY <1>2 DEF TypeOK
  <2>2. pc'[h] \in {"create", "read"}
    BY <1>2 DEF TypeOK
  <2> QED BY <2>1, <2>2, <1>2 DEF Jobs, EventsOf, Unlocked
<1>4. Entries' /\ Injective' /\ Counted'
  BY <1>2 DEF Entries, Entry, Injective, Counted, Referring
<1>5. \A g \in Handlers : g # h /\ Holding(g)' => Holding(g) /\ rcm[g] \in locked
  BY <1>2 DEF Holding, TypeOK, Exclusive
<1>6. Exclusive'
  BY <1>2, <1>5 DEF Exclusive
<1> QED BY <1>1, <1>3, <1>4, <1>6

LEMMA UnlockKept ==
    ASSUME LockInv, NEW h \in Handlers, UnlockOrder(h)
    PROVE  LockInv'
<1> USE DEF LockInv
<1>1. TypeOK'
  BY LockType
<1>2. /\ pc[h] = "unlock" /\ trade[h] \in Trades
      /\ gateway' = gateway /\ event' = event
      /\ orderLocks' = orderLocks /\ refCount' = refCount
  BY DEF UnlockOrder, Forget, Jobs, dbVars, rowVars, jobVars
<1>3. CASE Unlocked(gateway[trade[h]], event[h])
  <2>1. /\ pc' = [pc EXCEPT ![h] = "idle"]
        /\ trade' = [trade EXCEPT ![h] = NoTrade]
        /\ user' = [user EXCEPT ![h] = NoUser]
        /\ rcm' = [rcm EXCEPT ![h] = NoMutex]
        /\ locked' = locked
    BY <1>3 DEF UnlockOrder, Forget
  <2>2. rcm[h] = NoMutex
    BY <1>2, <1>3 DEF Jobs
  <2>3. rcm' = rcm
    BY <2>1, <2>2 DEF TypeOK
  <2>4. \A g \in Handlers :
          g # h => pc'[g] = pc[g] /\ trade'[g] = trade[g] /\ user'[g] = user[g]
    BY <2>1 DEF TypeOK
  <2>5. pc'[h] = "idle" /\ trade'[h] = NoTrade /\ user'[h] = NoUser
    BY <2>1 DEF TypeOK
  <2>6. Jobs'
    BY <2>2, <2>3, <2>4, <2>5, <1>2 DEF Jobs, EventsOf, Unlocked
  <2>7. Entries'
    BY <2>2, <2>3, <2>4, <1>2 DEF Entries, Entry
  <2>8. Injective' /\ Counted'
    BY <2>3, <1>2 DEF Injective, Counted, Referring
  <2>9. \A g \in Handlers : Holding(g)' => Holding(g)
    BY <2>2, <2>3, <2>4 DEF Holding
  <2>10. Exclusive'
    BY <2>1, <2>3, <2>9 DEF Exclusive
  <2> QED BY <1>1, <2>6, <2>7, <2>8, <2>10
<1>4. CASE ~Unlocked(gateway[trade[h]], event[h])
  <2>1. rcm[h] # NoMutex /\ Entry(h) = rcm[h]
    BY <1>2, <1>4 DEF Jobs, Entries
  <2>2. /\ pc' = [pc EXCEPT ![h] = "release"]
        /\ rcm' = [rcm EXCEPT ![h] = rcm[h]]
        /\ locked' = locked \ {rcm[h]}
        /\ trade' = trade /\ user' = user
    BY <1>4, <2>1 DEF UnlockOrder, jobVars
  <2>3. rcm' = rcm
    BY <2>2 DEF TypeOK
  <2>4. pc'[h] = "release" /\ \A g \in Handlers : g # h => pc'[g] = pc[g]
    BY <2>2 DEF TypeOK
  <2>5. Jobs'
    BY <2>1, <2>2, <2>3, <2>4, <1>2, <1>4 DEF Jobs, EventsOf, Unlocked
  <2>6. Entries' /\ Injective' /\ Counted'
    BY <2>2, <2>3, <1>2 DEF Entries, Entry, Injective, Counted, Referring
  <2>7. Holding(h) /\ \A g \in Handlers : Holding(g)' => Holding(g) /\ g # h
    BY <2>1, <2>3, <2>4, <1>2 DEF Holding, Critical
  <2>8. Exclusive'
    BY <2>2, <2>3, <2>7 DEF Exclusive
  <2> QED BY <1>1, <2>5, <2>6, <2>8
<1> QED BY <1>3, <1>4

LEMMA ReleaseKept ==
    ASSUME LockInv, NEW h \in Handlers, Release(h)
    PROVE  LockInv'
<1> USE DEF LockInv
<1>1. TypeOK'
  BY ReleaseType
<1>2. /\ pc[h] = "release" /\ trade[h] \in Trades /\ NodeOf[h] \in Nodes
      /\ rcm[h] # NoMutex /\ rcm[h] \in Mutexes
      /\ gateway' = gateway /\ event' = event /\ locked' = locked
      /\ pc' = [pc EXCEPT ![h] = "idle"]
      /\ trade' = [trade EXCEPT ![h] = NoTrade]
      /\ user' = [user EXCEPT ![h] = NoUser]
      /\ rcm' = [rcm EXCEPT ![h] = NoMutex]
      /\ refCount' = [refCount EXCEPT ![rcm[h]] = @ - 1]
  BY OrdersAssumption DEF Release, Forget, Jobs, TypeOK, dbVars, rowVars
<1>3. /\ pc'[h] = "idle" /\ trade'[h] = NoTrade /\ user'[h] = NoUser /\ rcm'[h] = NoMutex
      /\ \A g \in Handlers : g # h => /\ pc'[g] = pc[g] /\ trade'[g] = trade[g]
                                      /\ user'[g] = user[g] /\ rcm'[g] = rcm[g]
  BY <1>2 DEF TypeOK
<1>4. Jobs'
  BY <1>2, <1>3 DEF Jobs, EventsOf, Unlocked
<1>5. IsFiniteSet(Referring(rcm[h])) /\ refCount[rcm[h]] = Cardinality(Referring(rcm[h]))
  BY <1>2, OrdersAssumption, FS_Subset DEF Referring, Counted
<1>6. refCount[rcm[h]] = 1 => \A g \in Handlers : rcm[g] = rcm[h] => g = h
  <2> SUFFICES ASSUME refCount[rcm[h]] = 1, NEW g \in Handlers, rcm[g] = rcm[h] PROVE g = h
    OBVIOUS
  <2>1. g \in Referring(rcm[h]) /\ h \in Referring(rcm[h])
    BY DEF Referring
  <2>2. PICK x : Referring(rcm[h]) = {x}
    BY <1>5, FS_Singleton
  <2> QED BY <2>1, <2>2
<1>7. \A n \in Nodes, o \in Trades :
        \/ orderLocks'[n][o] = orderLocks[n][o]
        \/ /\ n = NodeOf[h] /\ o = trade[h] /\ orderLocks'[n][o] = NoMutex
           /\ refCount[rcm[h]] = 1
  BY <1>2 DEF Release, TypeOK
<1>8. Entries'
  <2> SUFFICES ASSUME NEW g \in Handlers, rcm'[g] # NoMutex
               PROVE  orderLocks'[NodeOf[g]][trade'[g]] = rcm'[g]
    BY DEF Entries, Entry
  <2>1. g # h /\ trade'[g] = trade[g] /\ rcm'[g] = rcm[g]
    BY <1>3
  <2>2. orderLocks[NodeOf[g]][trade[g]] = rcm[g] /\ NodeOf[g] \in Nodes /\ trade[g] \in Trades
    BY <2>1, OrdersAssumption DEF Entries, Entry, Jobs
  <2>3. ASSUME NodeOf[g] = NodeOf[h], trade[g] = trade[h], refCount[rcm[h]] = 1 PROVE FALSE
    BY <2>1, <2>2, <2>3, <1>2, <1>6 DEF Entries, Entry
  <2> QED BY <2>1, <2>2, <2>3, <1>7
<1>9. Injective'
  <2> SUFFICES ASSUME NEW n1 \in Nodes, NEW n2 \in Nodes, NEW o1 \in Trades, NEW o2 \in Trades,
                      orderLocks'[n1][o1] = orderLocks'[n2][o2], orderLocks'[n1][o1] # NoMutex
               PROVE  n1 = n2 /\ o1 = o2
    BY DEF Injective
  <2>1. orderLocks'[n1][o1] = orderLocks[n1][o1] /\ orderLocks'[n2][o2] = orderLocks[n2][o2]
    BY <1>7
  <2>2. orderLocks[n1][o1] = orderLocks[n2][o2] /\ orderLocks[n1][o1] # NoMutex
    BY <2>1
  <2> HIDE <1>2, <1>7
  <2> QED BY <2>2 DEF Injective
<1>10. Counted'
  <2> SUFFICES ASSUME NEW k \in Mutexes PROVE refCount'[k] = Cardinality(Referring(k)')
    BY DEF Counted
  <2>1. CASE k # rcm[h]
    <3>1. k # NoMutex
      BY OrdersAssumption DEF NoMutex
    <3>2. Referring(k)' = Referring(k)
      BY <2>1, <3>1, <1>3 DEF Referring
    <3>3. refCount'[k] = refCount[k]
      BY <2>1, <1>2 DEF TypeOK
    <3> QED BY <3>2, <3>3 DEF Counted
  <2>2. CASE k = rcm[h]
    <3>1. Referring(k)' = Referring(k) \ {h} /\ h \in Referring(k)
      BY <2>2, <1>2, <1>3 DEF Referring
    <3>2. refCount'[k] = refCount[k] - 1
      BY <2>2, <1>2 DEF TypeOK
    <3> QED BY <2>2, <3>1, <3>2, <1>5, FS_RemoveElement
  <2> QED BY <2>1, <2>2
<1>11. \A g \in Handlers : Holding(g)' => Holding(g) /\ rcm'[g] = rcm[g]
  BY <1>3 DEF Holding
<1>12. Exclusive'
  BY <1>2, <1>11 DEF Exclusive
<1> QED BY <1>1, <1>4, <1>8, <1>9, <1>10, <1>12

LEMMA CrashKept ==
    ASSUME LockInv, NEW n \in Nodes, Crash(n)
    PROVE  LockInv'
<1> USE DEF LockInv
<1> DEFINE Mine == {rcm[h] : h \in {g \in Handlers : NodeOf[g] = n}}
<1>1. TypeOK'
  BY CrashType
<1>2. /\ gateway' = gateway /\ event' = event
      /\ orderLocks' = [orderLocks EXCEPT ![n] = [o \in Trades |-> NoMutex]]
      /\ refCount' = [m \in Mutexes |-> IF m \in Mine THEN 0 ELSE refCount[m]]
      /\ locked' = locked \ Mine
  BY DEF Crash, dbVars, rowVars
<1>3. \A h \in Handlers :
        /\ NodeOf[h] = n => /\ pc'[h] = "idle" /\ trade'[h] = NoTrade
                            /\ user'[h] = NoUser /\ rcm'[h] = NoMutex
        /\ NodeOf[h] # n => /\ pc'[h] = pc[h] /\ trade'[h] = trade[h]
                            /\ user'[h] = user[h] /\ rcm'[h] = rcm[h]
  BY DEF Crash
<1>4. \A h \in Handlers : NodeOf[h] # n /\ rcm[h] # NoMutex => rcm[h] \notin Mine
  <2> SUFFICES ASSUME NEW h \in Handlers, NEW g \in Handlers, NodeOf[h] # n, NodeOf[g] = n,
                      rcm[h] # NoMutex, rcm[g] = rcm[h]
               PROVE  FALSE
    OBVIOUS
  <2>1. trade[h] \in Trades /\ trade[g] \in Trades /\ NodeOf[h] \in Nodes
    BY OrdersAssumption DEF Jobs
  <2>2. orderLocks[NodeOf[h]][trade[h]] = rcm[h] /\ orderLocks[n][trade[g]] = rcm[h]
    BY DEF Entries, Entry
  <2> QED BY <2>1, <2>2 DEF Injective
<1>5. Jobs'
  BY <1>2, <1>3 DEF Jobs, EventsOf, Unlocked
<1>6. \A k \in Nodes, o \in Trades :
        orderLocks'[k][o] = IF k = n THEN NoMutex ELSE orderLocks[k][o]
  BY <1>2 DEF TypeOK
<1>7. Entries'
  <2> SUFFICES ASSUME NEW h \in Handlers, rcm'[h] # NoMutex
               PROVE  orderLocks'[NodeOf[h]][trade'[h]] = rcm'[h]
    BY DEF Entries, Entry
  <2>1. NodeOf[h] # n /\ rcm'[h] = rcm[h] /\ trade'[h] = trade[h]
    BY <1>3
  <2>2. trade[h] \in Trades /\ NodeOf[h] \in Nodes
    BY <2>1, OrdersAssumption DEF Jobs
  <2> QED BY <2>1, <2>2, <1>6 DEF Entries, Entry
<1>8. Injective'
  BY <1>6 DEF Injective
<1>9. Counted'
  <2> SUFFICES ASSUME NEW k \in Mutexes PROVE refCount'[k] = Cardinality(Referring(k)')
    BY DEF Counted
  <2>0. k # NoMutex
    BY OrdersAssumption DEF NoMutex
  <2>1. CASE k \in Mine
    <3>1. Referring(k)' = {}
      BY <2>0, <2>1, <1>3, <1>4 DEF Referring
    <3> QED BY <2>1, <3>1, <1>2, FS_EmptySet
  <2>2. CASE k \notin Mine
    <3>1. Referring(k)' = Referring(k)
      BY <2>0, <2>2, <1>3 DEF Referring
    <3> QED BY <2>2, <3>1, <1>2 DEF Counted
  <2> QED BY <2>1, <2>2
<1>10. \A h \in Handlers : Holding(h)' => Holding(h) /\ rcm'[h] = rcm[h] /\ rcm[h] \notin Mine
  BY <1>3, <1>4 DEF Holding, Critical
<1>11. Exclusive'
  BY <1>2, <1>10 DEF Exclusive
<1> QED BY <1>1, <1>5, <1>7, <1>8, <1>9, <1>11

LEMMA LockNext == ASSUME LockInv, [Next]_vars PROVE LockInv'
<1>1. ASSUME NEW o \in Trades, Pay(o) \/ Void(o) PROVE LockInv'
  <2>1. TypeOK'
    BY <1>1 DEF LockInv, TypeOK, Pay, Void, dbVars, rowVars, userVars, jobVars, lockVars, faultVars
  <2>2. /\ gateway' = gateway /\ pc' = pc /\ trade' = trade /\ event' = event /\ user' = user
        /\ orderLocks' = orderLocks /\ rcm' = rcm /\ refCount' = refCount /\ locked' = locked
    BY <1>1 DEF Pay, Void, dbVars, rowVars, jobVars, lockVars
  <2> QED BY <2>1, <2>2 DEF LockInv, Jobs, Entries, Entry, Injective, Counted, Referring,
            Exclusive, Holding, EventsOf, Unlocked
<1>2. ASSUME NEW h \in Handlers, NEW o \in Trades, NEW e \in Events, NEW u \in Users \cup {NoUser},
             Receive(h, o, e, u)
      PROVE  LockInv'
  BY <1>2, LockReceive
<1>3. ASSUME NEW h \in Handlers, LockAcquire(h) \/ Work(h) \/ Trouble(h) PROVE LockInv'
  BY <1>3, LockLookupKept, LockAcquireKept, UnlockKept, ReleaseKept, LockInner DEF Work, Inner
<1>4. ASSUME NEW n \in Nodes, Crash(n) PROVE LockInv'
  BY <1>4, CrashKept
<1>5. CASE UNCHANGED vars
  BY <1>5 DEF vars, LockInv, TypeOK, Jobs, Entries, Entry, Injective, Counted, Referring,
     Exclusive, Holding, EventsOf, Unlocked
<1>6. CASE AdminBind \/ AdminDelete
  <2>1. OnlyOwned /\ owned' \in Nat
    BY <1>6 DEF AdminBind, AdminDelete, LockInv, TypeOK
  <2>2. TypeOK'
    BY <2>1 DEF LockInv, TypeOK, OnlyOwned, rowVars, providerVars, jobVars, lockVars, faultVars
  <2> QED BY <2>1, <2>2 DEF LockInv, Jobs, Entries, Entry, Injective, Counted, Referring,
            Exclusive, Holding, EventsOf, Unlocked, OnlyOwned, rowVars, jobVars, lockVars
<1> QED BY <1>1, <1>2, <1>3, <1>4, <1>5, <1>6 DEF Next

\* The state of the module is always of its type.
THEOREM OrdersType == Spec => []TypeOK
<1>1. LockInv => TypeOK
  BY DEF LockInv
<1> QED BY <1>1, LockInit, LockNext, PTL DEF Spec

\* LockOrder excludes the other requests of its process from the order, for any
\* number of processes: mutexes are created, counted and dropped in time.
THEOREM OrderLocked == Spec => []MutualExclusion
<1>1. LockInv => MutualExclusion
  BY DEF LockInv, MutualExclusion, Entries, Entry, Exclusive, Holding
<1> QED BY <1>1, LockInit, LockNext, PTL DEF Spec

-----------------------------------------------------------------------------
(* At most one credit. *)

LEMMA Excluded ==
    ASSUME LockInv, Alone, OneProcess, NEW g \in Handlers, NEW h \in Handlers,
           pc[g] \in Critical, pc[h] \in Critical, trade[g] = trade[h],
           gateway[trade[h]] # "waffo" \/ (event[g] # "void" /\ event[h] # "void")
    PROVE  g = h
<1> USE DEF LockInv
<1>1. /\ pc[g] \notin {"idle", "lookup"} /\ pc[h] \notin {"idle", "lookup"}
      /\ event[g] \in EventsOf(gateway[trade[h]]) /\ event[h] \in EventsOf(gateway[trade[h]])
      /\ rcm[g] = NoMutex <=> Unlocked(gateway[trade[h]], event[g])
      /\ rcm[h] = NoMutex <=> Unlocked(gateway[trade[h]], event[h])
  BY DEF Jobs, Critical
<1>2. CASE rcm[g] # NoMutex /\ rcm[h] # NoMutex
  BY <1>2 DEF OneProcess, Entries, Entry, Exclusive, Holding
<1>3. CASE rcm[g] = NoMutex \/ rcm[h] = NoMutex
  <2>1. event[g] = "redeem" \/ event[h] = "redeem"
    BY <1>1, <1>3 DEF Unlocked
  <2>2. gateway[trade[h]] = "code"
    BY <1>1, <2>1 DEF EventsOf
  <2>3. event[g] = "redeem" /\ event[h] = "redeem"
    BY <1>1, <2>2 DEF EventsOf, TopUps, Subs
  <2>4. user[g] # NoUser /\ user[h] # NoUser
    BY <1>1, <2>3 DEF Alone
  <2>5. user[g] = user[h]
    BY <2>4 DEF TypeOK, OneProcess
  <2> QED BY <2>4, <2>5 DEF Alone, OneProcess
<1> QED BY <1>2, <1>3

\* What a step of h between two points of its work does to the rows.
Row(h) ==
    /\ \A o \in Trades : o # trade[h] => /\ status'[o] = status[o]
                                         /\ credits'[o] = credits[o]
    /\ \/ credits' = credits
       \/ event[h] # "void" /\ pc[h] \in {"write", "increase"}

LEMMA InnerRows ==
    ASSUME TypeOK, Jobs, Steps, NEW h \in Handlers, Inner(h)
    PROVE  Row(h)
<1> USE InnerTrade DEF TypeOK, Row, Credit, Set, rowVars, userVars, dbVars
<1>1. CASE ReadToComplete(h) BY <1>1 DEF ReadToComplete
<1>2. CASE ReadToVoid(h) BY <1>2 DEF ReadToVoid
<1>3. CASE CommitTopUp(h) BY <1>3 DEF CommitTopUp, InTransaction
<1>4. CASE SaveEpay(h) BY <1>4 DEF SaveEpay
<1>5. CASE IncreaseUserQuota(h) BY <1>5 DEF IncreaseUserQuota, Steps
<1>6. CASE CommitSubscription(h) BY <1>6 DEF CommitSubscription
<1>7. CASE CommitRedeem(h) BY <1>7 DEF CommitRedeem
<1>8. CASE CommitVoid(h) BY <1>8 DEF CommitVoid
<1>9. CASE WalletDeduct(h) BY <1>9 DEF WalletDeduct
<1>10. CASE WalletRefund(h) BY <1>10 DEF WalletRefund
<1>11. CASE WalletExpire(h) BY <1>11 DEF WalletExpire
<1>12. CASE Settle(h) BY <1>12 DEF Settle
<1>13. CASE Grant(h) BY <1>13 DEF Grant
<1>14. CASE ReadFails(h) BY <1>14 DEF ReadFails
<1>15. CASE WriteFails(h) BY <1>15 DEF WriteFails
<1>16. CASE WalletDeductFails(h) BY <1>16 DEF WalletDeductFails
<1>17. CASE WalletRefundFails(h) BY <1>17 DEF WalletRefundFails
<1>18. CASE RewardFails(h) BY <1>18 DEF RewardFails
<1>19. CASE CapReached(h) BY <1>19 DEF CapReached
<1> QED
  BY <1>1, <1>2, <1>3, <1>4, <1>5, <1>6, <1>7, <1>8, <1>9, <1>10, <1>11, <1>12, <1>13, <1>14,
     <1>15, <1>16, <1>17, <1>18, <1>19 DEF Inner, Trouble

\* The other requests: either they work on another order, or the lock keeps them
\* out, or they are not concerned.
LEMMA OthersKnow ==
    ASSUME CreditInv, OneProcess, NEW h \in Handlers, Inner(h), NEW g \in Handlers, g # h
    PROVE  Known(g)'
<1>1. /\ pc'[g] = pc[g] /\ trade' = trade /\ event' = event /\ gateway' = gateway
      /\ trade[h] \in Trades /\ pc[h] \in Critical
  <2>1. PICK l \in Critical : pc' = [pc EXCEPT ![h] = l]
    BY InnerPc DEF Moves, CreditInv, LockInv
  <2>2. UNCHANGED <<gateway, jobVars>>
    BY InnerPc DEF CreditInv, LockInv
  <2> QED BY <2>1, <2>2, InnerTrade DEF CreditInv, LockInv, TypeOK, jobVars
<1>2. Row(h) /\ Known(g)
  BY InnerRows DEF CreditInv, LockInv, Reads
<1>3. pc[g] # "idle" => /\ trade[g] \in Trades
                        /\ event[g] \in EventsOf(gateway[trade[g]])
  BY DEF CreditInv, LockInv, Jobs
<1>4. CASE pc[g] # "idle" /\ trade[g] # trade[h]
  BY <1>1, <1>2, <1>3, <1>4 DEF Known, Row
<1>5. CASE pc[g] # "idle" /\ trade[g] = trade[h]
  <2>1. ~(pc[g] = "write" /\ gateway[trade[g]] \in Guarded)
    BY <1>1, <1>5, Excluded DEF CreditInv, Guarded, Critical
  <2>2. pc[g] # "increase"
    BY <1>1, <1>5, Excluded DEF CreditInv, Steps, Critical
  <2>3. ~(pc[g] \in {"lookup", "lock", "create"} /\ event[g] = "buy")
    <3>1. event[g] = "buy" => gateway[trade[g]] = "wallet"
      BY <1>3, <1>5 DEF EventsOf
    <3>2. pc[h] # "idle"
      BY <1>1 DEF Critical
    <3> QED BY <1>5, <3>1, <3>2 DEF CreditInv, Alone
  <2>4. pc[g] = "write" /\ event[g] # "void" => credits' = credits
    BY <1>1, <1>2, <1>5, Excluded DEF CreditInv, Row, Critical
  <2> QED BY <1>1, <1>2, <2>1, <2>2, <2>3, <2>4 DEF Known
<1>6. CASE pc[g] = "idle"
  BY <1>1, <1>6 DEF Known
<1> QED BY <1>4, <1>5, <1>6

LEMMA ItKnows ==
    ASSUME CreditInv, NEW h \in Handlers, Inner(h)
    PROVE  Known(h)'
<1>0. /\ trade' = trade /\ event' = event /\ gateway' = gateway
      /\ trade[h] \in Trades /\ pc[h] \in Labels /\ pc \in [Handlers -> Labels]
      /\ status \in [Trades -> Statuses]
      /\ Known(h) /\ Sound(trade[h])
  <2>1. UNCHANGED <<gateway, jobVars>>
    BY InnerPc DEF CreditInv, LockInv
  <2> QED BY <2>1, InnerTrade DEF CreditInv, LockInv, TypeOK, jobVars, Reads, Rows
<1> USE <1>0 DEF Known, Sound, Goto, Guarded, dbVars, rowVars
<1>1. CASE ReadToComplete(h) BY <1>1 DEF ReadToComplete
<1>2. CASE ReadToVoid(h) BY <1>2 DEF ReadToVoid
<1>3. CASE CommitTopUp(h) BY <1>3 DEF CommitTopUp
<1>4. CASE SaveEpay(h) BY <1>4 DEF SaveEpay, Set, Statuses
<1>5. CASE IncreaseUserQuota(h) BY <1>5 DEF IncreaseUserQuota
<1>6. CASE CommitSubscription(h) BY <1>6 DEF CommitSubscription
<1>7. CASE CommitRedeem(h) BY <1>7 DEF CommitRedeem
<1>8. CASE CommitVoid(h) BY <1>8 DEF CommitVoid
<1>9. CASE WalletDeduct(h) BY <1>9 DEF WalletDeduct, Set
<1>10. CASE WalletRefund(h) BY <1>10 DEF WalletRefund
<1>11. CASE WalletExpire(h) BY <1>11 DEF WalletExpire
<1>12. CASE Settle(h) BY <1>12 DEF Settle
<1>13. CASE Grant(h) BY <1>13 DEF Grant
<1>14. CASE ReadFails(h) BY <1>14 DEF ReadFails
<1>15. CASE WriteFails(h) BY <1>15 DEF WriteFails
<1>16. CASE WalletDeductFails(h) BY <1>16 DEF WalletDeductFails
<1>17. CASE WalletRefundFails(h) BY <1>17 DEF WalletRefundFails
<1>18. CASE RewardFails(h) BY <1>18 DEF RewardFails
<1>19. CASE CapReached(h) BY <1>19 DEF CapReached
<1> QED
  BY <1>1, <1>2, <1>3, <1>4, <1>5, <1>6, <1>7, <1>8, <1>9, <1>10, <1>11, <1>12, <1>13, <1>14,
     <1>15, <1>16, <1>17, <1>18, <1>19 DEF Inner, Trouble

LEMMA RowKept ==
    ASSUME CreditInv, NEW h \in Handlers, Inner(h)
    PROVE  Sound(trade[h])'
<1>0. /\ trade' = trade /\ gateway' = gateway
      /\ trade[h] \in Trades /\ gateway[trade[h]] \in Gateways /\ pc[h] \in Critical
      /\ status \in [Trades -> Statuses]
      /\ credits \in [Trades -> Nat]
      /\ Known(h) /\ Sound(trade[h])
      /\ event[h] \in EventsOf(gateway[trade[h]])
  <2>1. UNCHANGED <<gateway, jobVars>>
    BY InnerPc DEF CreditInv, LockInv
  <2>2. pc[h] # "idle" /\ trade[h] \in Trades /\ pc[h] \in Critical /\ gateway[trade[h]] \in Gateways
    BY InnerTrade DEF CreditInv, LockInv, Critical
  <2> QED BY <2>1, <2>2 DEF CreditInv, LockInv, TypeOK, Jobs, jobVars, Reads, Rows
<1>n. (status' = status /\ credits' = credits) => Sound(trade[h])'
  BY <1>0 DEF Sound
<1>1. CASE ReadToComplete(h)
  BY <1>1, <1>n DEF ReadToComplete, dbVars, rowVars
<1>2. CASE ReadToVoid(h)
  BY <1>2, <1>n DEF ReadToVoid, dbVars, rowVars
<1>3. CASE CommitTopUp(h)
  BY <1>3, <1>0 DEF CommitTopUp, InTransaction, Credit, Set, Known, Sound
<1>4. CASE SaveEpay(h)
  BY <1>4, <1>0 DEF SaveEpay, Set, Known, Sound
<1>5. CASE IncreaseUserQuota(h)
  BY <1>5, <1>0 DEF IncreaseUserQuota, Credit, Known, Sound, CreditInv, Steps
<1>6. CASE CommitSubscription(h)
  BY <1>6, <1>0 DEF CommitSubscription, Credit, Set, Known, Sound
<1>7. CASE CommitRedeem(h)
  BY <1>7, <1>0 DEF CommitRedeem, Credit, Set, Known, Sound
<1>8. CASE CommitVoid(h)
  BY <1>8, <1>0 DEF CommitVoid, Set, Known, Sound
<1>9. CASE WalletDeduct(h)
  BY <1>9, <1>0 DEF WalletDeduct, Set, Known, Sound, Guarded, TopUps, Subs, EventsOf, CreditInv, Steps
<1>10. CASE WalletRefund(h)
  BY <1>10, <1>n DEF WalletRefund, dbVars, rowVars
<1>11. CASE WalletExpire(h)
  BY <1>11, <1>0 DEF WalletExpire, Known, Sound, Guarded, TopUps, Subs, EventsOf, CreditInv, Steps
<1>12. CASE Settle(h)
  BY <1>12, <1>n DEF Settle, dbVars, rowVars
<1>13. CASE Grant(h)
  BY <1>13, <1>n DEF Grant, dbVars, rowVars
<1>14. CASE ReadFails(h)
  BY <1>14, <1>n DEF ReadFails, dbVars, rowVars
<1>15. CASE WriteFails(h)
  BY <1>15, <1>n DEF WriteFails, dbVars, rowVars
<1>16. CASE WalletDeductFails(h)
  BY <1>16, <1>n DEF WalletDeductFails, dbVars, rowVars
<1>17. CASE WalletRefundFails(h)
  BY <1>17, <1>n DEF WalletRefundFails, dbVars, rowVars
<1>18. CASE RewardFails(h)
  BY <1>18, <1>n DEF RewardFails, dbVars, rowVars
<1>19. CASE CapReached(h)
  BY <1>19, <1>n DEF CapReached, dbVars, rowVars
<1> QED
  BY <1>1, <1>2, <1>3, <1>4, <1>5, <1>6, <1>7, <1>8, <1>9, <1>10, <1>11, <1>12, <1>13, <1>14,
     <1>15, <1>16, <1>17, <1>18, <1>19 DEF Inner, Trouble

LEMMA InnerSteps ==
    ASSUME TypeOK, Jobs, Steps, NEW h \in Handlers, Inner(h)
    PROVE  Steps'
<1>0. /\ pc \in [Handlers -> Labels]
      /\ trade' = trade /\ event' = event /\ gateway' = gateway
  BY InnerPc DEF TypeOK, jobVars
<1> USE <1>0 DEF Steps, Goto
<1>1. CASE ReadToComplete(h) BY <1>1 DEF ReadToComplete
<1>2. CASE ReadToVoid(h) BY <1>2 DEF ReadToVoid
<1>3. CASE CommitTopUp(h) BY <1>3 DEF CommitTopUp
<1>4. CASE SaveEpay(h) BY <1>4 DEF SaveEpay
<1>5. CASE IncreaseUserQuota(h) BY <1>5 DEF IncreaseUserQuota
<1>6. CASE CommitSubscription(h) BY <1>6 DEF CommitSubscription
<1>7. CASE CommitRedeem(h) BY <1>7 DEF CommitRedeem
<1>8. CASE CommitVoid(h) BY <1>8 DEF CommitVoid
<1>9. CASE WalletDeduct(h) BY <1>9 DEF WalletDeduct
<1>10. CASE WalletRefund(h) BY <1>10 DEF WalletRefund
<1>11. CASE WalletExpire(h) BY <1>11 DEF WalletExpire
<1>12. CASE Settle(h) BY <1>12 DEF Settle
<1>13. CASE Grant(h) BY <1>13 DEF Grant
<1>14. CASE ReadFails(h) BY <1>14 DEF ReadFails
<1>15. CASE WriteFails(h) BY <1>15 DEF WriteFails
<1>16. CASE WalletDeductFails(h) BY <1>16 DEF WalletDeductFails
<1>17. CASE WalletRefundFails(h) BY <1>17 DEF WalletRefundFails
<1>18. CASE RewardFails(h) BY <1>18 DEF RewardFails
<1>19. CASE CapReached(h) BY <1>19 DEF CapReached
<1> QED
  BY <1>1, <1>2, <1>3, <1>4, <1>5, <1>6, <1>7, <1>8, <1>9, <1>10, <1>11, <1>12, <1>13, <1>14,
     <1>15, <1>16, <1>17, <1>18, <1>19 DEF Inner, Trouble

LEMMA CreditInner ==
    ASSUME CreditInv, OneProcess, NEW h \in Handlers, Inner(h)
    PROVE  CreditInv'
<1>1. LockInv'
  BY LockInner DEF CreditInv
<1>2. Alone'
  <2>1. PICK l \in Critical : pc' = [pc EXCEPT ![h] = l]
    BY InnerPc DEF Moves, CreditInv, LockInv
  <2>2. trade' = trade /\ event' = event /\ user' = user /\ gateway' = gateway /\ pc[h] \in Critical
    BY InnerPc, InnerTrade DEF CreditInv, LockInv, jobVars
  <2>3. \A g \in Handlers : pc'[g] # "idle" => pc[g] # "idle"
    BY <2>1, <2>2 DEF CreditInv, LockInv, TypeOK, Critical
  <2> QED BY <2>2, <2>3 DEF CreditInv, Alone
<1>3. Steps'
  BY InnerSteps DEF CreditInv, LockInv
<1>4. Reads'
  BY OthersKnow, ItKnows DEF Reads
<1>5. Rows'
  <2> SUFFICES ASSUME NEW o \in Trades PROVE Sound(o)'
    BY DEF Rows
  <2>1. CASE o # trade[h]
    <3>1. Row(h) /\ Sound(o) /\ gateway' = gateway
      BY InnerRows, InnerPc DEF CreditInv, LockInv, Rows
    <3> QED BY <2>1, <3>1 DEF Row, Sound
  <2>2. CASE o = trade[h]
    <3>1. trade' = trade /\ Sound(trade[h])'
      BY RowKept, InnerPc DEF CreditInv, LockInv, jobVars
    <3> QED BY <2>2, <3>1
  <2> QED BY <2>1, <2>2
<1> QED BY <1>1, <1>2, <1>3, <1>4, <1>5 DEF CreditInv

LEMMA RowsSame ==
    ASSUME Rows, UNCHANGED <<gateway, status, credits>>
    PROVE  Rows'
BY DEF Rows, Sound

LEMMA CreditReceive ==
    ASSUME CreditInv, NEW h \in Handlers, NEW o \in Trades, NEW e \in Events,
           NEW u \in Users \cup {NoUser}, Receive(h, o, e, u)
    PROVE  CreditInv'
<1>1. LockInv'
  BY LockReceive DEF CreditInv
<1>2. /\ pc[h] = "idle" /\ Callable(h, o, e, u)
      /\ gateway' = gateway /\ status' = status /\ credits' = credits
      /\ pc'[h] \in {"read", "lookup"}
      /\ trade'[h] = o /\ event'[h] = e /\ user'[h] = u
      /\ \A g \in Handlers : g # h => /\ pc'[g] = pc[g] /\ trade'[g] = trade[g]
                                      /\ event'[g] = event[g] /\ user'[g] = user[g]
  BY DEF Receive, CreditInv, LockInv, TypeOK, dbVars, rowVars
<1>3. Alone'
  <2> SUFFICES ASSUME NEW k \in Handlers
               PROVE
        /\ pc'[k] # "idle" => (event'[k] = "redeem" <=> user'[k] # NoUser)
        /\ \A g \in Handlers :
              /\ NodeOf[g] = NodeOf[k] /\ user'[g] = user'[k] /\ user'[k] # NoUser => g = k
              /\ trade'[g] = trade'[k] /\ pc'[k] # "idle" /\ gateway[trade'[k]] = "wallet" => g = k
    BY <1>2 DEF Alone
  <2>1. pc'[k] # "idle" => (event'[k] = "redeem" <=> user'[k] # NoUser)
    BY <1>2 DEF CreditInv, Alone, Callable
  <2>2. ASSUME NEW g \in Handlers, NodeOf[g] = NodeOf[k], user'[g] = user'[k], user'[k] # NoUser
        PROVE  g = k
    BY <1>2, <2>2 DEF CreditInv, Alone, Callable
  <2>3. ASSUME NEW g \in Handlers, trade'[g] = trade'[k], pc'[k] # "idle",
               gateway[trade'[k]] = "wallet"
        PROVE  g = k
    <3>1. gateway[o] = "wallet" => e = "buy"
      BY <1>2 DEF Callable, EventsOf, TopUps, Subs
    <3>2. gateway[o] = "wallet" => \A i \in Handlers : trade[i] # o
      BY <1>2, <3>1 DEF Callable
    <3> QED BY <1>2, <2>3, <3>2 DEF CreditInv, Alone
  <2> QED BY <2>1, <2>2, <2>3
<1>4. Steps'
  BY <1>2 DEF CreditInv, Steps
<1>5. Reads'
  <2>1. ASSUME NEW g \in Handlers, g # h PROVE Known(g)'
    BY <2>1, <1>2 DEF CreditInv, Reads, Known
  <2>2. Known(h)'
    BY <1>2 DEF Known, Callable
  <2> QED BY <2>1, <2>2 DEF Reads
<1>6. Rows'
  BY <1>2, RowsSame DEF CreditInv
<1> QED BY <1>1, <1>3, <1>4, <1>5, <1>6 DEF CreditInv

\* Steps of the lock, and crashes: a request moves on towards its row, or forgets it.
LEMMA CreditLock ==
    ASSUME CreditInv, LockInv', UNCHANGED <<gateway, status, credits, event>>,
           \A g \in Handlers :
              \/ /\ trade'[g] = trade[g] /\ user'[g] = user[g]
                 /\ \/ pc'[g] = pc[g]
                    \/ pc[g] = "lookup" /\ pc'[g] = "lock"
                    \/ pc[g] = "lock" /\ pc'[g] = "read"
                    \/ pc[g] = "lock" /\ pc'[g] = "create" /\ event[g] = "buy"
                    \/ pc[g] = "unlock" /\ pc'[g] = "release"
              \/ trade'[g] = NoTrade /\ user'[g] = NoUser /\ pc'[g] = "idle"
    PROVE  CreditInv'
<1>0. \A g \in Handlers : pc'[g] # "idle" => /\ pc[g] # "idle" /\ trade'[g] = trade[g]
                                             /\ user'[g] = user[g] /\ trade[g] \in Trades
  BY DEF CreditInv, LockInv, Jobs
<1>1. Alone'
  <2>0. NoTrade \notin Trades
    BY OrdersAssumption DEF NoTrade
  <2> SUFFICES ASSUME NEW k \in Handlers
               PROVE
        /\ pc'[k] # "idle" => (event[k] = "redeem" <=> user'[k] # NoUser)
        /\ \A g \in Handlers :
              /\ NodeOf[g] = NodeOf[k] /\ user'[g] = user'[k] /\ user'[k] # NoUser => g = k
              /\ trade'[g] = trade'[k] /\ pc'[k] # "idle" /\ gateway[trade'[k]] = "wallet" => g = k
    BY DEF Alone
  <2>1. pc'[k] # "idle" => (event[k] = "redeem" <=> user'[k] # NoUser)
    BY <1>0 DEF CreditInv, Alone
  <2>2. ASSUME NEW g \in Handlers, NodeOf[g] = NodeOf[k], user'[g] = user'[k], user'[k] # NoUser
        PROVE  g = k
    BY <2>2 DEF CreditInv, Alone
  <2>3. ASSUME NEW g \in Handlers, trade'[g] = trade'[k], pc'[k] # "idle",
               gateway[trade'[k]] = "wallet"
        PROVE  g = k
    BY <2>0, <2>3, <1>0 DEF CreditInv, Alone
  <2> QED BY <2>1, <2>2, <2>3
<1>2. Steps'
  BY <1>0 DEF CreditInv, Steps
<1>3. Reads'
  <2> SUFFICES ASSUME NEW g \in Handlers PROVE Known(g)'
    BY DEF Reads
  <2> QED BY <1>0 DEF CreditInv, Reads, Known
<1>4. Rows'
  BY RowsSame DEF CreditInv
<1> QED BY <1>1, <1>2, <1>3, <1>4 DEF CreditInv

LEMMA CreditNext == ASSUME CreditInv, OneProcess, [Next]_vars PROVE CreditInv'
<1>0. LockInv'
  BY LockNext DEF CreditInv
<1>t. pc \in [Handlers -> Labels]
  BY DEF CreditInv, LockInv, TypeOK
<1>1. ASSUME NEW o \in Trades, Pay(o) \/ Void(o) PROVE CreditInv'
  BY <1>0, <1>1, CreditLock DEF Pay, Void, dbVars, rowVars, jobVars
<1>2. ASSUME NEW h \in Handlers, NEW o \in Trades, NEW e \in Events, NEW u \in Users \cup {NoUser},
             Receive(h, o, e, u)
      PROVE  CreditInv'
  BY <1>2, CreditReceive
<1>3. ASSUME NEW h \in Handlers, LockLookup(h) PROVE CreditInv'
  BY <1>0, <1>t, <1>3, CreditLock DEF LockLookup, dbVars, rowVars, jobVars
<1>4. ASSUME NEW h \in Handlers, LockAcquire(h) PROVE CreditInv'
  BY <1>0, <1>t, <1>4, CreditLock DEF LockAcquire, dbVars, rowVars, jobVars
<1>5. ASSUME NEW h \in Handlers, UnlockOrder(h) PROVE CreditInv'
  <2>1. trade \in [Handlers -> Trades \cup {NoTrade}] /\ user \in [Handlers -> Users \cup {NoUser}]
    BY DEF CreditInv, LockInv, TypeOK
  <2> QED BY <1>0, <1>t, <1>5, <2>1, CreditLock DEF UnlockOrder, Forget, dbVars, rowVars, jobVars
<1>6. ASSUME NEW h \in Handlers, Release(h) PROVE CreditInv'
  <2>1. trade \in [Handlers -> Trades \cup {NoTrade}] /\ user \in [Handlers -> Users \cup {NoUser}]
    BY DEF CreditInv, LockInv, TypeOK
  <2> QED BY <1>0, <1>t, <1>6, <2>1, CreditLock DEF Release, Forget, dbVars, rowVars
<1>7. ASSUME NEW h \in Handlers, Inner(h) PROVE CreditInv'
  BY <1>7, CreditInner
<1>8. ASSUME NEW n \in Nodes, Crash(n) PROVE CreditInv'
  BY <1>0, <1>8, CreditLock DEF Crash, dbVars, rowVars
<1>9. CASE UNCHANGED vars
  BY <1>0, <1>9, CreditLock DEF vars
<1>10. CASE AdminBind \/ AdminDelete
  BY <1>0, <1>10, CreditLock DEF AdminBind, AdminDelete, OnlyOwned, rowVars, jobVars
<1> QED BY <1>1, <1>2, <1>3, <1>4, <1>5, <1>6, <1>7, <1>8, <1>9, <1>10 DEF Next, Work, Inner

LEMMA CreditInit == Init => CreditInv
<1> HAVE Init
<1>1. LockInv
  BY LockInit
<1>2. Alone /\ Steps /\ Reads
  BY DEF Init, Alone, Steps, Reads, Known
<1>3. Rows
  BY DEF Init, Rows, Sound
<1> QED BY <1>1, <1>2, <1>3 DEF CreditInv

\* However callbacks, their repetitions, the administrator, errors and crashes
\* interleave, one process credits an order at most once.
THEOREM OrdersCreditedOnce == ASSUME OneProcess PROVE Spec => []CreditedOnce
<1>1. CreditInv => CreditedOnce
  BY DEF CreditInv, Rows, Sound, CreditedOnce
<1>2. CreditInv /\ [Next]_vars => CreditInv'
  BY CreditNext
<1> QED BY <1>1, <1>2, CreditInit, PTL DEF Spec

\* An order of a guarded gateway that was credited reads success for good.
THEOREM OrdersReadSuccess == ASSUME OneProcess PROVE Spec => []CreditedReadsSuccess
<1>1. CreditInv => CreditedReadsSuccess
  BY DEF CreditInv, Rows, Sound, CreditedReadsSuccess
<1>2. CreditInv /\ [Next]_vars => CreditInv'
  BY CreditNext
<1> QED BY <1>1, <1>2, CreditInit, PTL DEF Spec

-----------------------------------------------------------------------------
(* The invite reward. *)

LEMMA RewardNext ==
    ASSUME TypeOK, Jobs, Rewarded, [Next]_vars
    PROVE  Rewarded' /\ (RewardedOnce => RewardedOnce')
<1>t. pc \in [Handlers -> Labels] /\ rewards \in Nat /\ settled \in BOOLEAN
  BY DEF TypeOK
<1>n. ASSUME UNCHANGED <<settled, rewards>>,
             \A g \in Handlers : pc'[g] = "grant" => pc[g] = "grant"
      PROVE  Rewarded' /\ (RewardedOnce => RewardedOnce')
  BY <1>n DEF Rewarded, RewardedOnce
<1>1. ASSUME NEW o \in Trades, Pay(o) \/ Void(o) PROVE Rewarded' /\ (RewardedOnce => RewardedOnce')
  BY <1>1, <1>n DEF Pay, Void, dbVars, userVars
<1>2. ASSUME NEW h \in Handlers, NEW o \in Trades, NEW e \in Events, NEW u \in Users \cup {NoUser},
             Receive(h, o, e, u)
      PROVE  Rewarded' /\ (RewardedOnce => RewardedOnce')
  BY <1>2, <1>n, <1>t DEF Receive, dbVars, userVars
<1>3. ASSUME NEW h \in Handlers, LockLookup(h) \/ LockAcquire(h) \/ UnlockOrder(h) \/ Release(h)
      PROVE  Rewarded' /\ (RewardedOnce => RewardedOnce')
  BY <1>3, <1>n, <1>t DEF LockLookup, LockAcquire, UnlockOrder, Release, dbVars, userVars
<1>4. ASSUME NEW h \in Handlers, Settle(h) PROVE Rewarded' /\ (RewardedOnce => RewardedOnce')
  <2>1. CASE Invited /\ ~settled
    <3>1. settled' /\ rewards' = rewards /\ pc' = [pc EXCEPT ![h] = "grant"]
      BY <1>4, <2>1 DEF Settle, Goto
    <3>2. rewards = 0 /\ \A g \in Handlers : pc[g] # "grant"
      BY <2>1, <1>t DEF Rewarded
    <3> QED BY <3>1, <3>2, <1>t DEF Rewarded, RewardedOnce
  <2>2. CASE ~(Invited /\ ~settled)
    <3>1. (settled => settled') /\ rewards' = rewards /\ pc' = [pc EXCEPT ![h] = "unlock"]
      BY <1>4, <2>2 DEF Settle, Goto
    <3>2. \A g \in Handlers : pc'[g] = "grant" => pc[g] = "grant"
      BY <3>1, <1>t
    <3> QED BY <3>1, <3>2, <1>t DEF Rewarded, RewardedOnce
  <2> QED BY <2>1, <2>2
<1>5. ASSUME NEW h \in Handlers, Grant(h) PROVE Rewarded' /\ (RewardedOnce => RewardedOnce')
  BY <1>5, <1>t DEF Grant, Goto, Rewarded, RewardedOnce
<1>6. ASSUME NEW h \in Handlers, Inner(h), ~Settle(h), ~Grant(h)
      PROVE  Rewarded' /\ (RewardedOnce => RewardedOnce')
  <2> USE <1>n, <1>t DEF Goto, dbVars, userVars
  <2>1. CASE ReadToComplete(h) BY <2>1 DEF ReadToComplete
  <2>2. CASE ReadToVoid(h) BY <2>2 DEF ReadToVoid
  <2>3. CASE CommitTopUp(h) BY <2>3 DEF CommitTopUp
  <2>4. CASE SaveEpay(h) BY <2>4 DEF SaveEpay
  <2>5. CASE IncreaseUserQuota(h) BY <2>5 DEF IncreaseUserQuota
  <2>6. CASE CommitSubscription(h) BY <2>6 DEF CommitSubscription
  <2>7. CASE CommitRedeem(h) BY <2>7 DEF CommitRedeem
  <2>8. CASE CommitVoid(h) BY <2>8 DEF CommitVoid
  <2>9. CASE WalletDeduct(h) BY <2>9 DEF WalletDeduct
  <2>10. CASE WalletRefund(h) BY <2>10 DEF WalletRefund
  <2>11. CASE WalletExpire(h) BY <2>11 DEF WalletExpire
  <2>12. CASE ReadFails(h) BY <2>12 DEF ReadFails
  <2>13. CASE WriteFails(h) BY <2>13 DEF WriteFails
  <2>14. CASE WalletDeductFails(h) BY <2>14 DEF WalletDeductFails
  <2>15. CASE WalletRefundFails(h) BY <2>15 DEF WalletRefundFails
  <2>16. CASE RewardFails(h) BY <2>16 DEF RewardFails
  <2>17. CASE CapReached(h) BY <2>17 DEF CapReached
  <2> QED
    BY <1>6, <2>1, <2>2, <2>3, <2>4, <2>5, <2>6, <2>7, <2>8, <2>9, <2>10, <2>11, <2>12, <2>13,
       <2>14, <2>15, <2>16, <2>17 DEF Inner, Trouble
<1>7. ASSUME NEW n \in Nodes, Crash(n) PROVE Rewarded' /\ (RewardedOnce => RewardedOnce')
  BY <1>7, <1>n DEF Crash, dbVars, userVars
<1>8. CASE UNCHANGED vars
  BY <1>8, <1>n DEF vars
<1>9. CASE AdminBind \/ AdminDelete
  BY <1>9, <1>n DEF AdminBind, AdminDelete, OnlyOwned
<1> QED BY <1>1, <1>2, <1>3, <1>4, <1>5, <1>6, <1>7, <1>8, <1>9 DEF Next, Work, Inner

\* The customer's inviter and the customer are rewarded once, for any number of
\* purchases in any number of processes.
THEOREM OrdersRewardedOnce == Spec => []RewardedOnce
<1> DEFINE IInv == LockInv /\ Rewarded /\ RewardedOnce
<1>1. Init => IInv
  BY LockInit DEF Init, Rewarded, RewardedOnce
<1>2. IInv /\ [Next]_vars => IInv'
  BY LockNext, RewardNext DEF LockInv
<1> QED BY <1>1, <1>2, PTL DEF Spec

-----------------------------------------------------------------------------
(* Wallet purchases. *)

LEMMA PurseInner ==
    ASSUME CreditInv, Purses, crashes = 0, NEW h \in Handlers, Inner(h), event[h] = "buy"
    PROVE  Purse(h)' /\ (status'[trade[h]] = "none" => debit'[trade[h]] = 0)
<1>0. /\ trade' = trade /\ event' = event
      /\ trade[h] \in Trades /\ gateway[trade[h]] = "wallet" /\ pc[h] \in Critical
      /\ pc \in [Handlers -> Labels] /\ status \in [Trades -> Statuses]
      /\ credits \in [Trades -> Nat] /\ debit \in [Trades -> Int]
      /\ Known(h) /\ Sound(trade[h]) /\ Purse(h) /\ Price \in Nat
      /\ status[trade[h]] = "none" => debit[trade[h]] = 0
  <2>1. UNCHANGED <<gateway, jobVars>>
    BY InnerPc DEF CreditInv, LockInv
  <2>2. pc[h] # "idle" /\ trade[h] \in Trades /\ pc[h] \in Critical
    BY InnerTrade DEF CreditInv, LockInv, Critical
  <2>3. gateway[trade[h]] = "wallet"
    BY <2>2 DEF CreditInv, LockInv, Jobs, EventsOf
  <2>4. Purse(h) /\ (status[trade[h]] = "none" => debit[trade[h]] = 0)
    BY <2>2, <2>3 DEF Purses
  <2> QED BY <2>1, <2>2, <2>3, <2>4, PriceType, Numbers
          DEF CreditInv, LockInv, TypeOK, jobVars, Reads, Rows
<1> USE <1>0 DEF Purse, Goto, Set, Credit, Fault, Statuses, dbVars, rowVars, userVars, faultVars
<1>1. CASE ReadToComplete(h) BY <1>1 DEF ReadToComplete
<1>2. CASE ReadToVoid(h) BY <1>2 DEF ReadToVoid
<1>3. CASE CommitTopUp(h) BY <1>3 DEF CommitTopUp, InTransaction
<1>4. CASE SaveEpay(h) BY <1>4 DEF SaveEpay, Known
<1>5. CASE IncreaseUserQuota(h) BY <1>5 DEF IncreaseUserQuota, CreditInv, Steps
<1>6. CASE CommitSubscription(h) BY <1>6 DEF CommitSubscription
<1>7. CASE CommitRedeem(h) BY <1>7 DEF CommitRedeem
<1>8. CASE CommitVoid(h) BY <1>8 DEF CommitVoid
<1>9. CASE WalletDeduct(h) BY <1>9 DEF WalletDeduct, Known, Sound, CreditInv, Steps
<1>10. CASE WalletRefund(h) BY <1>10 DEF WalletRefund
<1>11. CASE WalletExpire(h) BY <1>11 DEF WalletExpire
<1>12. CASE Settle(h) BY <1>12 DEF Settle
<1>13. CASE Grant(h) BY <1>13 DEF Grant
<1>14. CASE ReadFails(h) BY <1>14 DEF ReadFails
<1>15. CASE WriteFails(h) BY <1>15 DEF WriteFails, Known, Sound, CreditInv, Steps
<1>16. CASE WalletDeductFails(h) BY <1>16 DEF WalletDeductFails, Known, Sound, CreditInv, Steps
<1>17. CASE WalletRefundFails(h) BY <1>17 DEF WalletRefundFails
<1>18. CASE RewardFails(h) BY <1>18 DEF RewardFails
<1>19. CASE CapReached(h) BY <1>19 DEF CapReached
<1> QED
  BY <1>1, <1>2, <1>3, <1>4, <1>5, <1>6, <1>7, <1>8, <1>9, <1>10, <1>11, <1>12, <1>13, <1>14,
     <1>15, <1>16, <1>17, <1>18, <1>19 DEF Inner, Trouble

LEMMA PurseRest ==
    ASSUME CreditInv, Purses, crashes = 0, NEW h \in Handlers, Inner(h)
    PROVE  Purses'
<1>1. /\ gateway' = gateway /\ trade' = trade /\ event' = event /\ user' = user /\ crashes' = crashes
      /\ trade[h] \in Trades /\ trade \in [Handlers -> Trades \cup {NoTrade}]
      /\ pc \in [Handlers -> Labels] /\ pc[h] # "idle" /\ debit \in [Trades -> Int]
  BY InnerPc, InnerTrade DEF CreditInv, LockInv, TypeOK, jobVars, Critical
<1>2. \A g \in Handlers : g # h => pc'[g] = pc[g]
  <2>1. PICK l \in Critical : pc' = [pc EXCEPT ![h] = l]
    BY InnerPc DEF Moves, CreditInv, LockInv
  <2> QED BY <2>1, <1>1
<1>3. \A o \in Trades : o # trade[h] => /\ status'[o] = status[o] /\ credits'[o] = credits[o]
                                        /\ debit'[o] = debit[o]
  <2>1. Row(h)
    BY InnerRows DEF CreditInv, LockInv
  <2>2. \/ debit' = debit
        \/ debit' = [debit EXCEPT ![trade[h]] = @ + Price]
        \/ debit' = [debit EXCEPT ![trade[h]] = @ - Price]
    BY InnerRow DEF CreditInv, LockInv
  <2> QED BY <2>1, <2>2, <1>1 DEF Row
<1>4. \A o \in Trades : o # trade[h] => (o \in unrefunded' <=> o \in unrefunded)
  <2>1. unrefunded' = unrefunded \/ unrefunded' = unrefunded \cup {trade[h]}
    BY InnerRow DEF CreditInv, LockInv
  <2> QED BY <2>1
<1>5. gateway[trade[h]] = "wallet" => event[h] = "buy"
  BY <1>1 DEF CreditInv, LockInv, Jobs, EventsOf, TopUps, Subs
<1>6. \A g \in Handlers : pc[g] # "idle" /\ event[g] = "buy" =>
          trade[g] \in Trades /\ gateway[trade[g]] = "wallet"
  BY DEF CreditInv, LockInv, Jobs, EventsOf
<1>7. ASSUME NEW g \in Handlers, pc'[g] # "idle", event[g] = "buy"
      PROVE  Purse(g)'
  <2>1. CASE g = h
    BY <2>1, <1>7, PurseInner
  <2>2. CASE g # h
    <3>1. pc'[g] = pc[g] /\ Purse(g)
      BY <1>2, <1>7, <2>2 DEF Purses
    <3>2. trade[g] \in Trades /\ trade[g] # trade[h]
      BY <1>1, <1>6, <1>7, <2>2, <3>1 DEF CreditInv, Alone
    <3>3. status'[trade[g]] = status[trade[g]] /\ credits'[trade[g]] = credits[trade[g]]
          /\ debit'[trade[g]] = debit[trade[g]]
      BY <3>2, <1>3
    <3> QED BY <3>1, <3>2, <3>3, <1>1, <1>4 DEF Purse
  <2> QED BY <2>1, <2>2
<1>8. ASSUME NEW o \in Trades, gateway[o] = "wallet"
      PROVE  /\ status'[o] = "none" => debit'[o] = 0
             /\ Idle(o)' /\ o \notin unrefunded' => debit'[o] = IF credits'[o] = 0 THEN 0 ELSE Price
  <2>1. CASE o = trade[h]
    BY <2>1, <1>1, <1>5, <1>8, PurseInner DEF Idle
  <2>2. CASE o # trade[h]
    <3>1. Idle(o)' => Idle(o)
      BY <1>1 DEF Idle
    <3>2. status'[o] = status[o] /\ credits'[o] = credits[o] /\ debit'[o] = debit[o]
      BY <2>2, <1>3
    <3> QED BY <2>2, <3>1, <3>2, <1>4, <1>8 DEF Purses
  <2> QED BY <2>1, <2>2
<1> QED BY <1>1, <1>7, <1>8 DEF Purses

\* The lock, the provider and new requests leave the rows alone.  A request for
\* the wallet starts with an order that does not exist and forgets it when its
\* purse is square.
LEMMA PurseAround ==
    ASSUME CreditInv, CreditInv', Purses, crashes = 0,
           UNCHANGED <<gateway, status, credits, debit, unrefunded>>,
           \A g \in Handlers :
              \/ /\ trade'[g] = trade[g] /\ event'[g] = event[g]
                 /\ \/ pc'[g] = pc[g]
                    \/ pc'[g] \in {"lookup", "lock", "create"}
                    \/ pc'[g] = "read" /\ event[g] # "buy"
                    \/ pc[g] = "unlock" /\ pc'[g] = "release"
              \/ trade'[g] = NoTrade /\ pc'[g] = "idle" /\ pc[g] \in {"unlock", "release"}
              \/ pc[g] = "idle" /\ pc'[g] = "lookup" /\ event'[g] = "buy"
              \/ pc[g] = "idle" /\ event'[g] # "buy"
    PROVE  Purses'
<1>n. NoTrade \notin Trades
  BY OrdersAssumption DEF NoTrade
<1>1. ASSUME NEW g \in Handlers, pc'[g] # "idle", event'[g] = "buy" PROVE Purse(g)'
  <2>1. CASE pc'[g] \in {"lookup", "lock", "create"}
    BY <2>1 DEF Purse
  <2>2. CASE pc'[g] \notin {"lookup", "lock", "create"}
    <3>1. /\ trade'[g] = trade[g] /\ event[g] = "buy" /\ pc[g] # "idle"
          /\ pc'[g] = pc[g] \/ (pc[g] = "unlock" /\ pc'[g] = "release")
      BY <1>1, <2>2
    <3>2. Purse(g)
      BY <3>1 DEF Purses
    <3> QED BY <3>1, <3>2 DEF Purse
  <2> QED BY <2>1, <2>2
<1>2. ASSUME NEW o \in Trades, gateway[o] = "wallet", Idle(o)', o \notin unrefunded
      PROVE  debit[o] = IF credits[o] = 0 THEN 0 ELSE Price
  <2>1. CASE Idle(o)
    BY <2>1, <1>2 DEF Purses
  <2>2. ASSUME NEW g \in Handlers, trade[g] = o
        PROVE  debit[o] = IF credits[o] = 0 THEN 0 ELSE Price
    <3>1. pc[g] # "idle" /\ event[g] = "buy"
      BY <1>2, <1>n, <2>2 DEF CreditInv, LockInv, Jobs, EventsOf, TopUps, Subs
    <3>2. trade'[g] # o
      BY <1>2 DEF Idle
    <3>3. pc[g] \in {"unlock", "release"}
      BY <2>2, <3>1, <3>2
    <3>4. Purse(g)
      BY <3>1 DEF Purses
    <3> QED BY <1>2, <2>2, <3>3, <3>4 DEF Purse
  <2> QED BY <2>1, <2>2 DEF Idle
<1> QED BY <1>1, <1>2 DEF Purses

LEMMA PurseNext ==
    ASSUME CreditInv, CreditInv', Purses, [Next]_vars
    PROVE  Purses'
<1>0. CASE crashes # 0
  <2>1. crashes' # 0
    <3>1. crashes \in Nat
      BY Numbers DEF CreditInv, LockInv, TypeOK
    <3>2. crashes' = crashes \/ crashes' = crashes + 1
      <4>1. ASSUME NEW h \in Handlers, Inner(h) PROVE crashes' = crashes
        BY <4>1, InnerPc DEF CreditInv, LockInv
      <4> QED BY <4>1 DEF Next, Work, Inner, Pay, Void, Receive, LockLookup, LockAcquire,
                 UnlockOrder, Release, Crash, AdminBind, AdminDelete, OnlyOwned, faultVars, vars
    <3> QED BY <1>0, <3>1, <3>2
  <2> QED BY <2>1 DEF Purses
<1> SUFFICES ASSUME crashes = 0 PROVE Purses'
  BY <1>0
<1>t. /\ pc \in [Handlers -> Labels] /\ trade \in [Handlers -> Trades \cup {NoTrade}]
      /\ event \in [Handlers -> Events] /\ user \in [Handlers -> Users \cup {NoUser}]
      /\ copy \in [Handlers -> Statuses]
  BY DEF CreditInv, LockInv, TypeOK
<1> USE <1>t DEF dbVars, rowVars, jobVars, faultVars, Forget
<1>1. ASSUME NEW o \in Trades, Pay(o) \/ Void(o) PROVE Purses'
  BY <1>1, PurseAround DEF Pay, Void
<1>2. ASSUME NEW h \in Handlers, NEW o \in Trades, NEW e \in Events, NEW u \in Users \cup {NoUser},
             Receive(h, o, e, u)
      PROVE  Purses'
  <2>1. e = "buy" => ~Unlocked(gateway[o], e)
    BY DEF Unlocked
  <2> QED BY <1>2, <2>1, PurseAround DEF Receive
<1>3. ASSUME NEW h \in Handlers, LockLookup(h) PROVE Purses'
  BY <1>3, PurseAround DEF LockLookup
<1>4. ASSUME NEW h \in Handlers, LockAcquire(h) PROVE Purses'
  BY <1>4, PurseAround DEF LockAcquire
<1>5. ASSUME NEW h \in Handlers, UnlockOrder(h) PROVE Purses'
  BY <1>5, PurseAround DEF UnlockOrder
<1>6. ASSUME NEW h \in Handlers, Release(h) PROVE Purses'
  BY <1>6, PurseAround DEF Release
<1>7. ASSUME NEW h \in Handlers, Inner(h) PROVE Purses'
  BY <1>7, PurseRest
<1>8. ASSUME NEW n \in Nodes, Crash(n) PROVE Purses'
  BY <1>8 DEF Crash, Purses
<1>9. CASE UNCHANGED vars
  BY <1>9, PurseAround DEF vars
<1>10. CASE AdminBind \/ AdminDelete
  BY <1>10, PurseAround DEF AdminBind, AdminDelete, OnlyOwned
<1> QED BY <1>1, <1>2, <1>3, <1>4, <1>5, <1>6, <1>7, <1>8, <1>9, <1>10 DEF Next, Work, Inner

\* A wallet purchase that is over took its price exactly when it gave the subscription,
\* for every limit of the plan and any number of failing statements, unless its refund
\* itself failed or its process died.
THEOREM OrdersWalletSquare == ASSUME OneProcess PROVE Spec => []WalletSquare
<1> DEFINE IInv == CreditInv /\ Purses
<1>1. Init => IInv
  BY CreditInit DEF Init, Purses, Idle
<1>2. IInv /\ [Next]_vars => IInv'
  BY CreditNext, PurseNext
<1>3. IInv => WalletSquare
  <2> SUFFICES ASSUME IInv, NEW o \in Trades, gateway[o] = "wallet", Idle(o), crashes = 0,
                      o \notin unrefunded
               PROVE  debit[o] = credits[o] * Price
    BY DEF WalletSquare
  <2>1. debit[o] = IF credits[o] = 0 THEN 0 ELSE Price
    BY DEF Purses
  <2>2. credits[o] \in Nat /\ credits[o] <= 1 /\ Price \in Nat
    BY PriceType DEF CreditInv, LockInv, TypeOK, Rows, Sound
  <2>3. credits[o] = 0 \/ credits[o] = 1
    BY <2>2
  <2> QED BY <2>1, <2>2, <2>3
<1> QED BY <1>1, <1>2, <1>3, PTL DEF Spec


-----------------------------------------------------------------------------
(* Acknowledgements. *)

\* What an order of a reliable gateway promises.
Promised(o) ==
    gateway[o] \in Reliable =>
        /\ status[o] # "none"
        /\ status[o] = "success" => credits[o] > 0
        /\ "paid" \in acked[o] => credits[o] > 0 \/ status[o] \in {"failed", "expired"}

Promises == \A o \in Trades : Promised(o)

\* An answer concerns the order and the event of the request.
LEMMA AnswerAcks ==
    ASSUME TypeOK, NEW h \in Handlers, trade[h] \in Trades, NEW ok \in BOOLEAN, Answer(h, ok)
    PROVE  /\ \A o \in Trades : o # trade[h] => acked'[o] = acked[o]
           /\ "paid" \in acked'[trade[h]] =>
                 "paid" \in acked[trade[h]] \/ (ok /\ event[h] = "paid")
<1>1. acked \in [Trades -> SUBSET Events]
  BY DEF TypeOK
<1>2. CASE acked' = acked
  BY <1>2
<1>3. CASE ok /\ Ack(trade[h], event[h])
  BY <1>1, <1>3 DEF Ack
<1> QED BY <1>2, <1>3 DEF Answer

\* The other orders are left alone.
LEMMA OthersPromised ==
    ASSUME TypeOK, Jobs, Steps, NEW h \in Handlers, Inner(h), NEW o \in Trades, o # trade[h],
           acked'[o] = acked[o], Promised(o)
    PROVE  Promised(o)'
<1>1. Row(h) /\ gateway' = gateway
  BY InnerRows, InnerPc
<1> QED BY <1>1 DEF Row, Promised

\* The order that the request works on: it is acknowledged in the step that credits or
\* closes it, or later.
LEMMA ItsPromise ==
    ASSUME TypeOK, Jobs, Steps, NEW h \in Handlers, Inner(h), Promises
    PROVE  Promised(trade[h])'
<1> DEFINE o == trade[h]
<1>0. /\ o \in Trades /\ gateway' = gateway /\ trade' = trade
      /\ status \in [Trades -> Statuses] /\ credits \in [Trades -> Nat]
      /\ event[h] \in EventsOf(gateway[o])
      /\ Promised(o)
  <2>1. o \in Trades /\ pc[h] \in Critical
    BY InnerTrade
  <2>2. pc[h] # "idle"
    BY <2>1 DEF Critical
  <2> QED BY <2>1, <2>2, InnerPc DEF TypeOK, Jobs, jobVars, Promises
<1>k. ASSUME status'[o] = status[o], credits'[o] = credits[o],
             "paid" \in acked'[o] => "paid" \in acked[o]
      PROVE  Promised(o)'
  BY <1>0, <1>k DEF Promised
<1>w. gateway[o] \in Reliable => event[h] \in {"paid", "void", "admin"}
  BY <1>0 DEF EventsOf, Reliable, TopUps, Subs
<1>c. ASSUME NEW n, Credit(h, n) PROVE credits'[o] > 0
  BY <1>0, <1>c DEF Credit
<1>a. ASSUME NEW ok \in BOOLEAN, Answer(h, ok)
      PROVE  "paid" \in acked'[o] => "paid" \in acked[o] \/ (ok /\ event[h] = "paid")
  BY <1>0, <1>a, AnswerAcks
<1>1. CASE ReadToComplete(h)
  <2>1. CASE status[o] = "pending"
    BY <1>1, <2>1, <1>k DEF ReadToComplete, dbVars, rowVars
  <2>2. CASE status[o] # "pending"
    <3>1. /\ Answer(h, \/ status[o] = "success"
                       \/ gateway[o] \in {"stripe", "subStripe", "creem"})
          /\ status' = status /\ credits' = credits
      BY <1>1, <2>2 DEF ReadToComplete, dbVars, rowVars
    <3>2. "paid" \in acked'[o] =>
             \/ "paid" \in acked[o]
             \/ status[o] = "success" \/ gateway[o] \in {"stripe", "subStripe", "creem"}
      BY <3>1, <1>a
    <3>3. status[o] \in {"none", "success", "failed", "expired"}
      BY <1>0, <2>2 DEF Statuses
    <3> QED BY <1>0, <3>1, <3>2, <3>3 DEF Promised, Reliable
  <2> QED BY <2>1, <2>2
<1>2. CASE ReadToVoid(h)
  <2>1. event[h] = "void" /\ status' = status /\ credits' = credits
    BY <1>2 DEF ReadToVoid, dbVars, rowVars
  <2>2. acked' = acked \/ Answer(h, TRUE)
    BY <1>2 DEF ReadToVoid
  <2> QED BY <2>1, <2>2, <1>a, <1>k
<1>3. CASE CommitTopUp(h)
  <2>1. status'[o] = "success" /\ credits'[o] > 0
    BY <1>0, <1>3, <1>c DEF CommitTopUp, Set
  <2> QED BY <1>0, <2>1 DEF Promised
<1>4. CASE SaveEpay(h)
  BY <1>0, <1>4 DEF SaveEpay, Promised, Reliable
<1>5. CASE IncreaseUserQuota(h)
  <2>1. gateway[o] = "epay"
    BY <1>5 DEF IncreaseUserQuota, Steps
  <2> QED BY <1>0, <2>1 DEF Promised, Reliable
<1>6. CASE CommitSubscription(h)
  <2>1. status'[o] = "success" /\ credits'[o] > 0
    BY <1>0, <1>6, <1>c DEF CommitSubscription, Set
  <2> QED BY <1>0, <2>1 DEF Promised
<1>7. CASE CommitRedeem(h)
  BY <1>0, <1>7, <1>w DEF CommitRedeem, Promised
<1>8. CASE CommitVoid(h)
  <2>1. status'[o] \in {"failed", "expired"} /\ credits' = credits
    BY <1>0, <1>8 DEF CommitVoid, Set
  <2> QED BY <1>0, <2>1 DEF Promised
<1>9. CASE WalletDeduct(h)
  <2>1. event[h] = "buy"
    BY <1>9 DEF WalletDeduct, Steps
  <2> QED BY <1>0, <2>1, <1>w DEF Promised
<1>10. CASE WalletRefund(h)
  BY <1>10, <1>k DEF WalletRefund, providerVars
<1>11. CASE WalletExpire(h)
  <2>1. event[h] = "buy"
    BY <1>11 DEF WalletExpire, Steps
  <2> QED BY <1>0, <2>1, <1>w DEF Promised
<1>12. CASE Settle(h)
  BY <1>12, <1>k DEF Settle, rowVars, providerVars
<1>13. CASE Grant(h)
  BY <1>13, <1>k DEF Grant, rowVars, providerVars
<1>14. CASE ReadFails(h)
  <2>1. status' = status /\ credits' = credits
    BY <1>14 DEF ReadFails, dbVars, rowVars
  <2>2. \/ Answer(h, event[h] = "void" \/ gateway[o] \in {"stripe", "subStripe", "ipn", "subIpn"})
        \/ gateway[o] = "subCreem"
    BY <1>14 DEF ReadFails
  <2>3. CASE Answer(h, event[h] = "void" \/ gateway[o] \in {"stripe", "subStripe", "ipn", "subIpn"})
    <3>1. "paid" \in acked'[o] =>
             \/ "paid" \in acked[o]
             \/ event[h] = "paid" /\ gateway[o] \in {"stripe", "subStripe", "ipn", "subIpn"}
      BY <2>3, <1>a
    <3> QED BY <1>0, <2>1, <3>1 DEF Promised, Reliable
  <2>4. CASE gateway[o] = "subCreem"
    BY <1>0, <2>4 DEF Promised, Reliable
  <2> QED BY <2>2, <2>3, <2>4
<1>15. CASE WriteFails(h)
  <2>1. status' = status /\ credits' = credits
    BY <1>15 DEF WriteFails, dbVars, rowVars
  <2>2. Answer(h, event[h] = "void" \/ ~Retries(gateway[o]))
    BY <1>15 DEF WriteFails
  <2>3. "paid" \in acked'[o] => "paid" \in acked[o] \/ ~Retries(gateway[o])
    BY <2>2, <1>a
  <2> QED BY <1>0, <2>1, <2>3 DEF Promised, Reliable, Retries
<1>16. CASE WalletDeductFails(h)
  BY <1>16, <1>k DEF WalletDeductFails, dbVars, rowVars, providerVars
<1>17. CASE WalletRefundFails(h)
  BY <1>17, <1>k DEF WalletRefundFails, dbVars, rowVars, providerVars
<1>18. CASE RewardFails(h)
  BY <1>18, <1>k DEF RewardFails, dbVars, rowVars, providerVars
<1>19. CASE CapReached(h)
  <2>1. status' = status /\ credits' = credits
    BY <1>19 DEF CapReached, dbVars, rowVars
  <2>2. Answer(h, ~Retries(gateway[o]))
    BY <1>19 DEF CapReached
  <2>3. "paid" \in acked'[o] => "paid" \in acked[o] \/ ~Retries(gateway[o])
    BY <2>2, <1>a
  <2> QED BY <1>0, <2>1, <2>3 DEF Promised, Reliable, Retries
<1>p. Promised(o)'
  BY <1>1, <1>2, <1>3, <1>4, <1>5, <1>6, <1>7, <1>8, <1>9, <1>10, <1>11, <1>12, <1>13, <1>14,
     <1>15, <1>16, <1>17, <1>18, <1>19 DEF Inner, Trouble
<1> QED BY <1>p, <1>0

\* No step on an order answers for another one.
LEMMA OthersAcked ==
    ASSUME TypeOK, Jobs, NEW h \in Handlers, Inner(h), NEW o \in Trades, o # trade[h]
    PROVE  acked'[o] = acked[o]
<1>0. trade[h] \in Trades
  BY InnerTrade
<1>1. ASSUME NEW ok \in BOOLEAN, Answer(h, ok) PROVE acked'[o] = acked[o]
  BY <1>0, <1>1, AnswerAcks
<1>2. acked' = acked \/ \E ok \in BOOLEAN : Answer(h, ok)
  <2> USE DEF providerVars
  <2>1. CASE ReadToComplete(h) BY <2>1 DEF ReadToComplete
  <2>2. CASE ReadToVoid(h) BY <2>2 DEF ReadToVoid
  <2>3. CASE CommitTopUp(h) BY <2>3 DEF CommitTopUp
  <2>4. CASE SaveEpay(h) BY <2>4 DEF SaveEpay
  <2>5. CASE IncreaseUserQuota(h) BY <2>5 DEF IncreaseUserQuota
  <2>6. CASE CommitSubscription(h) BY <2>6 DEF CommitSubscription
  <2>7. CASE CommitRedeem(h) BY <2>7 DEF CommitRedeem
  <2>8. CASE CommitVoid(h) BY <2>8 DEF CommitVoid
  <2>9. CASE WalletDeduct(h) BY <2>9 DEF WalletDeduct
  <2>10. CASE WalletRefund(h) BY <2>10 DEF WalletRefund
  <2>11. CASE WalletExpire(h) BY <2>11 DEF WalletExpire
  <2>12. CASE Settle(h) BY <2>12 DEF Settle
  <2>13. CASE Grant(h) BY <2>13 DEF Grant
  <2>14. CASE ReadFails(h) BY <2>14 DEF ReadFails
  <2>15. CASE WriteFails(h) BY <2>15 DEF WriteFails
  <2>16. CASE WalletDeductFails(h) BY <2>16 DEF WalletDeductFails
  <2>17. CASE WalletRefundFails(h) BY <2>17 DEF WalletRefundFails
  <2>18. CASE RewardFails(h) BY <2>18 DEF RewardFails
  <2>19. CASE CapReached(h) BY <2>19 DEF CapReached
  <2> QED
    BY <2>1, <2>2, <2>3, <2>4, <2>5, <2>6, <2>7, <2>8, <2>9, <2>10, <2>11, <2>12, <2>13, <2>14,
       <2>15, <2>16, <2>17, <2>18, <2>19 DEF Inner, Trouble
<1> QED BY <1>1, <1>2

\* Steps of the lock, of the provider, and crashes.
LEMMA PromisesKept ==
    ASSUME Promises, UNCHANGED <<gateway, status, credits>>,
           \A o \in Trades : acked'[o] = acked[o] \/ gateway[o] \notin Reliable
    PROVE  Promises'
BY DEF Promises, Promised

LEMMA StepsKept ==
    ASSUME Steps, UNCHANGED gateway,
           \A g \in Handlers :
              \/ /\ trade'[g] = trade[g] /\ event'[g] = event[g]
                 /\ pc'[g] = pc[g] \/ (pc'[g] = "create" /\ event[g] = "buy")
              \/ pc'[g] \notin {"increase", "create", "refund", "expire"}
    PROVE  Steps'
BY DEF Steps

LEMMA PromisesNext ==
    ASSUME LockInv, Steps, Promises, [Next]_vars
    PROVE  Steps' /\ Promises'
<1>t. /\ pc \in [Handlers -> Labels] /\ acked \in [Trades -> SUBSET Events]
      /\ TypeOK /\ Jobs
  BY DEF LockInv, TypeOK
<1> USE DEF dbVars, rowVars, jobVars, providerVars
<1>1. ASSUME NEW o \in Trades, Pay(o) \/ Void(o) PROVE Steps' /\ Promises'
  BY <1>1, StepsKept, PromisesKept DEF Pay, Void
<1>2. ASSUME NEW h \in Handlers, NEW o \in Trades, NEW e \in Events, NEW u \in Users \cup {NoUser},
             Receive(h, o, e, u)
      PROVE  Steps' /\ Promises'
  <2>1. /\ UNCHANGED <<gateway, status, credits>>
        /\ acked' = acked \/ (gateway[o] = "epay" /\ Ack(o, e))
    BY <1>2 DEF Receive
  <2>2. \A k \in Trades : acked'[k] = acked[k] \/ gateway[k] \notin Reliable
    BY <1>t, <2>1 DEF Ack, Reliable
  <2>3. \A g \in Handlers :
              \/ trade'[g] = trade[g] /\ event'[g] = event[g] /\ pc'[g] = pc[g]
              \/ pc'[g] \in {"read", "lookup"}
    BY <1>2, <1>t DEF Receive, TypeOK
  <2> QED BY <2>1, <2>2, <2>3, StepsKept, PromisesKept
<1>3. ASSUME NEW h \in Handlers, LockLookup(h) \/ LockAcquire(h) \/ UnlockOrder(h) \/ Release(h)
      PROVE  Steps' /\ Promises'
  <2>1. UNCHANGED <<gateway, status, credits, acked>>
    BY <1>3 DEF LockLookup, LockAcquire, UnlockOrder, Release
  <2>2. CASE LockLookup(h)
    BY <2>1, <2>2, <1>t, StepsKept, PromisesKept DEF LockLookup
  <2>3. CASE LockAcquire(h)
    BY <2>1, <2>3, <1>t, StepsKept, PromisesKept DEF LockAcquire
  <2>4. CASE UnlockOrder(h) \/ Release(h)
    <3>1. pc'[h] \in {"idle", "release"} /\ event' = event
      BY <2>4, <1>t DEF UnlockOrder, Release, Forget
    <3>2. \A g \in Handlers : g # h => pc'[g] = pc[g] /\ trade'[g] = trade[g]
      BY <2>4, <1>t DEF UnlockOrder, Release, Forget, TypeOK
    <3> QED BY <2>1, <3>1, <3>2, StepsKept, PromisesKept
  <2> QED BY <1>3, <2>2, <2>3, <2>4
<1>4. ASSUME NEW h \in Handlers, Inner(h) PROVE Steps' /\ Promises'
  <2>1. Steps'
    BY <1>4, <1>t, InnerSteps
  <2>2. ASSUME NEW o \in Trades PROVE Promised(o)'
    <3>1. CASE o # trade[h]
      BY <1>4, <1>t, <3>1, OthersAcked, OthersPromised DEF Promises
    <3>2. CASE o = trade[h]
      <4>1. trade' = trade /\ Promised(trade[h])'
        BY <1>4, <1>t, ItsPromise, InnerPc
      <4> QED BY <3>2, <4>1
    <3> QED BY <3>1, <3>2
  <2> QED BY <2>1, <2>2 DEF Promises
<1>5. ASSUME NEW n \in Nodes, Crash(n) PROVE Steps' /\ Promises'
  <2>1. /\ UNCHANGED <<gateway, status, credits, acked, event>>
        /\ \A g \in Handlers : \/ pc'[g] = pc[g] /\ trade'[g] = trade[g]
                               \/ pc'[g] = "idle"
    BY <1>5 DEF Crash
  <2> QED BY <2>1, StepsKept, PromisesKept
<1>6. CASE UNCHANGED vars
  BY <1>6, StepsKept, PromisesKept DEF vars
<1>7. CASE AdminBind \/ AdminDelete
  BY <1>7, StepsKept, PromisesKept DEF AdminBind, AdminDelete, OnlyOwned
<1> QED BY <1>1, <1>2, <1>3, <1>4, <1>5, <1>6, <1>7 DEF Next, Work, Inner

\* A provider that stops repeating a payment has had it applied: for every number of
\* processes, which need not exclude each other for it, of errors and of crashes.
THEOREM OrdersAckedIsApplied == Spec => []AckedIsApplied
<1> DEFINE IInv == LockInv /\ Steps /\ Promises
<1>1. Init => IInv
  <2> HAVE Init
  <2>1. LockInv
    BY LockInit
  <2>2. Steps
    BY DEF Init, Steps
  <2>3. Promises
    BY DEF Init, Promises, Promised, Reliable
  <2> QED BY <2>1, <2>2, <2>3
<1>2. IInv /\ [Next]_vars => IInv'
  BY LockNext, PromisesNext
<1>3. IInv => AckedIsApplied
  BY DEF Promises, Promised, AckedIsApplied
<1> QED BY <1>1, <1>2, <1>3, PTL DEF Spec

-----------------------------------------------------------------------------
(* The owner of a lock. *)

Owned == \A m \in locked : \E g \in Handlers : rcm[g] = m /\ pc[g] \in Critical

\* A step that touches neither the locks nor the requests that own one.
LEMMA OwnedKept ==
    ASSUME Owned, locked' \subseteq locked,
           \A g \in Handlers : rcm[g] \in locked' /\ pc[g] \in Critical =>
                                  rcm'[g] = rcm[g] /\ pc'[g] \in Critical
    PROVE  Owned'
<1> SUFFICES ASSUME NEW m \in locked' PROVE \E g \in Handlers : rcm'[g] = m /\ pc'[g] \in Critical
  BY DEF Owned
<1>1. PICK g \in Handlers : rcm[g] = m /\ pc[g] \in Critical
  BY DEF Owned
<1> QED BY <1>1

LEMMA OwnedNext ==
    ASSUME LockInv, Owned, [Next]_vars
    PROVE  Owned'
<1>t. /\ pc \in [Handlers -> Labels] /\ rcm \in [Handlers -> Mutexes \cup {NoMutex}]
      /\ TypeOK /\ Jobs /\ Entries /\ locked \subseteq Mutexes /\ NoMutex \notin locked
  BY OrdersAssumption DEF LockInv, TypeOK, NoMutex
<1>1. ASSUME UNCHANGED <<pc, rcm, locked>> PROVE Owned'
  BY <1>1, OwnedKept
<1>2. ASSUME NEW o \in Trades, Pay(o) \/ Void(o) PROVE Owned'
  BY <1>1, <1>2 DEF Pay, Void, lockVars
<1>3. ASSUME NEW h \in Handlers, NEW o \in Trades, NEW e \in Events, NEW u \in Users \cup {NoUser},
             Receive(h, o, e, u)
      PROVE  Owned'
  <2>1. UNCHANGED <<rcm, locked>> /\ pc[h] = "idle" /\ \A g \in Handlers \ {h} : pc'[g] = pc[g]
    BY <1>3, <1>t DEF Receive, lockVars
  <2>2. "idle" \notin Critical
    BY DEF Critical
  <2>3. \A g \in Handlers : pc[g] \in Critical => rcm'[g] = rcm[g] /\ pc'[g] \in Critical
    BY <2>1, <2>2
  <2> QED BY <2>1, <2>3, OwnedKept
<1>4. ASSUME NEW h \in Handlers, LockLookup(h) PROVE Owned'
  <2>1. /\ pc[h] = "lookup" /\ locked' = locked
        /\ \A g \in Handlers \ {h} : pc'[g] = pc[g] /\ rcm'[g] = rcm[g]
    BY <1>4, <1>t DEF LockLookup
  <2>2. "lookup" \notin Critical
    BY DEF Critical
  <2>3. \A g \in Handlers : pc[g] \in Critical => rcm'[g] = rcm[g] /\ pc'[g] \in Critical
    BY <2>1, <2>2
  <2> QED BY <2>1, <2>3, OwnedKept
<1>5. ASSUME NEW h \in Handlers, LockAcquire(h) PROVE Owned'
  <2>1. /\ pc[h] = "lock" /\ locked' = locked \cup {rcm[h]} /\ rcm' = rcm
        /\ pc'[h] \in {"create", "read"}
        /\ \A g \in Handlers \ {h} : pc'[g] = pc[g]
    BY <1>5, <1>t DEF LockAcquire
  <2>2. {"create", "read"} \subseteq Critical /\ "lock" \notin Critical
    BY DEF Critical
  <2> SUFFICES ASSUME NEW m \in locked'
               PROVE  \E g \in Handlers : rcm'[g] = m /\ pc'[g] \in Critical
    BY DEF Owned
  <2>3. CASE m = rcm[h]
    BY <2>1, <2>2, <2>3
  <2>4. CASE m \in locked
    BY <2>1, <2>2, <2>4 DEF Owned
  <2> QED BY <2>1, <2>3, <2>4
<1>6. ASSUME NEW h \in Handlers, UnlockOrder(h) PROVE Owned'
  <2>1. \A g \in Handlers \ {h} : pc'[g] = pc[g] /\ rcm'[g] = rcm[g]
    BY <1>6, <1>t DEF UnlockOrder, Forget
  <2>2. pc[h] = "unlock" /\ (locked' = locked \/ locked' = locked \ {Entry(h)})
    BY <1>6 DEF UnlockOrder
  <2>3. rcm[h] \notin locked'
    <3>1. CASE rcm[h] = NoMutex
      BY <1>t, <2>2, <3>1
    <3>2. CASE rcm[h] # NoMutex
      <4>1. Entry(h) = rcm[h] /\ ~Unlocked(gateway[trade[h]], event[h])
        BY <1>t, <2>2, <3>2 DEF Entries, Jobs
      <4>2. locked' = locked \ {Entry(h)}
        BY <1>6, <3>2, <4>1 DEF UnlockOrder
      <4> QED BY <4>1, <4>2
    <3> QED BY <3>1, <3>2
  <2>4. \A g \in Handlers : rcm[g] \in locked' /\ pc[g] \in Critical =>
                               rcm'[g] = rcm[g] /\ pc'[g] \in Critical
    BY <2>1, <2>3
  <2>5. locked' \subseteq locked
    BY <2>2
  <2> QED BY <2>4, <2>5, OwnedKept
<1>7. ASSUME NEW h \in Handlers, Release(h) PROVE Owned'
  <2>1. /\ pc[h] = "release" /\ locked' = locked
        /\ \A g \in Handlers \ {h} : pc'[g] = pc[g] /\ rcm'[g] = rcm[g]
    BY <1>7, <1>t DEF Release, Forget
  <2>2. "release" \notin Critical
    BY DEF Critical
  <2>3. \A g \in Handlers : pc[g] \in Critical => rcm'[g] = rcm[g] /\ pc'[g] \in Critical
    BY <2>1, <2>2
  <2> QED BY <2>1, <2>3, OwnedKept
<1>8. ASSUME NEW h \in Handlers, Inner(h) PROVE Owned'
  <2>1. PICK l \in Critical : pc' = [pc EXCEPT ![h] = l]
    BY <1>8, <1>t, InnerPc DEF Moves
  <2>2. rcm' = rcm /\ locked' = locked
    BY <1>8, <1>t, InnerPc DEF lockVars
  <2>3. \A g \in Handlers : pc[g] \in Critical => pc'[g] \in Critical
    BY <1>t, <2>1
  <2> QED BY <2>2, <2>3, OwnedKept
<1>9. ASSUME NEW n \in Nodes, Crash(n) PROVE Owned'
  <2>1. /\ locked' = locked \ {rcm[g] : g \in {k \in Handlers : NodeOf[k] = n}}
        /\ \A g \in Handlers : NodeOf[g] # n => pc'[g] = pc[g] /\ rcm'[g] = rcm[g]
    BY <1>9 DEF Crash
  <2>2. \A g \in Handlers : rcm[g] \in locked' => NodeOf[g] # n
    BY <2>1
  <2> QED BY <2>1, <2>2, OwnedKept
<1>10. CASE UNCHANGED vars
  BY <1>1, <1>10 DEF vars
<1>11. CASE AdminBind \/ AdminDelete
  BY <1>1, <1>11 DEF AdminBind, AdminDelete, OnlyOwned, lockVars
<1> QED BY <1>2, <1>3, <1>4, <1>5, <1>6, <1>7, <1>8, <1>9, <1>10, <1>11 DEF Next, Work, Inner

\* A request that waits for a lock waits for one request of its own process and order,
\* which itself waits for none: callbacks cannot block each other for good, and no error
\* path or crash leaves a mutex locked behind.
THEOREM OrdersLockOwned == Spec => []LockOwned
<1> DEFINE IInv == LockInv /\ Owned
<1>1. Init => IInv
  BY LockInit DEF Init, Owned
<1>2. IInv /\ [Next]_vars => IInv'
  BY LockNext, OwnedNext
<1>3. ASSUME LockInv, Owned PROVE LockOwned
  <2> SUFFICES ASSUME NEW m \in locked
               PROVE  \E g \in Handlers :
                         /\ rcm[g] = m /\ pc[g] \in Critical
                         /\ \A h \in Handlers : rcm[h] = m => NodeOf[h] = NodeOf[g]
                                                              /\ trade[h] = trade[g]
    BY DEF LockOwned
  <2>1. PICK g \in Handlers : rcm[g] = m /\ pc[g] \in Critical
    BY <1>3 DEF Owned
  <2>2. m # NoMutex
    BY <1>3, OrdersAssumption DEF LockInv, TypeOK, NoMutex
  <2>3. \A h \in Handlers : rcm[h] = m =>
           NodeOf[h] \in Nodes /\ trade[h] \in Trades /\ orderLocks[NodeOf[h]][trade[h]] = m
    BY <1>3, <2>2, OrdersAssumption DEF LockInv, Entries, Entry, Jobs
  <2>4. \A h \in Handlers : rcm[h] = m => NodeOf[h] = NodeOf[g] /\ trade[h] = trade[g]
    BY <1>3, <2>1, <2>2, <2>3 DEF LockInv, Injective
  <2> QED BY <2>1, <2>4
<1>4. IInv => LockOwned
  BY <1>3
<1> QED BY <1>1, <1>2, <1>4, PTL DEF Spec
=============================================================================

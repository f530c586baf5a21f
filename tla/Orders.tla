------------------------------- MODULE Orders -------------------------------
(***************************************************************************)
(* Orders and redemption codes of one customer, from the payment to the    *)
(* credit: the callbacks of controller/topup*.go and of                    *)
(* controller/subscription_payment_*.go, the administrator's completion,   *)
(* model/topup.go, CompleteSubscriptionOrder and ExpireSubscriptionOrder   *)
(* of model/subscription.go, Redeem of model/redemption.go, and the invite *)
(* reward that follows the first purchase.                                 *)
(*                                                                         *)
(* What keeps a callback, its repetition and the administrator apart is    *)
(* LockOrder, a mutex per trade number in the memory of one process.  The  *)
(* transactions ask for FOR UPDATE with the setting gorm:query_option of   *)
(* GORM 1, which the GORM 2 of go.mod ignores: a read and the save that    *)
(* follows it are two steps.                                               *)
(***************************************************************************)
EXTENDS Integers, FiniteSets

CONSTANTS
    Trades,      \* trade numbers, and keys of redemption codes
    Gateways,    \* what an order may be paid with
    Handlers,    \* requests that a process can be working on
    Nodes,       \* processes
    NodeOf,      \* NodeOf[h]: the process of h
    Mutexes,     \* objects refCountedMutex
    Users,       \* users who may redeem a code
    Unit,        \* QuotaPerUnit
    Dollars,     \* dollars of an order
    Product,     \* quota that a Creem product sells
    Start,       \* the customer's quota at the start
    Invited,     \* the customer has an inviter
    Cap,         \* MaxPurchasePerUser of the plan on sale, 0 for none
    MaxErrors,   \* bound on the database errors
    MaxCrashes   \* bound on the crashes of processes

\* ipn stands for Cryptomus, NOWPayments and Dodo Payments, which have one shape.
TopUps == {"epay", "stripe", "creem", "waffo", "pancake", "ipn"}
Subs == {"subEpay", "subStripe", "subCreem", "subIpn"}

ASSUME OrdersAssumption ==
    /\ Gateways \subseteq TopUps \cup Subs \cup {"wallet", "code"}
    /\ NodeOf \in [Handlers -> Nodes]
    /\ IsFiniteSet(Handlers)
    /\ Unit \in Nat \ {0} /\ Dollars \in Nat \ {0} /\ Product \in Nat \ {0}
    /\ Start \in Nat
    /\ Invited \in BOOLEAN
    /\ Cap \in Nat
    /\ MaxErrors \in Nat /\ MaxCrashes \in Nat
    /\ "no trade" \notin Trades /\ "no mutex" \notin Mutexes /\ "no user" \notin Users

VARIABLES
    gateway,   \* gateway[o]: what o is paid with
    status,    \* status[o]: column status of the order or of the code
    credits,   \* credits[o]: how often o was credited, or its subscription created
    debit,     \* debit[o]: quota taken for the wallet order o and not given back
    unrefunded,  \* the wallet orders whose refund was tried and failed
    quota,     \* quota of the customer
    settled,   \* column aff_reward_settled of the customer
    rewards,   \* how often the invite reward was granted
    owned,     \* subscriptions of the plan that the customer has had
    charge,    \* charge[o]: what the payment provider has done with o
    acked,     \* acked[o]: the provider's events that it was told are handled
    pc,        \* pc[h]: where h stands
    trade,     \* trade[h]: the order h works on
    event,     \* event[h]: what h was called for
    user,      \* user[h]: who redeems, when h redeems
    copy,      \* copy[h]: the status h has read
    orderLocks,  \* orderLocks[n][o]: the mutex of o in the map of process n
    rcm,       \* rcm[h]: the mutex h has looked up
    refCount,  \* refCount[m]
    locked,    \* the mutexes that are locked
    errors,    \* database errors so far
    crashes    \* crashes so far

rowVars == <<gateway, status, credits, debit, unrefunded>>
userVars == <<quota, settled, rewards, owned>>
dbVars == <<rowVars, userVars>>
providerVars == <<charge, acked>>
lockVars == <<orderLocks, rcm, refCount, locked>>
jobVars == <<trade, event, user>>
faultVars == <<errors, crashes>>
vars == <<gateway, status, credits, debit, unrefunded, quota, settled, rewards, owned,
          charge, acked, pc, trade, event, user, copy,
          orderLocks, rcm, refCount, locked, errors, crashes>>

Events == {"paid", "void", "admin", "buy", "redeem"}

Statuses == {"none", "pending", "success", "failed", "expired"}

NoTrade == "no trade"
NoUser == "no user"
NoMutex == "no mutex"

\* Where a handler stands while it holds the lock of its order.
Critical == {"create", "read", "write", "increase", "settle", "grant",
             "refund", "expire", "unlock"}

Labels == Critical \cup {"idle", "lookup", "lock", "release"}

-----------------------------------------------------------------------------
(* What an order is worth and who asks for the lock. *)

Price == Dollars * Unit

\* What the callback of gateway g credits: Creem's rows hold the quota itself.
Worth(g) == IF g = "creem" THEN Product
            ELSE IF g \in TopUps \cup {"code"} THEN Price ELSE 0

\* Column amount (for Stripe, money) of an order paid with g.
Amount(g) == IF g = "creem" THEN Product ELSE Dollars

\* What ManualCompleteTopUp credits: Amount, or Money for Stripe, in dollars.  Orders are
\* of whole dollars: for a fraction of one, the decimal that is truncated here and the
\* floating-point product of Stripe's callback may differ by a unit of quota.
ManualWorth(g) == Amount(g) * Unit

\* The handlers that never call LockOrder: TopUp of a code, and Waffo's
\* notification of a payment that failed.
Unlocked(g, e) == e = "redeem" \/ (g = "waffo" /\ e = "void")

\* The events that concern an order of gateway g.
EventsOf(g) ==
    {e \in Events :
        \/ e = "paid" /\ g \in TopUps \cup Subs
        \/ e = "void" /\ g \in {"stripe", "waffo", "ipn", "subStripe", "subIpn"}
        \/ e = "admin" /\ g \in TopUps
        \/ e = "buy" /\ g = "wallet"
        \/ e = "redeem" /\ g = "code"}

\* Callbacks that tell the provider to repeat an event which was not applied.
Retries(g) == g \in {"creem", "waffo", "pancake", "ipn", "subEpay", "subCreem", "subIpn"}

-----------------------------------------------------------------------------
Init ==
    /\ gateway \in [Trades -> Gateways]
    /\ status = [o \in Trades |-> IF gateway[o] = "wallet" THEN "none" ELSE "pending"]
    /\ credits = [o \in Trades |-> 0]
    /\ debit = [o \in Trades |-> 0]
    /\ unrefunded = {}
    /\ quota = Start
    /\ settled = FALSE
    /\ rewards = 0
    /\ owned = 0
    /\ charge = [o \in Trades |-> "open"]
    /\ acked = [o \in Trades |-> {}]
    /\ pc = [h \in Handlers |-> "idle"]
    /\ trade = [h \in Handlers |-> NoTrade]
    /\ event = [h \in Handlers |-> "paid"]
    /\ user = [h \in Handlers |-> NoUser]
    /\ copy = [h \in Handlers |-> "none"]
    /\ orderLocks = [n \in Nodes |-> [o \in Trades |-> NoMutex]]
    /\ rcm = [h \in Handlers |-> NoMutex]
    /\ refCount = [m \in Mutexes |-> 0]
    /\ locked = {}
    /\ errors = 0
    /\ crashes = 0

-----------------------------------------------------------------------------
(* The payment provider. *)

\* The customer pays, perhaps after the provider gave an attempt up.
Pay(o) ==
    /\ gateway[o] \in TopUps \cup Subs
    /\ charge[o] # "paid"
    /\ charge' = [charge EXCEPT ![o] = "paid"]
    /\ UNCHANGED <<dbVars, acked, pc, jobVars, copy, lockVars, faultVars>>

\* The provider closes the order: the payment failed, or its session expired.
Void(o) ==
    /\ "void" \in EventsOf(gateway[o])
    /\ charge[o] = "open"
    /\ charge' = [charge EXCEPT ![o] = "void"]
    /\ UNCHANGED <<dbVars, acked, pc, jobVars, copy, lockVars, faultVars>>

Ack(o, e) == acked' = [acked EXCEPT ![o] = @ \cup {e}]

\* A notification of what the provider did.  It may come late, twice, or after
\* a later one.
Notified(o, e) == e = charge[o] \/ (e = "void" /\ charge[o] = "paid")

\* The plan has a limit per customer, or per team, and it is reached.
Capped == Cap > 0 /\ owned >= Cap

\* Someone calls the server about o.  A user's TopUp is turned away while another
\* one of the user is in progress in the same process, and a wallet purchase when the
\* customer has had the plan as often as it may be bought.
Callable(h, o, e, u) ==
    /\ e \in EventsOf(gateway[o])
    /\ e \in {"paid", "void"} => Notified(o, e)
    /\ e = "redeem" <=> u # NoUser
    /\ e = "redeem" => \A g \in Handlers : NodeOf[g] = NodeOf[h] => user[g] # u
    /\ e = "buy" => /\ status[o] = "none" /\ ~Capped
                    /\ \A g \in Handlers : trade[g] # o

\* EpayNotify answers success before it looks at the order.
Receive(h, o, e, u) ==
    /\ pc[h] = "idle"
    /\ Callable(h, o, e, u)
    /\ trade' = [trade EXCEPT ![h] = o]
    /\ event' = [event EXCEPT ![h] = e]
    /\ user' = [user EXCEPT ![h] = u]
    /\ pc' = [pc EXCEPT ![h] = IF Unlocked(gateway[o], e) THEN "read" ELSE "lookup"]
    /\ IF gateway[o] = "epay" /\ e = "paid" THEN Ack(o, e) ELSE UNCHANGED acked
    /\ UNCHANGED <<dbVars, charge, copy, lockVars, faultVars>>

-----------------------------------------------------------------------------
(* LockOrder and UnlockOrder. *)

Entry(h) == orderLocks[NodeOf[h]][trade[h]]

\* An object nobody refers to: what &refCountedMutex{} allocates.
Unreferenced(m) ==
    /\ \A h \in Handlers : rcm[h] # m
    /\ \A n \in Nodes, o \in Trades : orderLocks[n][o] # m

\* Mutant: only the request that creates the entry counts.
LockLookupUncounted(h) ==
    /\ pc[h] = "lookup"
    /\ \E m \in Mutexes :
          /\ IF Entry(h) = NoMutex
             THEN m = CHOOSE k \in Mutexes : Unreferenced(k)
             ELSE m = Entry(h)
          /\ Entry(h) = NoMutex => Unreferenced(m)
          /\ orderLocks' = [orderLocks EXCEPT ![NodeOf[h]][trade[h]] = m]
          /\ rcm' = [rcm EXCEPT ![h] = m]
          /\ refCount' = IF Entry(h) = NoMutex THEN [refCount EXCEPT ![m] = 1] ELSE refCount
    /\ pc' = [pc EXCEPT ![h] = "lock"]
    /\ UNCHANGED <<dbVars, providerVars, jobVars, copy, locked, faultVars>>

\* The part of LockOrder under createLock.
LockLookup(h) ==
    /\ pc[h] = "lookup"
    /\ \E m \in Mutexes :
          /\ IF Entry(h) = NoMutex
             THEN m = CHOOSE k \in Mutexes : Unreferenced(k)
             ELSE m = Entry(h)
          /\ Entry(h) = NoMutex => Unreferenced(m)
          /\ orderLocks' = [orderLocks EXCEPT ![NodeOf[h]][trade[h]] = m]
          /\ rcm' = [rcm EXCEPT ![h] = m]
          /\ refCount' = [refCount EXCEPT ![m] = @ + 1]
    /\ pc' = [pc EXCEPT ![h] = "lock"]
    /\ UNCHANGED <<dbVars, providerVars, jobVars, copy, locked, faultVars>>

\* rcm.mu.Lock
LockAcquire(h) ==
    /\ pc[h] = "lock"
    /\ rcm[h] \notin locked
    /\ locked' = locked \cup {rcm[h]}
    /\ pc' = [pc EXCEPT ![h] = IF event[h] = "buy" THEN "create" ELSE "read"]
    /\ UNCHANGED <<dbVars, providerVars, jobVars, copy, orderLocks, rcm, refCount, faultVars>>

\* A handler that is done forgets its order.
Forget(h) ==
    /\ trade' = [trade EXCEPT ![h] = NoTrade]
    /\ user' = [user EXCEPT ![h] = NoUser]
    /\ copy' = [copy EXCEPT ![h] = "none"]
    /\ rcm' = [rcm EXCEPT ![h] = NoMutex]
    /\ UNCHANGED event

\* UnlockOrder up to mu.Unlock: it loads the entry again, and does nothing
\* when there is none.
UnlockOrder(h) ==
    /\ pc[h] = "unlock"
    /\ IF Unlocked(gateway[trade[h]], event[h]) \/ Entry(h) = NoMutex
       THEN /\ pc' = [pc EXCEPT ![h] = "idle"]
            /\ Forget(h)
            /\ UNCHANGED locked
       ELSE /\ pc' = [pc EXCEPT ![h] = "release"]
            /\ rcm' = [rcm EXCEPT ![h] = Entry(h)]
            /\ locked' = locked \ {Entry(h)}
            /\ UNCHANGED <<jobVars, copy>>
    /\ UNCHANGED <<dbVars, providerVars, orderLocks, refCount, faultVars>>

\* Mutant: the entry is deleted while others wait for its mutex.
ReleaseAlways(h) ==
    /\ pc[h] = "release"
    /\ refCount' = [refCount EXCEPT ![rcm[h]] = @ - 1]
    /\ orderLocks' = [orderLocks EXCEPT ![NodeOf[h]][trade[h]] = NoMutex]
    /\ pc' = [pc EXCEPT ![h] = "idle"]
    /\ Forget(h)
    /\ UNCHANGED <<dbVars, providerVars, locked, faultVars>>

\* The part of UnlockOrder under createLock.
Release(h) ==
    /\ pc[h] = "release"
    /\ refCount' = [refCount EXCEPT ![rcm[h]] = @ - 1]
    /\ orderLocks' = IF refCount[rcm[h]] = 1
                     THEN [orderLocks EXCEPT ![NodeOf[h]][trade[h]] = NoMutex]
                     ELSE orderLocks
    /\ pc' = [pc EXCEPT ![h] = "idle"]
    /\ Forget(h)
    /\ UNCHANGED <<dbVars, providerVars, locked, faultVars>>

-----------------------------------------------------------------------------
(* What the handlers do with the row, under the lock or not. *)

Goto(h, l) == pc' = [pc EXCEPT ![h] = l]

Answer(h, ok) ==
    IF ok /\ event[h] \in {"paid", "void"} THEN Ack(trade[h], event[h]) ELSE UNCHANGED acked

\* The subscription of a pending order cannot be created: the plan's limit is reached,
\* which the orders before it, or the administrator, may have done since it was placed.
Refused(h) ==
    /\ status[trade[h]] = "pending"
    /\ gateway[trade[h]] \in Subs \cup {"wallet"} /\ event[h] \in {"paid", "buy"}
    /\ Capped

\* Mutant: the early return of an order that is not pending skips UnlockOrder.
ReadKeepsLock(h) ==
    LET o == trade[h]
    IN  /\ pc[h] = "read" /\ event[h] # "void" /\ ~Refused(h)
        /\ IF status[o] = "pending"
           THEN /\ Goto(h, "write")
                /\ copy' = [copy EXCEPT ![h] = status[o]]
                /\ UNCHANGED <<acked, jobVars, rcm>>
           ELSE Goto(h, "idle") /\ Answer(h, TRUE) /\ Forget(h)
        /\ UNCHANGED <<dbVars, charge, orderLocks, refCount, locked, faultVars>>

\* The handlers that complete an order read it, and go on only when it is
\* pending.  An order that succeeded is reported as handled, any other is an
\* error, which Stripe and Creem do not hear of.
ReadToComplete(h) ==
    LET o == trade[h]
    IN  /\ pc[h] = "read" /\ event[h] # "void" /\ ~Refused(h)
        /\ copy' = [copy EXCEPT ![h] = status[o]]
        /\ IF status[o] = "pending"
           THEN Goto(h, "write") /\ UNCHANGED acked
           ELSE /\ Goto(h, "unlock")
                /\ Answer(h, \/ status[o] = "success"
                             \/ gateway[o] \in {"stripe", "subStripe", "creem"})
        /\ UNCHANGED <<dbVars, charge, jobVars, lockVars, faultVars>>

\* CreateUserSubscriptionFromPlanTx and CreateTeamSubscriptionFromPlanTx count the
\* customer's subscriptions and give up: no statement fails, the order stays pending,
\* and a repetition meets the same.
CapReached(h) ==
    /\ pc[h] = "read" /\ Refused(h)
    /\ copy' = [copy EXCEPT ![h] = status[trade[h]]]
    /\ Goto(h, IF event[h] = "buy" THEN "refund" ELSE "unlock")
    /\ Answer(h, ~Retries(gateway[trade[h]]))
    /\ UNCHANGED <<dbVars, charge, jobVars, lockVars, faultVars>>

\* Mutant: every expiry or failure is written, as sessionExpired does.
ReadToVoidUnchecked(h) ==
    LET o == trade[h]
    IN  /\ pc[h] = "read" /\ event[h] = "void"
        /\ copy' = [copy EXCEPT ![h] = status[o]]
        /\ Goto(h, "write")
        /\ UNCHANGED <<dbVars, providerVars, jobVars, lockVars, faultVars>>

\* The handlers that close an order do so when it is pending, but sessionExpired
\* of a Stripe top-up only logs that it is not.
ReadToVoid(h) ==
    LET o == trade[h]
    IN  /\ pc[h] = "read" /\ event[h] = "void"
        /\ copy' = [copy EXCEPT ![h] = status[o]]
        /\ IF status[o] = "pending" \/ gateway[o] = "stripe"
           THEN Goto(h, "write") /\ UNCHANGED acked
           ELSE Goto(h, "unlock") /\ Answer(h, TRUE)
        /\ UNCHANGED <<dbVars, charge, jobVars, lockVars, faultVars>>

Fault == errors < MaxErrors /\ errors' = errors + 1

\* A row that cannot be read is taken for one that does not exist, which the
\* callbacks of ipn accept; Creem's does when the order is a recurring one.
ReadFails(h) ==
    LET g == gateway[trade[h]]
    IN  /\ pc[h] = "read"
        /\ Fault
        /\ Goto(h, IF event[h] = "buy" THEN "refund" ELSE "unlock")
        /\ \/ Answer(h, event[h] = "void" \/ g \in {"stripe", "subStripe", "ipn", "subIpn"})
           \/ g = "subCreem" /\ Answer(h, TRUE)
        /\ UNCHANGED <<dbVars, charge, jobVars, copy, lockVars, crashes>>

Credit(h, n) ==
    /\ credits' = [credits EXCEPT ![trade[h]] = @ + 1]
    /\ quota' = quota + n

Set(h, s) == status' = [status EXCEPT ![trade[h]] = s]

InTransaction(h) ==
    LET g == gateway[trade[h]]
    IN  event[h] \in {"paid", "admin"} /\ g \in TopUps /\ ~(g = "epay" /\ event[h] = "paid")

\* Recharge, RechargeCreem, RechargeWaffo and its copies, and ManualCompleteTopUp:
\* the order and the user are saved in one transaction.
CommitTopUp(h) ==
    LET g == gateway[trade[h]]
    IN  /\ pc[h] = "write" /\ InTransaction(h)
        /\ Set(h, "success")
        /\ Credit(h, IF event[h] = "admin" THEN ManualWorth(g) ELSE Worth(g))
        /\ Answer(h, TRUE)
        /\ Goto(h, "settle")
        /\ UNCHANGED <<gateway, debit, unrefunded, settled, rewards, owned, charge, jobVars, copy, lockVars, faultVars>>

\* EpayNotify saves the order and, in a second statement, the user.
SaveEpay(h) ==
    /\ pc[h] = "write" /\ gateway[trade[h]] = "epay" /\ event[h] = "paid"
    /\ Set(h, "success")
    /\ Goto(h, "increase")
    /\ UNCHANGED <<gateway, credits, debit, unrefunded, userVars, providerVars, jobVars, copy,
                   lockVars, faultVars>>

IncreaseUserQuota(h) ==
    /\ pc[h] = "increase"
    /\ Credit(h, Worth("epay"))
    /\ Goto(h, "settle")
    /\ UNCHANGED <<gateway, status, debit, unrefunded, settled, rewards, owned, providerVars, jobVars, copy,
                   lockVars, faultVars>>

\* CompleteSubscriptionOrder creates the subscription and saves the order.  The
\* customer's subscriptions were counted before: concurrent orders may exceed the limit.
CommitSubscription(h) ==
    /\ pc[h] = "write" /\ gateway[trade[h]] \in Subs \cup {"wallet"}
    /\ event[h] \in {"paid", "buy"}
    /\ Set(h, "success")
    /\ Credit(h, 0)
    /\ owned' = owned + 1
    /\ Answer(h, TRUE)
    /\ Goto(h, "settle")
    /\ UNCHANGED <<gateway, debit, unrefunded, settled, rewards, charge, jobVars, copy, lockVars, faultVars>>

\* Redeem: a code has the column status of its own.
CommitRedeem(h) ==
    /\ pc[h] = "write" /\ event[h] = "redeem"
    /\ Set(h, "success")
    /\ Credit(h, Worth("code"))
    /\ Goto(h, "unlock")
    /\ UNCHANGED <<gateway, debit, unrefunded, settled, rewards, owned, providerVars, jobVars, copy, lockVars, faultVars>>

\* sessionExpired, ExpireSubscriptionOrder, and the callbacks that mark failed.
CommitVoid(h) ==
    /\ pc[h] = "write" /\ event[h] = "void"
    /\ Set(h, IF gateway[trade[h]] \in {"waffo", "ipn"} THEN "failed" ELSE "expired")
    /\ Answer(h, TRUE)
    /\ Goto(h, "unlock")
    /\ UNCHANGED <<gateway, credits, debit, unrefunded, userVars, charge, jobVars, copy, lockVars, faultVars>>

\* Mutant: a top-up that failed is acknowledged like one that succeeded.
WriteFailsQuietly(h) ==
    /\ pc[h] \in {"write", "increase"}
    /\ Fault
    /\ Goto(h, IF event[h] = "buy" THEN "refund" ELSE "unlock")
    /\ Answer(h, TRUE)
    /\ UNCHANGED <<dbVars, charge, jobVars, copy, lockVars, crashes>>

\* The database refuses a statement: the transaction is rolled back, and the
\* provider hears of it unless the order is one of Stripe's or of Epay's.
WriteFails(h) ==
    /\ pc[h] \in {"write", "increase"}
    /\ Fault
    /\ Goto(h, IF event[h] = "buy" THEN "refund" ELSE "unlock")
    /\ Answer(h, event[h] = "void" \/ ~Retries(gateway[trade[h]]))
    /\ UNCHANGED <<dbVars, charge, jobVars, copy, lockVars, crashes>>

-----------------------------------------------------------------------------
(* SubscriptionRequestWalletPay. *)

\* The order is created and paid for in one transaction, or neither.
WalletDeduct(h) ==
    LET o == trade[h]
    IN  /\ pc[h] = "create"
        /\ IF quota >= Price
           THEN /\ Set(h, "pending")
                /\ debit' = [debit EXCEPT ![o] = @ + Price]
                /\ quota' = quota - Price
                /\ Goto(h, "read")
           ELSE /\ Goto(h, "unlock")
                /\ UNCHANGED <<status, debit, quota>>
        /\ UNCHANGED <<gateway, credits, unrefunded, settled, rewards, owned, providerVars, jobVars, copy,
                       lockVars, faultVars>>

WalletDeductFails(h) ==
    /\ pc[h] = "create"
    /\ Fault
    /\ Goto(h, "unlock")
    /\ UNCHANGED <<dbVars, providerVars, jobVars, copy, lockVars, crashes>>

\* Mutant: the order is expired and nothing given back.
WalletKeepsPrice(h) ==
    /\ pc[h] = "refund"
    /\ Goto(h, "expire")
    /\ UNCHANGED <<dbVars, providerVars, jobVars, copy, lockVars, faultVars>>

\* Activation failed: the deducted quota is given back, if that works.
WalletRefund(h) ==
    LET o == trade[h]
    IN  /\ pc[h] = "refund"
        /\ debit' = [debit EXCEPT ![o] = @ - Price]
        /\ quota' = quota + Price
        /\ Goto(h, "expire")
        /\ UNCHANGED <<gateway, status, credits, unrefunded, settled, rewards, owned, providerVars, jobVars,
                       copy, lockVars, faultVars>>

WalletRefundFails(h) ==
    /\ pc[h] = "refund"
    /\ Fault
    /\ unrefunded' = unrefunded \cup {trade[h]}
    /\ Goto(h, "expire")
    /\ UNCHANGED <<gateway, status, credits, debit, userVars, providerVars, jobVars, copy,
                   lockVars, crashes>>

\* ExpireSubscriptionOrder, so that the order is not retried.
WalletExpire(h) ==
    /\ pc[h] = "expire"
    /\ \/ /\ status' = [status EXCEPT ![trade[h]] = IF @ = "pending" THEN "expired" ELSE @]
          /\ UNCHANGED errors
       \/ Fault /\ UNCHANGED status
    /\ Goto(h, "unlock")
    /\ UNCHANGED <<gateway, credits, debit, unrefunded, userVars, providerVars, jobVars, copy,
                   lockVars, crashes>>

-----------------------------------------------------------------------------
(* MaybeGrantInviteRewardOnFirstTopUp. *)

\* Mutant: the update does not ask for aff_reward_settled = false.
SettleAlways(h) ==
    /\ pc[h] = "settle"
    /\ settled' = (settled \/ Invited)
    /\ Goto(h, IF Invited THEN "grant" ELSE "unlock")
    /\ UNCHANGED <<rowVars, quota, rewards, owned, providerVars, jobVars, copy, lockVars, faultVars>>

\* The conditional update decides which of the purchases is the first.
Settle(h) ==
    /\ pc[h] = "settle"
    /\ settled' = (settled \/ Invited)
    /\ Goto(h, IF Invited /\ ~settled THEN "grant" ELSE "unlock")
    /\ UNCHANGED <<rowVars, quota, rewards, owned, providerVars, jobVars, copy, lockVars, faultVars>>

\* The two quotas of the reward are increased after that transaction.
Grant(h) ==
    /\ pc[h] = "grant"
    /\ rewards' = rewards + 1
    /\ Goto(h, "unlock")
    /\ UNCHANGED <<rowVars, quota, settled, owned, providerVars, jobVars, copy, lockVars, faultVars>>

\* An error in either is only logged.
RewardFails(h) ==
    /\ pc[h] \in {"settle", "grant"}
    /\ Fault
    /\ Goto(h, "unlock")
    /\ UNCHANGED <<dbVars, providerVars, jobVars, copy, lockVars, crashes>>

-----------------------------------------------------------------------------
(* The administrator, crashes, and the whole. *)

OnlyOwned == UNCHANGED <<rowVars, quota, settled, rewards, providerVars, pc, jobVars, copy,
                         lockVars, faultVars>>

\* AdminBindSubscription gives the customer the plan; only a plan with a limit counts.
AdminBind == Cap > 0 /\ ~Capped /\ owned' = owned + 1 /\ OnlyOwned

\* AdminDeleteUserSubscription
AdminDelete == owned > 0 /\ owned' = owned - 1 /\ OnlyOwned

\* The process n dies with its requests, its map and its mutexes; transactions
\* that were open are rolled back.
Crash(n) ==
    LET Here == {h \in Handlers : NodeOf[h] = n}
        Mine == {rcm[h] : h \in Here}
    IN  /\ crashes < MaxCrashes
        /\ crashes' = crashes + 1
        /\ pc' = [h \in Handlers |-> IF h \in Here THEN "idle" ELSE pc[h]]
        /\ trade' = [h \in Handlers |-> IF h \in Here THEN NoTrade ELSE trade[h]]
        /\ user' = [h \in Handlers |-> IF h \in Here THEN NoUser ELSE user[h]]
        /\ copy' = [h \in Handlers |-> IF h \in Here THEN "none" ELSE copy[h]]
        /\ rcm' = [h \in Handlers |-> IF h \in Here THEN NoMutex ELSE rcm[h]]
        /\ orderLocks' = [orderLocks EXCEPT ![n] = [o \in Trades |-> NoMutex]]
        /\ refCount' = [m \in Mutexes |-> IF m \in Mine THEN 0 ELSE refCount[m]]
        /\ locked' = locked \ Mine
        /\ UNCHANGED <<dbVars, providerVars, event, errors>>

\* What a request does by itself, and what may go wrong with it.
Work(h) ==
    \/ LockLookup(h) \/ UnlockOrder(h) \/ Release(h)
    \/ ReadToComplete(h) \/ CapReached(h) \/ ReadToVoid(h)
    \/ CommitTopUp(h) \/ SaveEpay(h) \/ IncreaseUserQuota(h)
    \/ CommitSubscription(h) \/ CommitRedeem(h) \/ CommitVoid(h)
    \/ WalletDeduct(h) \/ WalletRefund(h) \/ WalletExpire(h)
    \/ Settle(h) \/ Grant(h)

Trouble(h) ==
    \/ ReadFails(h) \/ WriteFails(h) \/ WalletDeductFails(h)
    \/ WalletRefundFails(h) \/ RewardFails(h)

Next ==
    \/ \E o \in Trades : Pay(o) \/ Void(o)
    \/ \E h \in Handlers, o \in Trades, e \in Events, u \in Users \cup {NoUser} :
          Receive(h, o, e, u)
    \/ \E h \in Handlers : LockAcquire(h) \/ Work(h) \/ Trouble(h)
    \/ \E n \in Nodes : Crash(n)
    \/ AdminBind \/ AdminDelete

Spec == Init /\ [][Next]_vars

\* The gateways that answer a paid event with an error until it is applied (Creem for
\* orders of the type onetime: any other is answered with success and skipped).
Reliable == {"creem", "waffo", "pancake", "subEpay"}

\* Those of them for which nothing in the code speaks of a last attempt; Pancake makes 3.
Persistent == Reliable \ {"pancake"}

\* The provider repeats an event until it is told that it was handled.
Redeliver(o) ==
    gateway[o] \in Persistent /\ "paid" \notin acked[o] /\ \E h \in Handlers : Receive(h, o, "paid", NoUser)

\* Requests run on (their statements return), sync.Mutex lets nobody wait forever, and
\* the providers of Persistent repeat: an assumption about them, no part of this code.
Fairness ==
    /\ \A h \in Handlers : WF_vars(Work(h)) /\ SF_vars(LockAcquire(h))
    /\ \A o \in Trades : SF_vars(Redeliver(o))

FairSpec == Spec /\ Fairness

-----------------------------------------------------------------------------
(* Properties. *)

\* One process serves the callbacks, and at most one user has the code.
OneProcess ==
    /\ \A g, h \in Handlers : NodeOf[g] = NodeOf[h]
    /\ \A u, v \in Users : u = v

TypeOK ==
    /\ gateway \in [Trades -> Gateways]
    /\ status \in [Trades -> Statuses]
    /\ credits \in [Trades -> Nat]
    /\ debit \in [Trades -> Int]
    /\ unrefunded \subseteq Trades
    /\ quota \in Nat
    /\ settled \in BOOLEAN
    /\ rewards \in Nat
    /\ owned \in Nat
    /\ charge \in [Trades -> {"open", "paid", "void"}]
    /\ acked \in [Trades -> SUBSET Events]
    /\ pc \in [Handlers -> Labels]
    /\ trade \in [Handlers -> Trades \cup {NoTrade}]
    /\ event \in [Handlers -> Events]
    /\ user \in [Handlers -> Users \cup {NoUser}]
    /\ copy \in [Handlers -> Statuses]
    /\ orderLocks \in [Nodes -> [Trades -> Mutexes \cup {NoMutex}]]
    /\ rcm \in [Handlers -> Mutexes \cup {NoMutex}]
    /\ refCount \in [Mutexes -> Nat]
    /\ locked \subseteq Mutexes
    /\ errors \in 0 .. MaxErrors
    /\ crashes \in 0 .. MaxCrashes

\* An order is credited, its subscription created, or a code redeemed, at most
\* once, however its callbacks repeat, race each other and the administrator,
\* fail and are cut off (LockOrder and the check of the status under it).
CreditedOnce == \A o \in Trades : credits[o] <= 1

\* The gateways whose handlers change an order under the lock and only when it
\* is pending.
Guarded == (TopUps \cup Subs) \ {"stripe", "waffo"}

\* An order that was credited reads success and stays so: no expiry and no
\* failure notification that comes late or waited for the lock takes it back.
CreditedReadsSuccess ==
    \A o \in Trades : credits[o] > 0 /\ gateway[o] \in Guarded => status[o] = "success"

\* The invite reward is granted for one purchase of the customer only, whichever
\* of the concurrent purchases comes first (the update conditional on
\* aff_reward_settled).
RewardedOnce == rewards <= 1

Idle(o) == \A h \in Handlers : trade[h] # o

\* A wallet purchase that is over took its price exactly when it gave the subscription,
\* whether its balance, the plan's limit or any of its statements stopped it: deduct,
\* activate, or refund and expire.  Only a refund that itself fails, which the handler
\* logs for an operator, and the death of the process leave the price taken.
WalletSquare ==
    \A o \in Trades :
        gateway[o] = "wallet" /\ Idle(o) /\ crashes = 0 /\ o \notin unrefunded =>
            debit[o] = credits[o] * Price

\* A provider that is told that a payment was handled will not repeat it, so by then
\* the order has been credited or closed, whatever failed or died in between, and in
\* how many processes (the answers of the callbacks).
AckedIsApplied ==
    \A o \in Trades :
        gateway[o] \in Reliable /\ "paid" \in acked[o] =>
            credits[o] > 0 \/ status[o] \in {"failed", "expired"}

\* What a customer paid is credited in the end, unless the order was closed before or
\* the plan's limit refuses it, although statements fail and processes die: the answer
\* that makes the provider repeat is given whenever the order could not be completed.
PaidIsCredited ==
    \A o \in Trades :
        gateway[o] \in Persistent /\ charge[o] = "paid" ~>
            \/ credits[o] > 0 \/ status[o] \in {"failed", "expired"}
            \/ gateway[o] \in Subs /\ Capped

\* A locked mutex has an owner, who waits for no lock, and everybody who waits for it
\* waits for the owner's order: no return skips UnlockOrder, no entry of the map is
\* shared by two orders, and a process that dies takes its locks along.
LockOwned ==
    \A m \in locked : \E g \in Handlers :
        /\ rcm[g] = m /\ pc[g] \in Critical
        /\ \A h \in Handlers : rcm[h] = m => NodeOf[h] = NodeOf[g] /\ trade[h] = trade[g]

\* No request waits for the lock of its order forever.
LockIsGranted == \A h \in Handlers : pc[h] = "lock" ~> pc[h] # "lock"
=============================================================================

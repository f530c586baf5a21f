# aggre-api: a TLA+ verification project

aggre-api is a gateway for LLM APIs written in Go (Gin, GORM, optionally Redis).
A client's request is authenticated by an API token, billed in advance, relayed
to one of many upstream channels, and settled when the answer is known.  Slow
jobs (video, music, Midjourney) are recorded as tasks that background loops poll
and bill.  Around that stand subscriptions, teams, payments, channel management
and a web front end.

Money is what the program must not get wrong, and it is spread over rows that
many goroutines and several processes change with single statements: this
project models that part first.

## 1. Inventory

For each part: its state, its operations, what it interacts with, what makes it
hard, and what would make it correct.

| Part | State | Operations | Hard because | Correct when |
|---|---|---|---|---|
| Billing session (`service/billing_session.go`, `funding_source.go`, `billing.go`) | `BillingSession` in memory; `users.quota`, `tokens.remain_quota`, `user_subscriptions.amount_used`, pre-consume records | `NewBillingSession`, `preConsume`, `Settle`, `Refund` | token and funding source are charged in separate statements, check and decrement are apart, refunds run in a goroutine and are retried | a request finally costs its actual quota or nothing, once, in both ledgers |
| Violation fee (`service/violation_fee.go`) | the same rows | `ChargeViolationFeeIfNeeded` | runs beside the refund goroutine | nothing is lost or made in the rows |
| Subscription store (`model/subscription.go`, `team_subscription.go`) | rows, pre-consume records, plans, orders | pre-consume, delta, refund, reset, expire, clean up, complete order | row locks that GORM v2 ignores, nested transactions, resets while requests are in flight | `amount_used` within the total and equal to what was consumed; refund idempotent |
| Asynchronous tasks (`model/task.go`, `service/task_polling.go`, `task_billing.go`) | `tasks` rows, the copies each loop holds | insert, sweep, poll video, poll Suno, refund, recalculate | several master nodes, crash between status and billing, writes without compare-and-swap | each task reaches one final status and is billed once |
| Client fetch (`relay/relay_task.go`) | a copy of one row | `tryRealtimeFetch` | writes the row beside the loops | never takes the billing away from the loop |
| Top-ups and subscription orders (`model/topup.go`, `model/subscription.go`, `controller/topup*.go`, `controller/subscription_payment_*.go`) | orders, `orderLocks`, the customer's quota | callback of each gateway, administrator, wallet purchase, expiry | callbacks are repeated, late and reordered; row locks are ignored; a mutex per process stands in for them | an order credits once, and a payment is credited in the end |
| Redemption codes (`model/redemption.go`), invite reward (`model/user.go`) | codes, `aff_reward_settled` | redeem, grant | check and update apart | a code pays once, the reward is granted once |
| Check-ins, invite tiers (`model/checkin.go`, `invite_tier_grant.go`) | grants | grant | - | unique indexes decide |
| Batch updater, quota caches (`model/utils.go`, `token_cache.go`, `user_cache.go`) | maps of pending increments, Redis copies | add, flush, read through | a crash loses increments, cache and row drift | nothing is added twice, flushed sums are complete |
| Channels and their selection (`model/channel*.go`, `ability.go`, `service/channel_select.go`, `middleware/distributor.go`) | channel table, in-memory copy, key status of multi-key channels | select, retry, disable, enable, sync | cached table is stale, per-key disabling races with polling | a disabled key or channel is not chosen again |
| Midjourney (`controller/midjourney.go`, `model/midjourney.go`) | its own task table | submit, poll | like the tasks, with a bulk failure path | as for tasks |
| Rate limiters (`middleware/*rate-limit.go`, `common/limiter`) | windows per key | admit | boundary of the window, count before and after the request | at most N in a window |
| Stream scanner (`relay/helper/stream_scanner.go`) | goroutines and a stop channel | read, ping, time out | everyone waits on everyone | it always ends, nothing is written after the end |
| Teams (`model/team*.go`) | members, caps, applications | join, apply, approve | cap checked and counted apart | one membership, cap respected up to what is in flight |
| Authentication, 2FA, OAuth, passkeys | sessions, backup codes | log in, verify | lockout counters | a backup code works once |
| Adaptors and conversion (`relay/channel`, `service/convert.go`, `dto`) | none | convert JSON dialects | volume, not behaviour | out of TLC's reach |
| Skill plaza, AI news | articles and their publication | publish, sync | external calls | planned last |
| Desktop shell (`electron/main.js`) | child process, probes, windows, tray, message boxes, timers | start, probe, show, hide, quit | callbacks in any order, a child that dies or ignores signals | it starts or says why not, stays visible, leaves no server behind |
| Playground page (`web/src/hooks/playground`, `components/playground`) | list of messages, its copy in localStorage, open requests, timers, dialogs | send, stream, stop, edit, delete, regenerate, import, reset, reload | stale copies of the list in timers and dialogs, streams that outlive their message | what is shown is stored, and each answer is under its question |
| Model tests (`web/src/hooks/channels/useChannelsData.jsx`, `ModelTestModal.jsx`) | stop flag, spinners, results | test one, test all, stop, close | asynchronous batches share one flag | the page tells what runs, the count is complete |
| Other pages of `web/` | forms, tables | one request per click | - | not modelled |
| `pay-adapter/`, `bin/`, `i18n/` | - | packaging, texts | - | not modelled |

`PROJECT.json` lists the same parts under `components` with their status and,
under `hazards`, the places in the code that a test would hardly reach.

## 2. Plan

1. `BillingSession`, refining the abstract `Reservation`; proofs. **Done.**
2. `TaskPolling`, whose video tasks refine `Reservation` too; proofs. **Done.**
3. `SubscriptionStore`, the rows under unlocked transactions and the maintenance
   task; proofs. **Done**, except for the user group that plans grant, the creation
   of rows, the clean-up of records, and the second connection that the nested
   transaction of a refund needs.
4. `Orders`: top-ups, subscription orders, redemption codes and the invite reward
   under repeated callbacks; proofs. **Done**, except for the creation of orders.
5. `DesktopShell`; proofs. **Done.**
6. `Playground`; proofs. **Done** for the list of messages, its requests and its copy.
7. `ModelTests`; proofs. **Done** for the dialog of the channels page.
   `SumTheorems`, lemmas about sums over finite sets, serves the proofs of 1 and 2.
8. Left: `BatchUpdater` (pending increments, flush and crash), `Channels` (cached table,
   automatic disabling, multi-key polling, retry), Midjourney, the rate limiters, the
   stream scanner, team membership, two-factor codes.

`BillingSession` and `SubscriptionStore` share the subscription operations, in which a
transaction reads a row and saves its copy: the first looks at one request's session
and both its ledgers, the second adds what else happens to the rows (expiry, resets,
cancellation, edits of the plan).

## 3. BillingSession

### State and actions

All requests of the model belong to one user and one token and so compete for
the same rows.  `pc[r]` is where the handler of request `r` stands and, after a
failure, its refund goroutine; `fee[r]` is the handler going on with the violation
fee beside that goroutine.  `sess[r]` is the `BillingSession` struct together with
its `FundingSource`; its field `copy`, and `feeCopy[r]` for the fee, is the `amount_used`
that a transaction under way has read.  `wallet`, `token`, `tokenStatus`, `used`, `record` and
`memberUsed` are database columns.  `fundDebit`, `tokenDebit`, `feeDebit`,
`feeToken` and `lost` are history: no action reads them.

| Code | Actions |
|---|---|
| `ValidateUserToken` | `Arrive` |
| `NewBillingSession` (team, wallet, subscription, preference, forced wallet) | `FirstAttempt`, `TryTeam`, `TryWallet`, `TrySubscription`, `ReadFails` |
| `PreConsumeTokenQuota`: check, then decrement | `PreToken`, `DecToken` |
| `FundingSource.PreConsume` | `PreFund` = `PreWallet` or `PreSubscription`, then `PreSave` |
| roll back, fall back to the wallet | `Rollback` |
| `Settle`: member count, funding, token | `CountMember`, `SettleFund`, `SettleSave`, `SettleToken` |
| `Refund` and its goroutine | `UpstreamFails`, `RefundWallet`, `RefundSub`, `RefundSave`, `RefundRecord`, `RefundToken`, `Retry` |
| `PostConsumeQuota` for the fee | `FeeFund`, `FeeSave`, `FeeToken` |

Every statement may fail if `Faults` says so, with what the code does then.  The
upstream is `UpstreamAnswers` (any cost of `Actuals`) or `UpstreamFails`.
A plan whose upgrade groups do not serve the model (`isOutOfPlanGroupModel`) is the
input `forceWallet`.

A transaction on a subscription reads a row in one step and saves the copy in another,
and anybody may save in between: the row lock it asks for is a setting of GORM 1
that the GORM 2 of `go.mod` does not read.

Abstractions: Redis and the batch updater are off (their defaults without
`REDIS_CONN_STRING` and `BATCH_UPDATE_ENABLED`), so reads see the rows.
Subscriptions neither reset nor expire during the requests (they do in
`SubscriptionStore`).  Left out: free models, which skip the session when
`EnableFreeModelPreConsume` is switched off (it is on by default), and the settlement
without a session (`service/billing.go:72`), the path such requests take.

### Properties

* `AccountInv`: what request `r` has taken from both ledgers at each of its steps.
* `FundingOutcome`, `TokenMirrorsFunding`: what it has finally taken, in words a
  user would use.
* `RowsConserved`: token and wallet are exactly the sum of what all requests took,
  also while they are overdrawn between a check and its decrement.  The same of
  the subscription rows (`SubsConserved`) is false, see `MCBillingLost` in section 10.
* `SubWithinTotal`: `amount_used <= amount_total`, lost updates or not.
* `ImplementsReservation`: the session refines `Reservation`, in which a hold is
  captured once at its cost, released once in full, or stays held.
* `EveryRequestFinishes`: a request comes to its end or waits for the upstream.
* `RefundBounded`, a theorem only: the attempts of a refund give back at most
  `RefundAttempts` times what was taken.  The stronger `NeverOverRefund` is false when
  the save of a refund record fails (`MCBillingRecordFault`, section 10).

### Runs

* `MCBillingWallet` (`AccountInv`, `TokenMirrorsFunding`, `RowsConserved`): two requests on
  a wallet of 4 and a limited token of 4, so that two estimates of 2 or 3 compete
  and both pass a check that only one of them should; a trust quota of 3 so that one
  of them may be trusted; zero estimates, the playground, forced pre-consumption;
  failing token, wallet and read statements.
* `MCBillingSubs` (`FundingOutcome`, `SubWithinTotal`, `ImplementsReservation`,
  `EveryRequestFinishes`): two requests on three rows (one a team's) with totals of 2
  to 4, costs 1 and 3 (refunded, exact and refused settlements), failing
  transactions, a fee, the fallback to the wallet, and liveness.

The fault `"record"` is in neither: with it `AccountInv` and what follows from it are false.

Two requests suffice for races between a check and a decrement, a settlement and
a refund, or a fee and a refund; the proofs cover any number.  `RefundAttempts` is
the code's own bound of 3.

Fairness: the handler and the goroutine are scheduled by the Go runtime and their
statements return, so weak fairness holds of the steps of a request and of its
fee.  No request has to arrive, and the upstream need not answer: `RELAY_TIMEOUT` is 0
by default, which is no timeout (`service/http_client.go:47`).

### Proofs (`BillingSessionProofs`)

For any sets of requests, rows and inputs, from `ConstantsAssumption`:

* `TypeCorrect`: `Spec => []TypeOK`.
* `AccountCorrect`: `Spec => []AccountInv`, assuming `"record" \notin Faults` (with
  that fault it is false, section 10).  `AccountInv` is inductive together with
  `TypeOK`: the outcome of a request follows only if one knows, at every label,
  which of estimate and cost each ledger holds and that `tokenConsumed` equals
  `preConsumedQuota`.  One step per action; `OthersKept` says that a step of
  one request leaves the accounts of the others alone.
* `FundingOutcomeHolds`, `TokenMirrorsFundingHolds` follow, under the same assumption.
* `ReservationImplemented`: initial states map to initial states, and every action
  maps to one step of `Reservation` or to a stutter.  Same assumption.
* `SubWithinTotalHolds`, for every fault: with the types it needs `CopyFits`, that every
  save was checked against the very copy it writes.
* `RefundBoundedHolds`, for every fault: `AttemptsInv` bounds what is given back by the
  number of attempts begun.
* `RowsConservedHolds`: `Spec => []RowsConserved`, for every fault.  What a request took
  from the token or the wallet is a term of a sum over all requests, and every
  statement changes one row and one term by the same amount (`SumChange`).  It needs
  `PlacedInv`: a request has a subscription row only while a subscription funds it, and
  its fee begins only once the pre-consumption is through, so that no statement
  moves the term to another ledger.

`SumTheorems` holds the lemmas about `SumFunctionOnSet` of the community modules.  The library's
induction over finite sets takes an operator as a parameter, which the provers
cannot instantiate; here each induction is a smallest counterexample: a set of sets that is
not empty has a member with the least cardinality (`SmallestSet`), and removing an
element of it leaves a smaller one.

Only model-checked: liveness.

## 4. TaskPolling

### State and actions

`status`, `complete` (progress is 100%), `quota` and `overdue` are the columns of
the `tasks` rows that the loops look at; `submission` is how far `RelayTask` is.
Every poller is a process with `NODE_TYPE` master (the default) that runs
`TaskPollingLoop`: `phase`, the rows still `todo`, the copies `seen` and the billing
`job` it is in the middle of.  `view` is the copy of a client's fetch.  `fund`, `tok`
and `missed` (what a failed or unreached statement kept from `tok`) are history.

| Code | Actions |
|---|---|
| end of `RelayTask` | `Submit`, `Insert` |
| time | `Age` |
| `TaskPollingLoop` | `LoadTimedOut`, `LoadUnfinished`, `LoopEnds` |
| `sweepTimedOutTasks` | `Sweep` |
| `updateVideoSingleTask`, `settleTaskBillingOnComplete` | `PollVideo` |
| `updateSunoTasks`, `Task.Update` | `PollSuno`, `SaveSuno` |
| missing channel, `TaskBulkUpdateByID` | `ChannelMissing` |
| `RefundTaskQuota`, `RecalculateTaskQuota` | `BillFund`, `BillToken` |
| `tryRealtimeFetch` | `FetchLoad`, `FetchApply` |
| end of the process | `Crash` |

`Submit` ends with `Settle` of the billing session, which may fail as a whole or
move the funding source and then fail on the token; `RelayTask` only logs either
(`Settled`).  `UpdateWithStatus` is the guard `CasWins`.  The upstream may answer anything at any
time.  Abstracted: prices, result URLs, times other than "older than the
timeout" (the submit time a Suno answer reports is taken to be the row's own),
the order of rows within a round, and the branch for rows without a task id,
which rows written by this version cannot reach.

### Properties and runs

* `MCTaskVideo`: two nodes, two video tasks, one crash, failing statements and
  missing channels.  `OneBiller`: two nodes never bill one task together;
  `NeverOverRefunded`; `FinalIsFinal`; `ImplementsReservation`: what a task takes from
  its funding source is a hold of `Reservation`, which at most one of the nodes adjusts, to an
  actual quota or to nothing.  A task settled at its own quota keeps its hold.
  One crash and two nodes are what it takes for a stale copy to meet a finished row.
* `MCTaskFetch`: one node, a realtime task that a client fetches and a legacy Suno task, a
  crash or a failed save, a missing channel, settlements that fail as a whole or half.
  `TokenMirrorsFunding`: whatever happens to the rows, the token moves as the funding
  source does, but for the statements that failed.  `EveryTaskEnds`: if the rounds of
  some loop end again and again, every task ends, although a query loads only one
  row (`QueryLimit`).
* `MCTaskRealtimeLost` (violation, `FailedTaskRefunded`): the client's fetch
  (`relay/relay_task.go:504`) wins the compare-and-swap to FAILURE and nobody refunds,
  without any fault.  `service/task_billing.go:144` says that a failed task is refunded.

`FailedTaskRefunded` fails in other ways too, and is claimed nowhere: tasks of a channel
that cannot be loaded are failed in bulk and never refunded, and a crash between the
compare-and-swap and the refund loses the refund.

Fairness: a loop sleeps 15 seconds between rounds and its statements return (`Local`, the
steps that ask nobody but the database), time passes (`Age`), and `RelayTask` inserts
what it has settled.  Polling gets none: the HTTP client has no timeout by default, and
an upstream that stays silent stops its loop for ever, sweep included.  Therefore
`EveryTaskEnds` has a premise, that rounds end infinitely often in some loop; it also
excludes a process that stays down and a loop that ended in a recovered panic.

### Proofs (`TaskPollingProofs`)

For any number of tasks, nodes and crashes, from `TaskAssumption`:

* `TypeCorrect`: `Spec => []TypeOK`, without further assumptions.
* `CasBillingHolds`, and from it `OneBillerHolds` and `NeverOverRefundedHolds`, assuming
  `CasOnly`: all tasks are video tasks, which only `UpdateWithStatus` moves to a
  final status with a bill, and submissions settle.  `OneBiller` is not inductive:
  one must know that loaded copies are of unfinished rows, that an unfinished row
  has no bill under way and still carries its full charge, and that a bill under
  way never gives back more than that charge.
* `FinalIsFinalHolds`: an action property, from the same invariant.
* `TaskReservationImplemented`: `Spec => ImplementsReservation`, assuming `CasOnly`.
  `Submit` is the hold; the statement on the funding source is the capture or the release;
  everything else stutters.  It takes `CasBilling`, for the charge being untouched
  when that statement comes, and `AllAdjust`: a bill under way gives back the whole quota or
  is the difference to an actual one, and is never 0.
* `TokenMirrorsFundingHolds`: `Spec => []TokenMirrorsFunding`, for every platform and without
  any assumption on faults: token and funding source differ by `missed` and nothing else.
  Several nodes may bill one Suno or revived task at the same time, each between its
  two statements: `TokenLags` says that the token is behind the funding source by what
  was missed and the sum of what they have still to charge.

Only model-checked: `EveryTaskEnds`.  Of the Suno and realtime paths no more than the types and
`TokenMirrorsFunding` is proved, the other properties being false for them (section 10).

## 5. SubscriptionStore

### State and actions

`row[s]` holds the columns of `user_subscriptions` that the operations look at, for
the rows of one owner (a user or a team) and one plan, whose reset period is
`period`.  A transaction of an actor `a` (a request or a master) reads rows into
`copy[a]` and saves them whole; anybody may commit in between, because
`tx.Set("gorm:query_option", "FOR UPDATE")` belongs to GORM 1 and the GORM 2 in
`go.mod` does not read it.  This is what MySQL and PostgreSQL at their default
isolation levels allow; SQLite refuses the later of two overlapping writers, which
is a `Fail` of the model.  Saves fail (`Fail`) at any time.

| Code | Actions |
|---|---|
| `PreConsumeUserSubscription`, `PreConsumeTeamSubscription` | `PreRead`, `PreWrite` |
| `PostConsumeUserSubscriptionDelta` (settlement, refund, fee) | `DeltaRead`, `DeltaWrite` |
| `ExpireDueSubscriptions`: the query, then an update per user that may fail | `FindEnded`, `Expire` |
| `ResetDueSubscriptions`, the loop around it | `ListDue`, `ResetRead`, `ResetWrite`, `ResetEnds` |
| `AdminInvalidateUserSubscription`, deletion of a team | `Cancel` |
| `AdminDeleteUserSubscription` | `Delete` |
| `AdminUpdateSubscriptionPlan` | `UpdatePlan` |
| time, the end of a request | `Tick`, `Finish` |

`ResetRow` is `maybeResetUserSubscriptionWithPlanTx`; its loop over the periods is the
closed form `LastReset`.  Abstracted: the calendar (periods have a fixed length), the
plan cache (a transaction sees the plan as it is when it begins), the user's group,
which expiry and cancellation recompute in another table, and the pre-consume
records, which are part of `BillingSession`.

### Properties and runs

* `MCSubStore`: one request with a correction, one master, two rows that end at 1 and
  2, a plan that resets every unit of time or never.  `UsedWithinTotal` and
  `ResetSchedule` hold although any save may be stale: a request and the master, or
  the administrator, are the two writers it takes.  A refund that meets a row reset
  since shows why `amount_used` is clamped (`TypeOK`).  Under fairness, with fewer
  rows than a batch, `EndedRowsExpire` and `DueRowsReset`.  With a full batch of rows that
  no longer reset both are false (`MCSubStuck`, section 10).

Fairness: the ticker fires every minute and every query returns (weak fairness of
`Maintain`); an expiry or a reset that is tried again and again succeeds once (strong
fairness of `Expire` and `ResetWrite`, as saves do not fail for ever); requests that have begun end.
`MaxCorrections`, `MaxTime` bound the runs only.

### Proofs (`SubscriptionStoreProofs`)

For any number of requests, masters, rows, periods and edits, from
`StoreAssumption`: `TypeCorrect`, `UsedWithinTotalHolds`, `ResetScheduleHolds`.  The
invariant `IInv` says of every copy what is claimed of the rows (`Good`), since any
copy may be saved next, and that no actor works with a timestamp of the future.
`ResetGood` is the lemma about `maybeResetUserSubscriptionWithPlanTx`.

## 6. Orders

### State and actions

The orders and codes of one customer.  `gateway`, `status`, `quota` and `settled`
(`aff_reward_settled`) are columns; `charge` is what the payment provider has done and
`acked` what it was told is handled.  A handler `h` is one HTTP request, with its place
`pc[h]`, its order, what it was called for (`event`) and the status it has read (`copy`).
`orderLocks[n]` is the map `orderLocks` of process `n`, `refCount` and `locked` the fields
of its mutexes, and `rcm[h]` the local variable of `LockOrder`.  `owned` counts the
customer's subscriptions of the one plan, which `Cap` (`MaxPurchasePerUser`) limits.
`credits`, `debit`, `unrefunded` and `rewards` are history.

Twelve kinds of order stand for the code's gateways: `epay`, `stripe`, `creem`, `waffo`,
`pancake`, `ipn` (Cryptomus, NOWPayments and Dodo Payments have one shape), their
subscription counterparts, the wallet purchase, and the redemption code.  They differ in
who asks for the lock (`Unlocked`), which events exist (`EventsOf`), what a failure
answers (`Retries`, `ReadFails`), what an order is worth (`Worth`, `ManualWorth`), and
whether `success` and the quota are one transaction (all but `EpayNotify`).

| Code | Actions |
|---|---|
| provider (external) | `Pay`, `Void`, and `Receive` for delivery and repetition |
| `LockOrder`, `UnlockOrder` | `LockLookup`, `LockAcquire`, `UnlockOrder`, `Release` |
| check of the status | `ReadToComplete`, `ReadToVoid`, `ReadFails` |
| `Recharge*`, `ManualCompleteTopUp` | `CommitTopUp` |
| `EpayNotify` | `SaveEpay`, `IncreaseUserQuota` |
| `CompleteSubscriptionOrder`, `ExpireSubscriptionOrder`, failure notifications | `CommitSubscription`, `CapReached`, `CommitVoid` |
| the administrator gives or deletes a subscription | `AdminBind`, `AdminDelete` |
| `Redeem` | `CommitRedeem` |
| `SubscriptionRequestWalletPay` | `WalletDeduct`, `WalletRefund`, `WalletExpire` |
| `MaybeGrantInviteRewardOnFirstTopUp` | `Settle`, `Grant` |
| a statement fails, the process dies | `WriteFails`, `WalletDeductFails`, `WalletRefundFails`, `RewardFails`, `Crash` |

Every read and the save after it are two steps, since the row lock is the GORM 1 setting
that GORM 2 ignores.  Abstracted: signatures, the comparison of amounts, currencies,
checkout links, the creation of the pending row, and fractions of a dollar: Stripe's
callback adds a float product where the administrator adds its integer part, and the model
counts whole dollars.  Creem orders are of the type `onetime`; any other is acknowledged and
skipped (`topup_creem.go:315`), which is not modelled.

### Properties and runs

* `MCOrders`: one order of any kind, two requests of one process, two failing statements and
  a crash.  Two requests and a second mutex are what it takes for an entry of `orderLocks`
  to be deleted and created again under a waiting request.  `AckedIsApplied`: a provider is
  told that a payment is handled only when it is, whatever failed before; `LockOwned`: a locked
  mutex has an owner, alive and inside its critical section, and nobody uses it for
  another order, so that a crash or an error leaves no lock behind; `CreditedOnce`;
  `CreditedReadsSuccess` (a late expiry does not take a credit back); under fairness
  `PaidIsCredited`, that a paid order is credited, closed, or met by a plan that is bought up,
  and `LockIsGranted`.
* `MCPurchases`: two orders, three requests, by callback or from a wallet that can pay for
  one of them, and a plan that may be bought once, so that an order fails for good without any
  failing statement.  `RewardedOnce`; `WalletSquare`: a finished wallet purchase took its
  price exactly when it gave its subscription, unless its refund failed or the process died.
* `MCOrdersTwoNodes` (violation, `CreditedOnce`): with two processes each has a mutex of its own,
  both receive the paid callback, both read `pending`, and the order is credited twice.
  `CallbacksOnly` keeps the administrator out of the counterexample.

Where the code does otherwise the property names the gateways it holds for, and
`PROJECT.json` says at the hazard what the others do: `Guarded` leaves out Stripe, whose
`sessionExpired` writes `expired` over any status, and Waffo, whose failure notification
works without the lock; `Reliable` leaves out the callbacks that answer
success before or although they failed (Epay, Stripe), and those that take an unreadable
row for an unknown order (`ipn`, recurring Creem orders); `Persistent` also leaves out
Pancake, which makes three attempts (`topup_waffo_pancake.go:253`).

Fairness: a request runs on (weak fairness of `Work`); `sync.Mutex` hands over to a waiter
after a millisecond (strong fairness of `LockAcquire`); a provider of `Persistent` repeats a
paid event until it is acknowledged (strong fairness of `Redeliver`, since all requests may
be busy at times), which is an assumption about the provider and no part of this code.  `MaxErrors` and `MaxCrashes` bound the faults.

### Proofs (`OrdersProofs`)

For any orders, requests, processes, errors and crashes, from `OrdersAssumption`, in two
layers and a result beside them:

* `LockInv` says that `refCount` is the number of requests that refer to a mutex, that the
  entry of an order is the mutex of everybody who refers to one for it, and that different
  orders have different mutexes.  Only together are they inductive: the count keeps the
  entry in the map, and the entry makes newcomers use the same mutex.  From it `OrdersType`
  (no count is negative), `OrderLocked`, mutual exclusion within a process, and
  `OrdersLockOwned`.
* `OrdersAckedIsApplied` holds for any number of processes, and so does not rest on the
  lock: `Promises` adds to it that a row of a reliable gateway exists and reads success
  only if it was credited, so that a request that finds nothing to do may say so.
* `CreditInv` adds what a request knows of its row between read and save.  With
  `OneProcess` (and one user per code) it gives `OrdersCreditedOnce` and `OrdersReadSuccess`;
  with `Purses`, what a wallet purchase has taken at each step,
  `OrdersWalletSquare`.  `OrdersRewardedOnce` needs no lock and holds for any number of
  processes: the conditional update decides.

Only model-checked: `PaidIsCredited`, `LockIsGranted`.

## 7. DesktopShell

### State and actions

The variables of `electron/main.js` under their names (`serverProcess`, `mainWindow`,
`isQuitting`, `attempt` for `currentAttempt`), the child process (`server`, `code`), the
windows (`win`), and what the event loop has still to run: probes without an answer
(`requests`), probes that `setTimeout` will start (`retries`), timers of `before-quit`
(`timers`), message boxes (`dialogs`).  Each action is one callback.

| Code | Actions |
|---|---|
| `app.whenReady`, `startServer` | `Ready`, `ReadyThrows` (`mkdirSync` or `spawn` throws), `Resolve` and `Reject` within others, `SpawnError` |
| `checkServerAvailability` | `TryConnect`, `ProbeAnswered`, `ProbeRefused`, `ProbeTimeout` |
| `serverProcess.on('close')` | `ServerClosed` |
| `createWindow`, its handlers, `createTray`, `activate` | `UserCloses`, `TrayShow`, `TrayClick`, `TrayQuit`, `Activate` |
| message boxes | `ReadLog`, `LeaveCrash`, `LeaveStartup` |
| `before-quit` | `Quit` within others, `ShutdownTimer`, `SystemQuit` |
| the child and the port (external) | `ServerListens`, `PortTaken`, `ServerDies` |

### Properties and run

`MCDesktop`: three windows (an `activate` during the start makes two), three attempts (30 in
the code; two would hide that retries multiply), two requests to quit.  `AttemptsBounded`:
a timed-out probe retries from two handlers, and still the shared counter keeps the attempts
below `2 * maxRetries`.  `NoOrphan`; `NeverStranded`: the application can be seen or is about
to end, except when its start failed before there was a child and a window had been
opened by `activate` (`MCDesktopStranded`, section 10); `HandlersSafe`; and under fairness
`QuitEnds` and `StartupSettles`.

Fairness: the event loop runs what is due (probes have a timeout of ten seconds, timers fire).
Nothing is assumed of the child, the port or the user.  Deadlock is not checked, because
the application ends.

### Proofs (`DesktopShellProofs`)

For every number of windows, attempts and requests to quit, from `ShellAssumption`:
`ShellType`, `ShellNoOrphan`, `ShellAttemptsBounded`, `ShellNeverStranded`,
`ShellHandlersSafe`.  For the attempts the invariant `Paid` charges every probe in flight
with the two it may schedule; the others rest on what `serverProcess`, the tray and
`mainWindow` are in each phase (`Child`, `Childless`, `Main`, `Visible`).  Only model-checked: liveness.

## 8. Playground

### State and actions

`message` is the list on the screen; a message has an id, a role, a status, the request it
was made for (`of`) and the requests whose words it contains (`text`).  `saved` is
`playground_messages` of localStorage.  What a callback will do later is state: `timers`
(`setTimeout(..., 0)`, a queue, each with the list it closed over), `resends` and `answers`
(`setTimeout(..., 100)`), and `dialog`, a `Modal.confirm` that keeps the message or the list of
the moment it was opened.  `unsaved` is history: a save has failed since the page wrote
`saved`.  `crashed` says that an update threw and React unmounted the page.

| Code | Actions |
|---|---|
| `handleSSE` | `Chunk`, `Done`, `ParseError`, `StreamError`, `StatusError` |
| `handleNonStreamRequest` | `FetchAnswered` |
| `onMessageSend`, `onStopGenerator`, `handleClearMessages` | `Send`, `Stop`, `Clear` |
| `handleMessageReset`, `handleRoleToggle`, `handleMessageDelete` | `Regenerate`, `Resend`, `RoleToggle`, `AskDelete`, `ConfirmDelete` |
| `useMessageEdit` | `Edit`, `EditCancel`, `EditSave`, `EditAnswer`, `Answer` |
| `importConfig`, `handleConfigImport`, `handleReset` | `Import`, `ConfirmImport`, `Dismiss`, `ConfigReset` |
| `saveMessages`, the language, loading the page | `SaveMessages` within `RunTimer`, `LanguageChanges`, `Reload` |

`SaveMessages` may fail, as `setItem` throws when the storage is full and `saveMessages` only
logs it (`configStorage.js:54`): the old copy stays.

Left out: the custom request body, the removal of old default messages, the debug panel,
the reasoning part of an answer.

### Property and run

`MCPlayground`: two streams and a fetched request, an operation of any kind, a reload.  Two
streams are needed for one to write into the other's answer, the reload for ids to repeat.
`ShortList` cuts off lists of more than six messages (three questions and their answers).
`Stored`: when no timer waits, the page wrote last and no save has failed since, every
question and every final streamed answer on the screen is stored as it is shown: one
successful save makes up for all failed ones before it.  It leaves out what the code does
not save: answers fetched in one piece are shown without a save, and an import writes the
storage before it is confirmed.

### Proofs (`PlaygroundProofs`)

`PlaygroundStored`, for any number of requests, operations, reloads and timers.  `Stored`
speaks of quiet moments and is not inductive; `StoreInv` says that the list of the last save
in the queue, or the stored one when none waits and none has failed since (`Kept`), covers
the lasting messages of the screen.
Every step either queues the list it shows (`StepSaves`) or shows nothing lasting that is new
(`StepKeeps`).

## 9. ModelTests

### State and actions

`dialog`, `endpoint`, `isBatchTesting`, `shouldStop` (`shouldStopBatchTestingRef`),
`testingModels` and `results` are the hook's; `batch[b]` is the b-th call of
`batchTestModels`, an asynchronous function that tests, pauses or counts, and `click[n]` a
call of `testChannel` from a row, with the `isBatchTesting` it closed over.

| Code | Actions |
|---|---|
| the table's menu, the dialog | `OpenDialog`, `SelectEndpoint`, `HandleCloseModal` |
| `testChannel` from a row | `TestChannel` |
| `batchTestModels` | `BatchTestModels`, `PauseEnds`, `CountResults` |
| an answer, with the promises it settles | `Answer` |

GET requests for one address that are in flight together are one request
(`web/src/helpers/api.js`), so one answer settles all tests of it.

### Properties and run

`MCModelTests`: one channel, two endpoint types, two batches of up to three models in groups
of two (a full and a partial group; 5 in the code), one single test.  `FlagHonest`,
`SpinnerHonest`, `CountIsComplete`, and under fairness of the timers `BatchesEnd`: a batch ends
if again and again none of its requests is open (`Answered`).  That requests end is a
premise: axios is given no timeout (`web/src/helpers/api.js:29`), so an unanswered one
keeps its batch.  A group is never empty, since the loop runs only while a model is left.

### Proofs (`ModelTestsProofs`)

`TestsFlagHonest`, `TestsSpinnerHonest` and `TestsCountIsComplete` for any channels, models,
group sizes, batches and tests.  The flag needs that batches are called in order and that a stopped batch does not
count (`TestsInv`).  The count needs `Counting`: of the models up to the end of
the group all have a result or are waited for, and a batch settles only when this
end is beyond its last model.  Only model-checked: `BatchesEnd`.

## 10. Further counterexamples

Each of these configurations checks one property that the code does not have.  They are
kept beside the runs; `tlc -workers 2 -config <name>.cfg <module>` prints the behaviour.

* `MCBillingRecordFault` (`MCBillingSession`, `NeverOverRefund`): if the save of a refund
  record fails, the retry gives the quota back again, because
  `PostConsumeUserSubscriptionDelta` (`model/subscription.go:1289`) committed in a
  transaction of its own.  `model/subscription.go:1271` calls the function idempotent.
* `MCBillingLost` (`MCBillingSession`, `SubsConserved`): two requests read one row, and the later
  save drops the consumption of the earlier (`model/subscription.go:1387-1403`), because the lock
  at `:1389` is not taken.
* `MCTaskRevived` (`MCTaskPolling`, `NeverOverRefunded`): a client's fetch moves a swept and
  refunded task back to IN_PROGRESS; when it fails it is refunded again.
  `service/task_billing_test.go:540` says "no double refund".
* `MCTaskSuno` (`MCTaskPolling`, `NeverOverRefunded`): two nodes refund one failed Suno task,
  as `updateSunoTasks` (`service/task_polling.go:237`) has no compare-and-swap, which
  `model/task.go:464` asks for.
* `MCSubStale` (`MCSubscriptionStore`, `EndedStaysEnded`): a request reads a row, the
  administrator cancels or deletes it, the request saves its copy
  (`model/subscription.go:1252`), and the row is active again; `:931` says that the
  cancellation "ends it immediately".
* `MCSubStuck` (`MCSubscriptionStore`, `EndedRowsExpire`): with a full batch (1 here, 300 in
  the code) of due rows whose plan has stopped resetting, the pass repeats for ever
  (`service/subscription_reset_task.go:80`): rows are counted though nothing changed.
  `QuietSpec` allows finitely many edits of the plan.
* `MCDesktopTray` (`MCDesktopShell`, `CloseToTray`): with a window opened by `activate` during
  the start and the one that the end of the start opens, closing the first hides the
  second, because the handler names `mainWindow` (`electron/main.js:416`).  The comment at
  `:412` says "Close to tray".
* `MCDesktopStranded` (`MCDesktopShell`, `InstalledNeverStranded`): `mkdirSync` or `spawn` throws
  (`electron/main.js:261`, `:277`) after `activate` opened a window; `app.quit` without
  `isQuitting` is refused by the window's close handler, which hides it, and there is no tray.
* `MCPlaygroundMixed` (`MCPlayground`, `OwnWords`): an event that cannot be parsed
  (`useApiRequest.jsx:361`) ends the message and not its stream, which goes on writing into
  the answer of the next question.
* `MCPlaygroundDelete` (`MCPlayground`, `DeletesOne`): after a reload ids start at 4 again, and
  a deletion that filters by id takes other messages with it, although the comment at
  `useMessageActions.jsx:189` says that looking a message up by reference prevents mismatches.
* `MCTestsResumed` (`MCModelTests`, `NoHiddenBatch`): a batch that was stopped by closing the
  dialog waits for its group; a second batch clears the shared flag; when the second is over
  the first goes on although the page shows that nothing runs.  `useChannelsData.jsx:1095`
  says that a running batch is stopped first.

Known hazards that no property covers, besides those of `PROJECT.json`: the exhausted mark of a
token is written from a balance without the quota in flight (`model/token.go:357`); a team
member's cap is compared at the start and charged at the end (`service/billing_session.go:327`);
a failed settlement or insert of a task is only logged (`controller/relay.go:568`, `:589`); a Suno
answer with an unknown id ends the polling loop (`service/task_polling.go:224`);
`legacyTaskCutoff` is a year before the date in its comment (`:51`); on the playground, clearing the
list during a stream makes the next `[DONE]` throw, a reset that keeps the messages still clears
their copy, and a stream that ends without `[DONE]` stays loading; in the desktop shell a
server killed by a signal (code null) counts as a normal exit.

## 11. What the prover leaves to TLC

Liveness under fairness, and everything that is violated.  Every other property of the passing
runs, invariants, action properties and refinements, is stated by a theorem, for all values of
the constants that its assumptions allow; the sections above name these assumptions.

## 12. Not modelled

`PROJECT.json` gives the reason for each part.  Most of the repository's JavaScript
(`web/src`, some 160000 lines) renders forms and tables: a click sends one request whose
reply is shown, with no protocol between the parts and no state that outlives the page, and
there is nothing for a model checker to find in it.  The asynchronous parts that do have a
protocol are the playground, the model tests and the desktop shell, and these are modelled.
The core of the system is in Go; what is left of it is item 8 of the plan.

## 13. Running it

    tlc -workers 2 -config MCBillingSubs.cfg MCBillingSession
    tlapm BillingSessionProofs.tla

Definitions marked "Mutant" in the modules are plausible bugs; `PROJECT.json` names
for every property one that breaks it.

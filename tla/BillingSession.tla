--------------------------- MODULE BillingSession ---------------------------
(***************************************************************************)
(* The billing life cycle of relay requests: service/billing_session.go    *)
(* and service/funding_source.go, driven by controller/relay.go.           *)
(*                                                                         *)
(* Every request pre-consumes an estimate from its API token and from one  *)
(* funding source (wallet, personal subscription or team subscription),    *)
(* is relayed upstream, and then is either settled to the actual quota or  *)
(* refunded by a background goroutine, beside which the handler may charge *)
(* a violation fee.  All requests of the model belong to one user and one  *)
(* token, so they compete for the same rows; every database statement is a *)
(* step of its own.  Neither Redis nor the batch updater is enabled: reads *)
(* see the rows and writes reach them at once.  users.quota and            *)
(* tokens.remain_quota are changed by relative updates, but a subscription *)
(* row is read, checked and saved whole: its transactions ask for a row    *)
(* lock with an option that GORM 2 ignores, so two of them may interleave. *)
(***************************************************************************)
EXTENDS Integers, FiniteSets, Functions

CONSTANTS
    Requests,        \* the relay requests; each one owns a BillingSession
    Inputs,          \* what a request can arrive with, a subset of InputType
    Subs,            \* rows of user_subscriptions, numbered in end_time order
    TeamSubs,        \* those of them with team_id > 0
    SubTotal,        \* amount_total of each row; 0 means unlimited
    Actuals,         \* quotas the upstream answer may turn out to cost
    ViolationFee,    \* quota of the fee for a violation error; 0 means disabled
    TrustQuota,      \* common.GetTrustQuota()
    TokenUnlimited,  \* token.UnlimitedQuota
    MemberLimit,     \* quota_limit of the team member; 0 means unlimited
    InitWallet,      \* users.quota at the start
    InitToken,       \* tokens.remain_quota at the start
    Faults           \* database operations that may return an error

Prefs == {"subscription_first", "wallet_first", "subscription_only", "wallet_only"}

InputType == [pref : Prefs, quota : Nat, forceWallet : BOOLEAN, team : BOOLEAN,
              playground : BOOLEAN, forcePreConsume : BOOLEAN]

\* "read" is any query, "record" the save of a pre-consume record.
FaultOps == {"read", "token", "wallet", "subscription", "record", "member"}

ASSUME ConstantsAssumption ==
    /\ IsFiniteSet(Requests)
    /\ Inputs \subseteq InputType
    /\ Subs \subseteq Nat
    /\ TeamSubs \subseteq Subs
    /\ SubTotal \in [Subs -> Nat]
    /\ Actuals \subseteq Nat
    /\ ViolationFee \in Nat
    /\ TrustQuota \in Int
    /\ TokenUnlimited \in BOOLEAN
    /\ MemberLimit \in Nat
    /\ InitWallet \in Nat
    /\ InitToken \in Nat
    /\ Faults \subseteq FaultOps

RefundAttempts == 3     \* maxAttempts of refundWithRetry

VARIABLES
    pc,          \* pc[r]: where the handler of r, then its refund goroutine, stands
    req,         \* req[r]: the input of r
    sess,        \* sess[r]: the BillingSession and its FundingSource
    wallet,      \* users.quota
    token,       \* tokens.remain_quota
    tokenStatus, \* tokens.status
    used,        \* used[s]: user_subscriptions.amount_used
    record,      \* record[r]: status of the pre-consume record of request id r
    memberUsed,  \* team_members.used_quota
    fee,         \* fee[r]: where ChargeViolationFeeIfNeeded of r stands
    feeCopy,     \* feeCopy[r]: amount_used as that fee read it
    (* What the properties need to remember, read by no action. *)
    fundDebit,   \* fundDebit[r]: net quota r has taken from its funding source
    tokenDebit,  \* tokenDebit[r]: net quota r has taken from the token
    feeDebit,    \* feeDebit[r]: what the fee of r took from its funding source
    feeToken,    \* feeToken[r]: what the fee of r took from the token
    lost         \* lost[r]: ledgers ("token", "fund") an error left uncorrected

dbVars == <<wallet, token, tokenStatus, used, record, memberUsed>>
feeVars == <<fee, feeCopy, feeDebit, feeToken>>
vars == <<pc, req, sess, wallet, token, tokenStatus, used, record, memberUsed, fee,
          feeCopy, fundDebit, tokenDebit, feeDebit, feeToken, lost>>

Fundings == {"none", "wallet", "subscription", "team"}

\* copy is amount_used of row subId as a transaction of the session read it.
Session == [funding : Fundings, subId : Subs \cup {-1}, copy : Nat,
            effectiveQuota : Nat, preConsumedQuota : Nat, tokenConsumed : Nat,
            actual : Nat, tokenQuota : Int, attempt : 0 .. RefundAttempts,
            fundingSettled : BOOLEAN, settled : BOOLEAN, refunded : BOOLEAN]

EmptySession == [funding |-> "none", subId |-> -1, copy |-> 0,
                 effectiveQuota |-> 0, preConsumedQuota |-> 0, tokenConsumed |-> 0,
                 actual |-> 0, tokenQuota |-> 0, attempt |-> 0,
                 fundingSettled |-> FALSE, settled |-> FALSE, refunded |-> FALSE]

NoInput == [pref |-> "subscription_first", quota |-> 0, forceWallet |-> FALSE,
            team |-> FALSE, playground |-> FALSE, forcePreConsume |-> FALSE]

PC == {"idle", "wallet", "subscription", "team", "preToken", "decToken", "preFund",
       "preSave", "rollbackInsufficient", "rollbackError", "relay", "count",
       "settleFund", "settleSave", "settleToken", "refundFund", "refundSave",
       "refundRecord", "refundToken", "done", "rejected"}

FeePC == {"none", "fund", "save", "token", "charged", "failed"}

Init ==
    /\ pc = [r \in Requests |-> "idle"]
    /\ req = [r \in Requests |-> NoInput]
    /\ sess = [r \in Requests |-> EmptySession]
    /\ wallet = InitWallet
    /\ token = InitToken
    /\ tokenStatus = "enabled"
    /\ used = [s \in Subs |-> 0]
    /\ record = [r \in Requests |-> "none"]
    /\ memberUsed = 0
    /\ fundDebit = [r \in Requests |-> 0]
    /\ tokenDebit = [r \in Requests |-> 0]
    /\ fee = [r \in Requests |-> "none"]
    /\ feeCopy = [r \in Requests |-> 0]
    /\ feeDebit = [r \in Requests |-> 0]
    /\ feeToken = [r \in Requests |-> 0]
    /\ lost = [r \in Requests |-> {}]

-----------------------------------------------------------------------------
(* Helpers *)

GoTo(r, label) == pc' = [pc EXCEPT ![r] = label]

SetSess(r, s) == sess' = [sess EXCEPT ![r] = s]

\* A session on its way to pre-consume amount, one that has read n from row x,
\* and one that holds amount in its row.
Funded(s, source, amount) == [s EXCEPT !.funding = source, !.effectiveQuota = amount]
Loaded(s, x, n) == [s EXCEPT !.subId = x, !.copy = n]
Held(s, amount) == [s EXCEPT !.preConsumedQuota = amount, !.copy = 0]

MayFail(op) == op \in Faults

PersonalSubs == Subs \ TeamSubs

OnSubscription(r) == sess[r].funding \in {"subscription", "team"}

\* The rows PreConsumeUserSubscription / PreConsumeTeamSubscription look through.
Rows(r) == IF sess[r].funding = "team" THEN TeamSubs ELSE PersonalSubs

\* Mutant: any row that is not full fits.
FittingAnyLeft(r, amount) == {s \in Rows(r) : SubTotal[s] = 0 \/ SubTotal[s] - used[s] > 0}

\* Those of them that can still take amount.
Fitting(r, amount) ==
    {s \in Rows(r) : SubTotal[s] = 0 \/ SubTotal[s] - used[s] >= amount}

\* Mutant: remain_quota is computed from what TokenAuth read.
ChargeTokenStale(r, amount) ==
    /\ token' = sess[r].tokenQuota - amount
    /\ tokenDebit' = [tokenDebit EXCEPT ![r] = @ + amount]

\* token row: remain_quota - amount (or + when amount is negative)
ChargeToken(r, amount) ==
    /\ token' = token - amount
    /\ tokenDebit' = [tokenDebit EXCEPT ![r] = @ + amount]

KeepToken == UNCHANGED <<token, tokenDebit>>

ChargeWallet(r, amount) ==
    /\ wallet' = wallet - amount
    /\ fundDebit' = [fundDebit EXCEPT ![r] = @ + amount]
    /\ UNCHANGED used

ClampZero(n) == IF n < 0 THEN 0 ELSE n

KeepFunds == UNCHANGED <<wallet, used, fundDebit>>

\* PostConsumeUserSubscriptionDelta reads the row of r, ...
LoadSub(r) ==
    /\ \E s \in Subs : s = sess[r].subId /\ SetSess(r, Loaded(sess[r], s, used[s]))
    /\ KeepFunds

\* ... refuses to go over amount_total, ...
SubRefuses(s, copy, delta) == SubTotal[s] > 0 /\ ClampZero(copy + delta) > SubTotal[s]

\* ... or saves what it computed from its copy, whatever the row holds by now.
SaveSub(s, copy, delta) ==
    /\ ~SubRefuses(s, copy, delta)
    /\ used' = [used EXCEPT ![s] = ClampZero(copy + delta)]
    /\ UNCHANGED wallet

ChargeSub(r, delta) ==
    /\ SaveSub(sess[r].subId, sess[r].copy, delta)
    /\ fundDebit' = [fundDebit EXCEPT ![r] = @ + delta]

Lose(r, ledger) == lost' = [lost EXCEPT ![r] = @ \cup {ledger}]

ShouldTrust(r) ==
    /\ ~req[r].forcePreConsume
    /\ TrustQuota > 0
    /\ (TokenUnlimited /\ ~req[r].playground) \/ sess[r].tokenQuota > TrustQuota
    /\ wallet > TrustQuota

\* What is pre-consumed: at least 1 from a subscription, so that there is a
\* record to refund, and nothing from the wallet of a trusted user.
SubConsume(r) == IF req[r].quota = 0 THEN 1 ELSE req[r].quota
WalletConsume(r) == IF ShouldTrust(r) THEN 0 ELSE req[r].quota

-----------------------------------------------------------------------------
(* Choosing the funding source: NewBillingSession *)

\* The label at which NewBillingSession starts for an input.
FirstAttempt(in) ==
    CASE in.team -> "team"
      [] ~in.team /\ in.forceWallet /\ in.pref = "subscription_only" -> "rejected"
      [] ~in.team /\ in.forceWallet /\ in.pref # "subscription_only" -> "wallet"
      [] ~in.team /\ ~in.forceWallet /\ in.pref = "subscription_only" -> "subscription"
      [] ~in.team /\ ~in.forceWallet /\ in.pref \in {"wallet_only", "wallet_first"} -> "wallet"
      [] ~in.team /\ ~in.forceWallet /\ in.pref = "subscription_first" ->
            IF PersonalSubs = {} THEN "wallet" ELSE "subscription"

\* TokenAuth reads the token, and a token without quota left is marked
\* exhausted and refused before any billing.  The playground uses a token made
\* up on the spot, which has no quota and is not unlimited.
Arrive(r) ==
    /\ pc[r] = "idle"
    /\ \E in \in Inputs :
        /\ req' = [req EXCEPT ![r] = in]
        /\ \/ /\ in.playground \/ (tokenStatus = "enabled" /\ (TokenUnlimited \/ token > 0))
              /\ SetSess(r, [sess[r] EXCEPT !.tokenQuota = IF in.playground THEN 0 ELSE token])
              /\ GoTo(r, FirstAttempt(in))
              /\ UNCHANGED tokenStatus
           \/ /\ ~in.playground
              /\ tokenStatus # "enabled" \/ (~TokenUnlimited /\ token <= 0)
              /\ tokenStatus' = "exhausted"
              /\ GoTo(r, "rejected")
              /\ UNCHANGED sess
    /\ UNCHANGED <<wallet, token, used, record, memberUsed, fundDebit, tokenDebit, lost>>

\* The team branch: the member's cap is read here, long before it is counted,
\* and ignored when it cannot be read.
TryTeam(r) ==
    /\ pc[r] = "team"
    /\ \/ /\ TeamSubs # {}
          /\ MemberLimit = 0 \/ memberUsed < MemberLimit \/ MayFail("read")
          /\ SetSess(r, Funded(sess[r], "team", SubConsume(r)))
          /\ GoTo(r, "preToken")
       \/ /\ TeamSubs = {} \/ (MemberLimit > 0 /\ memberUsed >= MemberLimit)
          /\ GoTo(r, "rejected")
          /\ UNCHANGED sess
    /\ UNCHANGED <<req, fundDebit, tokenDebit, lost>> /\ UNCHANGED dbVars

\* Mutant: an empty wallet tries the subscription whatever the preference.
TryWalletFallsBack(r) ==
    /\ pc[r] = "wallet"
    /\ \/ /\ wallet > 0 /\ wallet >= req[r].quota
          /\ SetSess(r, Funded(sess[r], "wallet", WalletConsume(r)))
          /\ GoTo(r, IF WalletConsume(r) > 0 THEN "preToken" ELSE "preFund")
       \/ /\ wallet <= 0 \/ wallet < req[r].quota
          /\ GoTo(r, "subscription")
          /\ UNCHANGED sess
    /\ UNCHANGED <<req, fundDebit, tokenDebit, lost>> /\ UNCHANGED dbVars

\* tryWallet: the balance check, and the trust bypass that pre-consumes nothing.
TryWallet(r) ==
    /\ pc[r] = "wallet"
    /\ \/ /\ wallet > 0 /\ wallet >= req[r].quota
          /\ SetSess(r, Funded(sess[r], "wallet", WalletConsume(r)))
          /\ GoTo(r, IF WalletConsume(r) > 0 THEN "preToken" ELSE "preFund")
       \/ /\ wallet <= 0 \/ wallet < req[r].quota
          /\ GoTo(r, IF req[r].pref = "wallet_first" /\ ~req[r].forceWallet
                     THEN "subscription" ELSE "rejected")
          /\ UNCHANGED sess
    /\ UNCHANGED <<req, fundDebit, tokenDebit, lost>> /\ UNCHANGED dbVars

\* trySubscription
TrySubscription(r) ==
    /\ pc[r] = "subscription"
    /\ SetSess(r, Funded(sess[r], "subscription", SubConsume(r)))
    /\ GoTo(r, "preToken")
    /\ UNCHANGED <<req, fundDebit, tokenDebit, lost>> /\ UNCHANGED dbVars

\* A query of NewBillingSession or PreConsumeTokenQuota returned an error.
ReadFails(r) ==
    /\ MayFail("read")
    /\ \/ pc[r] \in {"team", "wallet"}
       \/ pc[r] = "subscription" /\ req[r].pref = "subscription_first"
       \/ pc[r] = "preToken" /\ ~req[r].playground
    /\ GoTo(r, "rejected")
    /\ UNCHANGED <<req, sess, fundDebit, tokenDebit, lost>> /\ UNCHANGED dbVars

-----------------------------------------------------------------------------
(* Pre-consumption: BillingSession.preConsume *)

\* PreConsumeTokenQuota: read the token and compare, in a step of its own ...
PreToken(r) ==
    /\ pc[r] = "preToken"
    /\ \/ /\ req[r].playground
          /\ SetSess(r, [sess[r] EXCEPT !.tokenConsumed = sess[r].effectiveQuota])
          /\ GoTo(r, "preFund")
       \/ /\ ~req[r].playground
          /\ TokenUnlimited \/ token >= sess[r].effectiveQuota
          /\ GoTo(r, "decToken")
          /\ UNCHANGED sess
       \/ /\ ~req[r].playground
          /\ ~TokenUnlimited /\ token < sess[r].effectiveQuota
          /\ GoTo(r, "rejected")
          /\ UNCHANGED sess
    /\ UNCHANGED <<req, fundDebit, tokenDebit, lost>> /\ UNCHANGED dbVars

\* ... and decrement whatever the row now holds.
DecToken(r) ==
    /\ pc[r] = "decToken"
    /\ \/ /\ ChargeToken(r, sess[r].effectiveQuota)
          /\ SetSess(r, [sess[r] EXCEPT !.tokenConsumed = sess[r].effectiveQuota])
          /\ GoTo(r, "preFund")
       \/ /\ MayFail("token")
          /\ GoTo(r, "rejected")
          /\ KeepToken /\ UNCHANGED sess
    /\ UNCHANGED <<req, wallet, tokenStatus, used, record, memberUsed, fundDebit, lost>>

PreWallet(r) ==
    /\ sess[r].funding = "wallet"
    /\ \/ /\ ChargeWallet(r, sess[r].effectiveQuota)
          /\ SetSess(r, [sess[r] EXCEPT !.preConsumedQuota = sess[r].effectiveQuota])
          /\ GoTo(r, "relay")
       \/ /\ sess[r].effectiveQuota > 0
          /\ MayFail("wallet")
          /\ GoTo(r, "rollbackError")
          /\ KeepFunds /\ UNCHANGED sess
    /\ UNCHANGED record

\* PreConsumeUserSubscription and PreConsumeTeamSubscription choose the first
\* row that fits, in one query; an error of this query is reported as an
\* insufficient subscription, any other error as itself.
PreSubscription(r) ==
    LET fitting == Fitting(r, sess[r].effectiveQuota)
    IN  /\ OnSubscription(r)
        /\ \/ \E s \in fitting :
                /\ \A t \in fitting : s <= t
                /\ SetSess(r, Loaded(sess[r], s, used[s]))
                /\ GoTo(r, "preSave")
           \/ /\ fitting = {}
              /\ GoTo(r, "rollbackInsufficient")
              /\ UNCHANGED sess
           \/ /\ MayFail("subscription")
              /\ GoTo(r, "rollbackInsufficient") \/ GoTo(r, "rollbackError")
              /\ UNCHANGED sess
        /\ KeepFunds /\ UNCHANGED record

PreFund(r) ==
    /\ pc[r] = "preFund"
    /\ PreWallet(r) \/ PreSubscription(r)
    /\ UNCHANGED <<req, token, tokenStatus, memberUsed, tokenDebit, lost>>

\* The same transaction inserts the record and saves the row from its copy.
PreSave(r) ==
    /\ pc[r] = "preSave"
    /\ \/ /\ used' = [used EXCEPT ![sess[r].subId] = sess[r].copy + sess[r].effectiveQuota]
          /\ fundDebit' = [fundDebit EXCEPT ![r] = @ + sess[r].effectiveQuota]
          /\ record' = [record EXCEPT ![r] = "consumed"]
          /\ SetSess(r, Held(sess[r], sess[r].effectiveQuota))
          /\ GoTo(r, "relay")
          /\ UNCHANGED wallet
       \/ /\ MayFail("subscription")
          /\ SetSess(r, Loaded(sess[r], -1, 0))
          /\ GoTo(r, "rollbackError")
          /\ KeepFunds /\ UNCHANGED record
    /\ UNCHANGED <<req, token, tokenStatus, memberUsed, tokenDebit, lost>>

\* The token part is given back; a failure to do so is only logged.  Only an
\* insufficient personal subscription under subscription_first tries the wallet.
Rollback(r) ==
    /\ pc[r] \in {"rollbackInsufficient", "rollbackError"}
    /\ \/ /\ ~req[r].playground /\ sess[r].tokenConsumed > 0
          /\ SetSess(r, [sess[r] EXCEPT !.tokenConsumed = 0])
          /\ \/ ChargeToken(r, -sess[r].tokenConsumed) /\ UNCHANGED lost
             \/ MayFail("token") /\ Lose(r, "token") /\ KeepToken
       \/ /\ req[r].playground \/ sess[r].tokenConsumed = 0
          /\ SetSess(r, [sess[r] EXCEPT !.tokenConsumed = 0])
          /\ KeepToken /\ UNCHANGED lost
    /\ GoTo(r, IF /\ pc[r] = "rollbackInsufficient"
                  /\ sess[r].funding = "subscription"
                  /\ req[r].pref = "subscription_first"
               THEN "wallet" ELSE "rejected")
    /\ UNCHANGED <<req, wallet, tokenStatus, used, record, memberUsed, fundDebit>>

-----------------------------------------------------------------------------
(* The upstream call *)

UpstreamAnswers(r) ==
    /\ pc[r] = "relay"
    /\ \E a \in Actuals : SetSess(r, [sess[r] EXCEPT !.actual = a])
    /\ GoTo(r, "count")
    /\ UNCHANGED <<req, fundDebit, tokenDebit, lost>> /\ UNCHANGED dbVars

NeedsRefund(r) ==
    /\ ~sess[r].settled /\ ~sess[r].refunded /\ ~sess[r].fundingSettled
    /\ \/ sess[r].tokenConsumed > 0
       \/ sess[r].funding = "subscription" /\ sess[r].preConsumedQuota > 0

\* The relay loop gave up: Refund marks the session and starts the goroutine,
\* then the handler goes on to the violation fee, if the error calls for one.
UpstreamFails(r) ==
    /\ pc[r] = "relay"
    /\ \/ /\ NeedsRefund(r)
          /\ SetSess(r, [sess[r] EXCEPT !.refunded = TRUE])
          /\ GoTo(r, "refundFund")
       \/ /\ ~NeedsRefund(r)
          /\ GoTo(r, "done")
          /\ UNCHANGED sess
    /\ \/ ViolationFee > 0 /\ fee' = [fee EXCEPT ![r] = "fund"]
       \/ UNCHANGED fee
    /\ UNCHANGED <<req, fundDebit, tokenDebit, feeCopy, feeDebit, feeToken, lost>>
    /\ UNCHANGED dbVars

-----------------------------------------------------------------------------
(* Settle *)

\* Mutant: the difference to the estimate instead of to what was pre-consumed.
DeltaToEstimate(r) == sess[r].actual - req[r].quota

Delta(r) == sess[r].actual - sess[r].preConsumedQuota

\* The member's cap is charged first and best-effort; an exact estimate ends here.
CountMember(r) ==
    /\ pc[r] = "count"
    /\ \/ /\ sess[r].funding = "team" /\ ~req[r].playground
          /\ memberUsed' = memberUsed + sess[r].actual
       \/ /\ sess[r].funding # "team" \/ req[r].playground \/ MayFail("member")
          /\ UNCHANGED memberUsed
    /\ \/ /\ Delta(r) = 0
          /\ SetSess(r, [sess[r] EXCEPT !.settled = TRUE])
          /\ GoTo(r, "done")
       \/ /\ Delta(r) # 0
          /\ GoTo(r, "settleFund")
          /\ UNCHANGED sess
    /\ UNCHANGED <<req, wallet, token, tokenStatus, used, record, fundDebit, tokenDebit, lost>>

\* funding.Settle; when it fails Settle returns and nothing is corrected later.
SettleFund(r) ==
    /\ pc[r] = "settleFund"
    /\ \/ /\ sess[r].funding = "wallet"
          /\ ChargeWallet(r, Delta(r))
          /\ SetSess(r, [sess[r] EXCEPT !.fundingSettled = TRUE])
          /\ GoTo(r, "settleToken")
       \/ OnSubscription(r) /\ LoadSub(r) /\ GoTo(r, "settleSave")
       \/ /\ \/ sess[r].funding = "wallet" /\ MayFail("wallet")
             \/ OnSubscription(r) /\ MayFail("subscription")
          /\ GoTo(r, "done")
          /\ KeepFunds /\ UNCHANGED sess
    /\ UNCHANGED <<req, token, tokenStatus, record, memberUsed, tokenDebit, lost>>

SettleSave(r) ==
    /\ pc[r] = "settleSave"
    /\ \/ /\ ChargeSub(r, Delta(r))
          /\ SetSess(r, [sess[r] EXCEPT !.fundingSettled = TRUE, !.copy = 0])
          /\ GoTo(r, "settleToken")
       \/ /\ \/ MayFail("subscription")
             \/ SubRefuses(sess[r].subId, sess[r].copy, Delta(r))
          /\ SetSess(r, [sess[r] EXCEPT !.copy = 0])
          /\ GoTo(r, "done")
          /\ KeepFunds
    /\ UNCHANGED <<req, token, tokenStatus, record, memberUsed, tokenDebit, lost>>

SettleToken(r) ==
    /\ pc[r] = "settleToken"
    /\ \/ /\ ~req[r].playground
          /\ \/ ChargeToken(r, Delta(r)) /\ UNCHANGED lost
             \/ MayFail("token") /\ Lose(r, "token") /\ KeepToken
       \/ /\ req[r].playground
          /\ KeepToken /\ UNCHANGED lost
    /\ SetSess(r, [sess[r] EXCEPT !.settled = TRUE])
    /\ GoTo(r, "done")
    /\ UNCHANGED <<req, wallet, tokenStatus, used, record, memberUsed, fundDebit>>

-----------------------------------------------------------------------------
(* The refund goroutine *)

\* WalletFunding.Refund: one attempt, since adding quota is not idempotent.
RefundWallet(r) ==
    /\ pc[r] = "refundFund"
    /\ sess[r].funding = "wallet"
    /\ \/ ChargeWallet(r, -sess[r].preConsumedQuota) /\ UNCHANGED lost
       \/ MayFail("wallet") /\ Lose(r, "fund") /\ KeepFunds
    /\ GoTo(r, "refundToken")
    /\ UNCHANGED <<req, sess, token, tokenStatus, record, memberUsed, tokenDebit>>

\* A failed attempt is repeated up to RefundAttempts times.
Retry(r) ==
    /\ SetSess(r, [sess[r] EXCEPT !.attempt = sess[r].attempt + 1, !.copy = 0])
    /\ \/ sess[r].attempt + 1 < RefundAttempts /\ GoTo(r, "refundFund") /\ UNCHANGED lost
       \/ sess[r].attempt + 1 = RefundAttempts /\ GoTo(r, "refundToken") /\ Lose(r, "fund")

\* RefundSubscriptionPreConsume reads its record and calls
\* PostConsumeUserSubscriptionDelta, which reads the row ...
RefundSub(r) ==
    /\ pc[r] = "refundFund"
    /\ OnSubscription(r)
    /\ record[r] = "consumed"
    /\ \/ LoadSub(r) /\ GoTo(r, "refundSave") /\ UNCHANGED lost
       \/ MayFail("subscription") /\ Retry(r) /\ KeepFunds
    /\ UNCHANGED <<req, token, tokenStatus, record, memberUsed, tokenDebit>>

\* ... and saves it, in a transaction of its own that commits ...
RefundSave(r) ==
    /\ pc[r] = "refundSave"
    /\ \/ /\ ChargeSub(r, -sess[r].preConsumedQuota)
          /\ SetSess(r, [sess[r] EXCEPT !.copy = 0])
          /\ GoTo(r, "refundRecord")
          /\ UNCHANGED lost
       \/ MayFail("subscription") /\ Retry(r) /\ KeepFunds
    /\ UNCHANGED <<req, token, tokenStatus, record, memberUsed, tokenDebit>>

\* ... before the outer transaction saves the record as refunded.
RefundRecord(r) ==
    /\ pc[r] = "refundRecord"
    /\ \/ /\ record' = [record EXCEPT ![r] = "refunded"]
          /\ GoTo(r, "refundToken")
          /\ UNCHANGED <<sess, lost>>
       \/ MayFail("record") /\ Retry(r) /\ UNCHANGED record
    /\ UNCHANGED <<req, wallet, token, tokenStatus, used, memberUsed, fundDebit, tokenDebit>>

\* Mutant: the token is given its part back for the playground too.
RefundAnyToken(r) ==
    /\ pc[r] = "refundToken"
    /\ ChargeToken(r, -sess[r].tokenConsumed)
    /\ GoTo(r, "done")
    /\ UNCHANGED <<req, sess, wallet, tokenStatus, used, record, memberUsed, fundDebit, lost>>

\* Mutant: only the funding source is refunded.
RefundNoToken(r) ==
    /\ pc[r] = "refundToken"
    /\ GoTo(r, "done")
    /\ KeepToken
    /\ UNCHANGED <<req, sess, wallet, tokenStatus, used, record, memberUsed, fundDebit, lost>>

RefundToken(r) ==
    /\ pc[r] = "refundToken"
    /\ \/ /\ ~req[r].playground /\ sess[r].tokenConsumed > 0
          /\ \/ ChargeToken(r, -sess[r].tokenConsumed) /\ UNCHANGED lost
             \/ MayFail("token") /\ Lose(r, "token") /\ KeepToken
       \/ /\ req[r].playground \/ sess[r].tokenConsumed = 0
          /\ KeepToken /\ UNCHANGED lost
    /\ GoTo(r, "done")
    /\ UNCHANGED <<req, sess, wallet, tokenStatus, used, record, memberUsed, fundDebit>>

-----------------------------------------------------------------------------
(* The violation fee: PostConsumeQuota, in the handler, beside the refund *)

FeeFund(r) ==
    /\ fee[r] = "fund"
    /\ \/ /\ sess[r].funding = "wallet"
          /\ wallet' = wallet - ViolationFee
          /\ fee' = [fee EXCEPT ![r] = "token"]
          /\ feeDebit' = [feeDebit EXCEPT ![r] = ViolationFee]
          /\ UNCHANGED feeCopy
       \/ /\ OnSubscription(r)
          /\ \E s \in Subs :
                s = sess[r].subId /\ feeCopy' = [feeCopy EXCEPT ![r] = used[s]]
          /\ fee' = [fee EXCEPT ![r] = "save"]
          /\ UNCHANGED <<wallet, feeDebit>>
       \/ /\ \/ sess[r].funding = "wallet" /\ MayFail("wallet")
             \/ OnSubscription(r) /\ MayFail("subscription")
          /\ fee' = [fee EXCEPT ![r] = "failed"]
          /\ UNCHANGED <<wallet, feeCopy, feeDebit>>
    /\ UNCHANGED <<pc, req, sess, token, tokenStatus, used, record, memberUsed,
                   fundDebit, tokenDebit, feeToken, lost>>

FeeSave(r) ==
    /\ fee[r] = "save"
    /\ \/ /\ SaveSub(sess[r].subId, feeCopy[r], ViolationFee)
          /\ fee' = [fee EXCEPT ![r] = "token"]
          /\ feeDebit' = [feeDebit EXCEPT ![r] = ViolationFee]
       \/ /\ \/ MayFail("subscription")
             \/ SubRefuses(sess[r].subId, feeCopy[r], ViolationFee)
          /\ fee' = [fee EXCEPT ![r] = "failed"]
          /\ UNCHANGED <<wallet, used, feeDebit>>
    /\ feeCopy' = [feeCopy EXCEPT ![r] = 0]
    /\ UNCHANGED <<pc, req, sess, token, tokenStatus, record, memberUsed,
                   fundDebit, tokenDebit, feeToken, lost>>

FeeToken(r) ==
    /\ fee[r] = "token"
    /\ \/ /\ ~req[r].playground
          /\ token' = token - ViolationFee
          /\ feeToken' = [feeToken EXCEPT ![r] = ViolationFee]
          /\ fee' = [fee EXCEPT ![r] = "charged"]
       \/ /\ req[r].playground
          /\ fee' = [fee EXCEPT ![r] = "charged"]
          /\ UNCHANGED <<token, feeToken>>
       \/ /\ ~req[r].playground /\ MayFail("token")
          /\ fee' = [fee EXCEPT ![r] = "failed"]
          /\ UNCHANGED <<token, feeToken>>
    /\ UNCHANGED <<pc, req, sess, wallet, tokenStatus, used, record, memberUsed,
                   feeCopy, fundDebit, tokenDebit, feeDebit, lost>>

-----------------------------------------------------------------------------
Finished(r) == pc[r] \in {"done", "rejected"} /\ fee[r] \notin {"fund", "save", "token"}

\* The steps of a request that leave its fee alone.
Bill(r) ==
    /\ \/ Arrive(r) \/ TryTeam(r) \/ TryWallet(r) \/ TrySubscription(r) \/ ReadFails(r)
       \/ PreToken(r) \/ DecToken(r) \/ PreFund(r) \/ PreSave(r) \/ Rollback(r)
       \/ UpstreamAnswers(r) \/ CountMember(r)
       \/ SettleFund(r) \/ SettleSave(r) \/ SettleToken(r)
       \/ RefundWallet(r) \/ RefundSub(r) \/ RefundSave(r) \/ RefundRecord(r)
       \/ RefundToken(r)
    /\ UNCHANGED feeVars

Fee(r) == FeeFund(r) \/ FeeSave(r) \/ FeeToken(r)

Terminated == (\A r \in Requests : Finished(r)) /\ UNCHANGED vars

Next == (\E r \in Requests : Bill(r) \/ UpstreamFails(r) \/ Fee(r)) \/ Terminated

Spec == Init /\ [][Next]_vars

\* Handlers and refund goroutines are scheduled by the Go runtime and their
\* statements return.  Nothing obliges a request to arrive, nor the upstream to
\* answer: RELAY_TIMEOUT is 0 by default, which is no timeout at all.
FairSpec ==
    /\ Spec
    /\ \A r \in Requests :
        /\ WF_vars(pc[r] \notin {"idle", "relay"} /\ Bill(r))
        /\ WF_vars(Fee(r))

-----------------------------------------------------------------------------
(* Properties *)

\* Every variable keeps its type; no counter of a session ever goes negative.
TypeOK ==
    /\ pc \in [Requests -> PC]
    /\ req \in [Requests -> InputType]
    /\ sess \in [Requests -> Session]
    /\ wallet \in Int
    /\ token \in Int
    /\ tokenStatus \in {"enabled", "exhausted"}
    /\ used \in [Subs -> Nat]
    /\ record \in [Requests -> {"none", "consumed", "refunded"}]
    /\ memberUsed \in Nat
    /\ fee \in [Requests -> FeePC]
    /\ feeCopy \in [Requests -> Nat]
    /\ fundDebit \in [Requests -> Int]
    /\ tokenDebit \in [Requests -> Int]
    /\ feeDebit \in [Requests -> Nat]
    /\ feeToken \in [Requests -> Nat]
    /\ lost \in [Requests -> SUBSET {"token", "fund"}]

\* What r owes its token, unless a failed statement has spoilt the account.
TokenOwes(r, n) ==
    "token" \notin lost[r] => tokenDebit[r] = IF req[r].playground THEN 0 ELSE n

\* The account of r at every point of its life: the inductive invariant behind
\* the properties about one request.
Account(r) ==
    LET s == sess[r]
        open == pc[r] \in {"refundFund", "refundSave", "refundRecord", "refundToken"}
    IN  /\ s.settled => pc[r] = "done" /\ ~s.refunded
        /\ s.refunded => open \/ pc[r] = "done"
        /\ open => s.refunded
        /\ "fund" \in lost[r] => pc[r] \in {"refundToken", "done"} /\ s.refunded
        /\ pc[r] = "decToken" => ~req[r].playground
        /\ pc[r] \in {"idle", "wallet", "subscription", "team", "preToken", "decToken"} =>
                s.tokenConsumed = 0 /\ fundDebit[r] = 0 /\ TokenOwes(r, 0)
        /\ pc[r] \in {"preFund", "preSave"} => s.tokenConsumed = s.effectiveQuota
        /\ pc[r] \in {"count", "settleFund", "settleSave"} => s.actual \in Actuals
        /\ pc[r] \in {"preFund", "preSave", "rollbackInsufficient", "rollbackError"} =>
                fundDebit[r] = 0 /\ TokenOwes(r, s.tokenConsumed)
        /\ pc[r] = "rejected" => fundDebit[r] = 0 /\ TokenOwes(r, 0)
        /\ pc[r] \in {"relay", "count", "settleFund", "settleSave",
                      "refundFund", "refundSave"} => fundDebit[r] = s.preConsumedQuota
        /\ pc[r] \in {"relay", "count", "settleFund", "settleSave"} \/ open =>
                s.tokenConsumed = s.preConsumedQuota /\ TokenOwes(r, s.preConsumedQuota)
        /\ pc[r] = "settleToken" =>
                fundDebit[r] = s.actual /\ TokenOwes(r, s.preConsumedQuota)
        /\ pc[r] = "refundRecord" => fundDebit[r] = 0
        /\ pc[r] \in {"refundToken", "done"} /\ s.refunded =>
                fundDebit[r] = IF "fund" \in lost[r] THEN s.preConsumedQuota ELSE 0
        /\ pc[r] = "done" /\ s.refunded => TokenOwes(r, 0)
        /\ pc[r] = "done" /\ s.settled => fundDebit[r] = s.actual /\ TokenOwes(r, s.actual)
        /\ pc[r] = "done" /\ ~s.settled /\ ~s.refunded =>
                fundDebit[r] = s.preConsumedQuota /\ TokenOwes(r, s.preConsumedQuota)

\* Each request's account is in order at each of its steps, whatever the others do.
AccountInv == \A r \in Requests : Account(r)

\* What the funding source has finally lost to r: the actual quota once Settle
\* is through, nothing after a rejection or a complete refund, and exactly the
\* estimate when Settle failed or Refund found nothing to give back.
FundingOutcome ==
    \A r \in Requests :
        /\ pc[r] = "rejected" => fundDebit[r] = 0
        /\ pc[r] = "done" =>
            /\ sess[r].settled => fundDebit[r] = sess[r].actual
            /\ sess[r].refunded /\ "fund" \notin lost[r] => fundDebit[r] = 0
            /\ ~sess[r].settled /\ ~sess[r].refunded =>
                    fundDebit[r] = sess[r].preConsumedQuota

\* The token and the funding source are charged in separate statements, yet a
\* finished request has taken the same from both, unless a statement failed.
TokenMirrorsFunding ==
    \A r \in Requests :
        pc[r] \in {"done", "rejected"} /\ lost[r] = {} /\ ~req[r].playground =>
            tokenDebit[r] = fundDebit[r]

\* RefundSubscriptionPreConsume is documented as idempotent, and Refund as safe
\* to repeat: no request ever gives its funding source more than it took.
NeverOverRefund == \A r \in Requests : fundDebit[r] >= 0

\* What the retries of refundWithRetry can cost at worst when a pre-consume
\* record cannot be saved: an attempt that was only half done is done again,
\* so a first attempt gives back no more than was taken, and the others no more
\* than the same again each.
RefundBounded ==
    \A r \in Requests :
        /\ sess[r].attempt = 0 => fundDebit[r] >= 0
        /\ fundDebit[r] >= -(RefundAttempts - 1) * sess[r].preConsumedQuota

\* PreConsumeUserSubscription, PreConsumeTeamSubscription and
\* PostConsumeUserSubscriptionDelta keep amount_used within amount_total,
\* however estimates, settlements, refunds and fees interleave.
SubWithinTotal == \A s \in Subs : SubTotal[s] > 0 => used[s] <= SubTotal[s]

\* What r has taken from the token, the wallet and row s, its fee included.
FromToken == [r \in Requests |-> tokenDebit[r] + feeToken[r]]
FromWallet ==
    [r \in Requests |-> IF OnSubscription(r) THEN 0 ELSE fundDebit[r] + feeDebit[r]]
FromRow(s) ==
    [r \in Requests |-> IF sess[r].subId = s THEN fundDebit[r] + feeDebit[r] ELSE 0]

\* Nothing is lost or made in the rows every request shares: users.quota and
\* tokens.remain_quota are always exactly what the requests, their refunds and
\* their fees have taken, below zero too, although each of them was checked
\* against an older value.
RowsConserved ==
    /\ token = InitToken - SumFunctionOnSet(FromToken, Requests)
    /\ wallet = InitWallet - SumFunctionOnSet(FromWallet, Requests)

\* The same of amount_used, which the code does not guarantee: a row that is
\* saved from a copy drops what was charged after the copy was read.
SubsConserved == \A s \in Subs : used[s] = SumFunctionOnSet(FromRow(s), Requests)

\* A request has a row only while a subscription funds it, has taken nothing
\* before its pre-consumption and a fee only after it: the inductive invariant
\* behind RowsConserved.
Placed(r) ==
    LET before == pc[r] \in {"idle", "wallet", "subscription", "team", "preToken",
                             "decToken", "preFund", "preSave", "rollbackInsufficient",
                             "rollbackError", "rejected"}
    IN  /\ before => fundDebit[r] = 0
        /\ before \/ pc[r] = "relay" => fee[r] = "none"
        /\ pc[r] \in {"preSave", "settleSave", "refundSave"} \/ fee[r] = "save" =>
                OnSubscription(r)
        /\ fee[r] \in {"none", "fund", "save"} => feeDebit[r] = 0
        /\ fee[r] \in {"none", "fund", "save", "token"} => feeToken[r] = 0

PlacedInv == \A r \in Requests : Placed(r)

\* What the attempts of a refund have left of the debit of r, whatever fails:
\* the inductive invariant behind RefundBounded.
Attempts(r) ==
    LET s == sess[r]
        pre == s.preConsumedQuota
    IN  /\ pc[r] \notin {"refundFund", "refundSave", "refundRecord", "refundToken", "done"} =>
                s.attempt = 0
        /\ pc[r] \in {"relay", "count", "settleFund", "settleSave"} => fundDebit[r] = pre
        /\ pc[r] = "settleToken" => fundDebit[r] = s.actual
        /\ pc[r] \in {"refundFund", "refundSave"} =>
                \/ s.attempt = 0 /\ fundDebit[r] = pre
                \/ s.attempt = 1 /\ fundDebit[r] >= 0
                \/ s.attempt = 2 /\ fundDebit[r] >= -pre
        /\ pc[r] = "refundRecord" =>
                \/ s.attempt = 0 /\ fundDebit[r] = 0
                \/ s.attempt = 1 /\ fundDebit[r] >= -pre
                \/ s.attempt = 2 /\ fundDebit[r] >= -(2 * pre)
        /\ pc[r] \in {"refundToken", "done"} =>
                /\ s.attempt = 0 => fundDebit[r] >= 0
                /\ fundDebit[r] >= -(2 * pre)

AttemptsInv == \A r \in Requests : Attempts(r)

\* What a request does on its own account comes to an end: it is rejected or
\* relayed although each source may fall back on the other, and after the
\* upstream's answer its settlement or its refund, with all retries, and its fee
\* are over.  Only the upstream may keep it for ever.
EveryRequestFinishes ==
    \A r \in Requests :
        pc[r] \notin {"idle", "relay"} ~> Finished(r) \/ pc[r] = "relay"

\* The reservation each request stands for.
ReservationStatus(r) ==
    CASE pc[r] = "rejected" -> "rejected"
      [] pc[r] = "settleToken" \/ (pc[r] = "done" /\ sess[r].settled) -> "captured"
      [] \/ pc[r] = "refundRecord"
         \/ /\ pc[r] \in {"refundToken", "done"}
            /\ sess[r].refunded /\ "fund" \notin lost[r] -> "released"
      [] pc[r] \in {"relay", "count", "settleFund", "settleSave", "refundFund", "refundSave"}
         \/ (/\ pc[r] \in {"refundToken", "done"} /\ ~sess[r].settled
             /\ ~sess[r].refunded \/ "fund" \in lost[r]) -> "held"
      [] OTHER -> "idle"

Reserved == INSTANCE Reservation WITH
    Costs <- Actuals,
    status <- [r \in Requests |-> ReservationStatus(r)],
    debit <- fundDebit

\* A session implements a reservation: its funding source is debited once,
\* then captured at the actual quota or released in full, once and for good.
ImplementsReservation == Reserved!Spec
=============================================================================

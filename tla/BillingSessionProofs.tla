------------------------ MODULE BillingSessionProofs ------------------------
(***************************************************************************)
(* Proofs about BillingSession for any number of requests, rows and faults.*)
(***************************************************************************)
EXTENDS BillingSession, SumTheorems, TLAPS

-----------------------------------------------------------------------------
(* Type correctness *)

\* Updating one entry of a function keeps its type.
LEMMA EntryUpdate ==
    ASSUME NEW S, NEW f \in [Requests -> S], NEW r \in Requests, NEW v \in S
    PROVE  [f EXCEPT ![r] = v] \in [Requests -> S]
  OBVIOUS

\* The assignments the code makes to the fields of a session keep it one: the
\* choice of a funding source,
LEMMA SetFunding ==
    ASSUME NEW s \in Session, NEW f \in Fundings, NEW n \in Nat
    PROVE  /\ Funded(s, f, n) \in Session
           /\ Funded(s, f, n).effectiveQuota = n
           /\ Funded(s, f, n).tokenConsumed = s.tokenConsumed
           /\ Funded(s, f, n).settled = s.settled
           /\ Funded(s, f, n).refunded = s.refunded
  BY DEF Session, Funded

\* the quotas read, reserved and consumed,
LEMMA SetQuota ==
    ASSUME NEW s \in Session, NEW n \in Nat
    PROVE  /\ [s EXCEPT !.tokenConsumed = n] \in Session
           /\ [s EXCEPT !.preConsumedQuota = n] \in Session
           /\ [s EXCEPT !.actual = n] \in Session
  BY DEF Session

\* the token quota that TokenAuth read,
LEMMA SetTokenQuota ==
    ASSUME NEW s \in Session, NEW n \in Int
    PROVE  [s EXCEPT !.tokenQuota = n] \in Session
  BY DEF Session

\* the subscription row that a transaction has read,
LEMMA SetLoaded ==
    ASSUME NEW s \in Session, NEW x \in Subs \cup {-1}, NEW n \in Nat
    PROVE  /\ Loaded(s, x, n) \in Session
           /\ Loaded(s, x, n).subId = x /\ Loaded(s, x, n).copy = n
           /\ Loaded(s, x, n).funding = s.funding
           /\ Loaded(s, x, n).effectiveQuota = s.effectiveQuota
           /\ Loaded(s, x, n).preConsumedQuota = s.preConsumedQuota
           /\ Loaded(s, x, n).tokenConsumed = s.tokenConsumed
           /\ Loaded(s, x, n).actual = s.actual /\ Loaded(s, x, n).attempt = s.attempt
           /\ Loaded(s, x, n).settled = s.settled /\ Loaded(s, x, n).refunded = s.refunded
  BY DEF Session, Loaded

\* the estimate it holds there,
LEMMA SetHeld ==
    ASSUME NEW s \in Session, NEW n \in Nat
    PROVE  /\ Held(s, n) \in Session
           /\ Held(s, n).preConsumedQuota = n
           /\ Held(s, n).funding = s.funding /\ Held(s, n).attempt = s.attempt
           /\ Held(s, n).tokenConsumed = s.tokenConsumed
           /\ Held(s, n).settled = s.settled /\ Held(s, n).refunded = s.refunded
  BY DEF Session, Held

\* the end of a transaction,
LEMMA DropCopy ==
    ASSUME NEW s \in Session
    PROVE  /\ [s EXCEPT !.copy = 0] \in Session
           /\ [s EXCEPT !.fundingSettled = TRUE, !.copy = 0] \in Session
  BY DEF Session

\* What a step that sets the session of r leaves in it.
LEMMA Stored ==
    ASSUME NEW r \in Requests, NEW v, sess \in [Requests -> Session], SetSess(r, v)
    PROVE  sess'[r] = v
  BY DEF SetSess

\* the marks of Settle and Refund,
LEMMA SetMark ==
    ASSUME NEW s \in Session
    PROVE  /\ [s EXCEPT !.refunded = TRUE] \in Session
           /\ [s EXCEPT !.settled = TRUE] \in Session
           /\ [s EXCEPT !.fundingSettled = TRUE] \in Session
  BY DEF Session

\* and the count of refund attempts.
LEMMA SetAttempt ==
    ASSUME NEW s \in Session, NEW n \in 0 .. RefundAttempts
    PROVE  [s EXCEPT !.attempt = n, !.copy = 0] \in Session
  BY DEF Session

\* Moving a request to a label keeps the type of pc.
LEMMA GoToType ==
    ASSUME NEW r \in Requests, NEW label \in PC, pc \in [Requests -> PC], GoTo(r, label)
    PROVE  pc' \in [Requests -> PC]
  BY DEF GoTo

\* Storing a session keeps the type of sess.
LEMMA SetSessType ==
    ASSUME NEW r \in Requests, NEW s \in Session, sess \in [Requests -> Session],
           SetSess(r, s)
    PROVE  sess' \in [Requests -> Session]
  BY EntryUpdate DEF SetSess

\* The initial state is well typed.
LEMMA InitType == Init => TypeOK
  BY ConstantsAssumption
     DEF Init, TypeOK, PC, FeePC, NoInput, InputType, Prefs, EmptySession, Session,
         Fundings, RefundAttempts

\* Every step of billing keeps the types.
LEMMA BillType ==
    ASSUME TypeOK, NEW r \in Requests, Bill(r) PROVE TypeOK'
  <1> USE ConstantsAssumption
  <1>a. sess[r] \in Session /\ req[r] \in InputType
    BY DEF TypeOK
  <1>b. /\ sess[r].effectiveQuota \in Nat /\ sess[r].preConsumedQuota \in Nat
        /\ sess[r].tokenConsumed \in Nat /\ sess[r].actual \in Nat
        /\ sess[r].attempt \in 0 .. RefundAttempts /\ req[r].quota \in Nat
    BY <1>a DEF Session, InputType
  <1>c. UNCHANGED <<fee, feeCopy, feeDebit, feeToken>>
    BY DEF Bill, feeVars
  <1>1. CASE Arrive(r)
    <2>0. \A in \in Inputs :
            [sess[r] EXCEPT !.tokenQuota = IF in.playground THEN 0 ELSE token] \in Session
      <3>1. \A in \in Inputs : (IF in.playground THEN 0 ELSE token) \in Int
        BY DEF TypeOK
      <3> QED
        BY <1>a, <3>1, SetTokenQuota
    <2>1. sess' \in [Requests -> Session]
      BY <1>1, <2>0, SetSessType
         DEF Arrive, TypeOK
    <2>2. pc' \in [Requests -> PC]
      BY <1>1, <1>a, GoToType DEF Arrive, FirstAttempt, TypeOK, PC, InputType, Prefs
    <2> QED
      BY <1>1, <1>a, <1>b, <1>c, <2>1, <2>2
         DEF Arrive, TypeOK
  <1>2. CASE TryTeam(r)
    <2>0. Funded(sess[r], "team", SubConsume(r)) \in Session
      BY <1>a, <1>b, SetFunding DEF SubConsume, Fundings
    <2>1. sess' \in [Requests -> Session]
      BY <1>2, <2>0, SetSessType
         DEF TryTeam, TypeOK
    <2>2. pc' \in [Requests -> PC]
      BY <1>2, <1>a, GoToType DEF TryTeam, TypeOK, PC
    <2> QED
      BY <1>2, <1>a, <1>b, <1>c, <2>1, <2>2
         DEF TryTeam, dbVars, TypeOK
  <1>3. CASE TryWallet(r)
    <2>0. Funded(sess[r], "wallet", WalletConsume(r)) \in Session
      BY <1>a, <1>b, SetFunding DEF WalletConsume, Fundings
    <2>1. sess' \in [Requests -> Session]
      BY <1>3, <2>0, SetSessType
         DEF TryWallet, TypeOK
    <2>2. pc' \in [Requests -> PC]
      BY <1>3, <1>a, GoToType DEF TryWallet, TypeOK, PC
    <2> QED
      BY <1>3, <1>a, <1>b, <1>c, <2>1, <2>2
         DEF TryWallet, dbVars, TypeOK
  <1>4. CASE TrySubscription(r)
    <2>0. Funded(sess[r], "subscription", SubConsume(r)) \in Session
      BY <1>a, <1>b, SetFunding DEF SubConsume, Fundings
    <2>1. sess' \in [Requests -> Session]
      BY <1>4, <2>0, SetSessType
         DEF TrySubscription, TypeOK
    <2>2. pc' \in [Requests -> PC]
      BY <1>4, <1>a, GoToType DEF TrySubscription, TypeOK, PC
    <2> QED
      BY <1>4, <1>a, <1>b, <1>c, <2>1, <2>2
         DEF TrySubscription, dbVars, TypeOK
  <1>5. CASE ReadFails(r)
    <2>1. sess' \in [Requests -> Session]
      BY <1>5 DEF ReadFails, TypeOK
    <2>2. pc' \in [Requests -> PC]
      BY <1>5, <1>a, GoToType DEF ReadFails, TypeOK, PC
    <2> QED
      BY <1>5, <1>a, <1>b, <1>c, <2>1, <2>2
         DEF ReadFails, dbVars, TypeOK
  <1>6. CASE PreToken(r)
    <2>0. [sess[r] EXCEPT !.tokenConsumed = sess[r].effectiveQuota] \in Session
      BY <1>a, <1>b, SetQuota
    <2>1. sess' \in [Requests -> Session]
      BY <1>6, <2>0, SetSessType
         DEF PreToken, TypeOK
    <2>2. pc' \in [Requests -> PC]
      BY <1>6, <1>a, GoToType DEF PreToken, TypeOK, PC
    <2> QED
      BY <1>6, <1>a, <1>b, <1>c, <2>1, <2>2
         DEF PreToken, dbVars, TypeOK
  <1>7. CASE DecToken(r)
    <2>0. [sess[r] EXCEPT !.tokenConsumed = sess[r].effectiveQuota] \in Session
      BY <1>a, <1>b, SetQuota
    <2>1. sess' \in [Requests -> Session]
      BY <1>7, <2>0, SetSessType
         DEF DecToken, TypeOK
    <2>2. pc' \in [Requests -> PC]
      BY <1>7, <1>a, GoToType DEF DecToken, TypeOK, PC
    <2> QED
      BY <1>7, <1>a, <1>b, <1>c, <2>1, <2>2
         DEF DecToken, ChargeToken, KeepToken, TypeOK
  <1>8. CASE PreFund(r)
    <2>0. /\ [sess[r] EXCEPT !.preConsumedQuota = sess[r].effectiveQuota] \in Session
          /\ \A x \in Subs : Loaded(sess[r], x, used[x]) \in Session
      BY <1>a, <1>b, SetQuota, SetLoaded DEF TypeOK
    <2>1. sess' \in [Requests -> Session]
      <3>1. CASE PreWallet(r)
        BY <2>0, <3>1, SetSessType DEF PreWallet, TypeOK
      <3>2. CASE PreSubscription(r)
        <4>1. Fitting(r, sess[r].effectiveQuota) \subseteq Subs
          BY DEF Fitting, Rows, PersonalSubs
        <4> QED
          BY <2>0, <3>2, <4>1, SetSessType DEF PreSubscription, TypeOK
      <3> QED
        BY <1>8, <3>1, <3>2 DEF PreFund
    <2>2. pc' \in [Requests -> PC]
      BY <1>8, GoToType DEF PreFund, PreWallet, PreSubscription, TypeOK, PC
    <2>3. CASE PreWallet(r)
      BY <1>8, <1>b, <1>c, <2>1, <2>2, <2>3
         DEF PreFund, PreWallet, ChargeWallet, KeepFunds, TypeOK
    <2>4. CASE PreSubscription(r)
      BY <1>8, <1>c, <2>1, <2>2, <2>4
         DEF PreFund, PreSubscription, KeepFunds, TypeOK
    <2> QED
      BY <1>8, <2>3, <2>4 DEF PreFund
  <1>9. CASE Rollback(r)
    <2>0. [sess[r] EXCEPT !.tokenConsumed = 0] \in Session
      BY <1>a, SetQuota
    <2>1. sess' \in [Requests -> Session]
      BY <1>9, <2>0, SetSessType
         DEF Rollback, TypeOK
    <2>2. pc' \in [Requests -> PC]
      BY <1>9, <1>a, GoToType DEF Rollback, TypeOK, PC
    <2> QED
      BY <1>9, <1>a, <1>b, <1>c, <2>1, <2>2
         DEF Rollback, ChargeToken, KeepToken, Lose, TypeOK
  <1>10. CASE UpstreamAnswers(r)
    <2>0. \A n \in Actuals : [sess[r] EXCEPT !.actual = n] \in Session
      BY <1>a, <1>b, SetQuota
    <2>1. sess' \in [Requests -> Session]
      BY <1>10, <2>0, SetSessType
         DEF UpstreamAnswers, TypeOK
    <2>2. pc' \in [Requests -> PC]
      BY <1>10, <1>a, GoToType DEF UpstreamAnswers, TypeOK, PC
    <2> QED
      BY <1>10, <1>a, <1>b, <1>c, <2>1, <2>2
         DEF UpstreamAnswers, dbVars, TypeOK
  <1>11. CASE CountMember(r)
    <2>0. [sess[r] EXCEPT !.settled = TRUE] \in Session
      BY <1>a, SetMark
    <2>1. sess' \in [Requests -> Session]
      BY <1>11, <2>0, SetSessType
         DEF CountMember, TypeOK
    <2>2. pc' \in [Requests -> PC]
      BY <1>11, <1>a, GoToType DEF CountMember, TypeOK, PC
    <2> QED
      BY <1>11, <1>a, <1>b, <1>c, <2>1, <2>2
         DEF CountMember, Delta, TypeOK
  <1>l. ASSUME LoadSub(r)
        PROVE  sess' \in [Requests -> Session] /\ UNCHANGED <<wallet, used, fundDebit>>
    <2>1. \A x \in Subs : Loaded(sess[r], x, used[x]) \in Session
      BY <1>a, SetLoaded DEF TypeOK
    <2> QED
      BY <1>l, <2>1, SetSessType DEF LoadSub, KeepFunds, TypeOK
  <1>u. ASSUME NEW delta \in Int, ChargeSub(r, delta)
        PROVE  /\ used' \in [Subs -> Nat] /\ fundDebit' \in [Requests -> Int]
               /\ UNCHANGED wallet
    <2>1. ClampZero(sess[r].copy + delta) \in Nat
      BY <1>a, <1>u DEF ClampZero, Session
    <2>2. /\ used' = [used EXCEPT ![sess[r].subId] = ClampZero(sess[r].copy + delta)]
          /\ UNCHANGED wallet
      BY <1>u DEF ChargeSub, SaveSub
    <2>3. used' \in [Subs -> Nat]
      BY <2>1, <2>2 DEF TypeOK
    <2> QED
      BY <1>u, <2>2, <2>3 DEF ChargeSub, TypeOK
  <1>d. Delta(r) \in Int /\ -sess[r].preConsumedQuota \in Int
    BY <1>b DEF Delta
  <1>12. CASE SettleFund(r)
    <2>0. [sess[r] EXCEPT !.fundingSettled = TRUE] \in Session
      BY <1>a, SetMark
    <2>1. sess' \in [Requests -> Session]
      BY <1>12, <1>l, <2>0, SetSessType
         DEF SettleFund, TypeOK
    <2>2. pc' \in [Requests -> PC]
      BY <1>12, <1>a, GoToType DEF SettleFund, TypeOK, PC
    <2>3. wallet' \in Int /\ used' = used /\ fundDebit' \in [Requests -> Int]
      BY <1>12, <1>l, <1>d DEF SettleFund, ChargeWallet, KeepFunds, TypeOK
    <2> QED
      BY <1>12, <1>c, <2>1, <2>2, <2>3 DEF SettleFund, TypeOK
  <1>13. CASE SettleToken(r)
    <2>0. [sess[r] EXCEPT !.settled = TRUE] \in Session
      BY <1>a, SetMark
    <2>1. sess' \in [Requests -> Session]
      BY <1>13, <2>0, SetSessType
         DEF SettleToken, TypeOK
    <2>2. pc' \in [Requests -> PC]
      BY <1>13, <1>a, GoToType DEF SettleToken, TypeOK, PC
    <2> QED
      BY <1>13, <1>a, <1>b, <1>c, <2>1, <2>2
         DEF SettleToken, ChargeToken, KeepToken, Lose, Delta, TypeOK
  <1>14. CASE RefundWallet(r)
    <2>1. sess' \in [Requests -> Session]
      BY <1>14 DEF RefundWallet, TypeOK
    <2>2. pc' \in [Requests -> PC]
      BY <1>14, <1>a, GoToType DEF RefundWallet, TypeOK, PC
    <2> QED
      BY <1>14, <1>a, <1>b, <1>c, <2>1, <2>2
         DEF RefundWallet, ChargeWallet, KeepFunds, Lose, TypeOK
  <1>r. ASSUME Retry(r)
        PROVE  /\ sess' \in [Requests -> Session] /\ pc' \in [Requests -> PC]
               /\ lost' \in [Requests -> SUBSET {"token", "fund"}]
    <2>0. sess[r].attempt + 1 \in 0 .. RefundAttempts =>
            [sess[r] EXCEPT !.attempt = sess[r].attempt + 1, !.copy = 0] \in Session
      BY <1>a, <1>b, SetAttempt
    <2>1. sess' \in [Requests -> Session]
      BY <1>r, <1>b, <2>0, SetSessType DEF Retry, RefundAttempts, TypeOK
    <2>2. pc' \in [Requests -> PC]
      BY <1>r, GoToType DEF Retry, TypeOK, PC
    <2> QED
      BY <1>r, <2>1, <2>2 DEF Retry, Lose, TypeOK
  <1>15. CASE RefundSub(r)
    <2>1. sess' \in [Requests -> Session]
      BY <1>15, <1>l, <1>r DEF RefundSub
    <2>2. pc' \in [Requests -> PC]
      BY <1>15, <1>r, GoToType DEF RefundSub, TypeOK, PC
    <2>3. UNCHANGED <<wallet, used, fundDebit>> /\ lost' \in [Requests -> SUBSET {"token", "fund"}]
      BY <1>15, <1>l, <1>r DEF RefundSub, KeepFunds, TypeOK
    <2> QED
      BY <1>15, <1>c, <2>1, <2>2, <2>3 DEF RefundSub, TypeOK
  <1>16. CASE RefundRecord(r)
    <2>1. sess' \in [Requests -> Session]
      BY <1>16, <1>r DEF RefundRecord, TypeOK
    <2>2. pc' \in [Requests -> PC]
      BY <1>16, <1>r, GoToType DEF RefundRecord, TypeOK, PC
    <2>3. lost' \in [Requests -> SUBSET {"token", "fund"}]
      BY <1>16, <1>r DEF RefundRecord, TypeOK
    <2> QED
      BY <1>16, <1>c, <2>1, <2>2, <2>3 DEF RefundRecord, TypeOK
  <1>17. CASE RefundToken(r)
    <2>1. sess' \in [Requests -> Session]
      BY <1>17 DEF RefundToken, TypeOK
    <2>2. pc' \in [Requests -> PC]
      BY <1>17, <1>a, GoToType DEF RefundToken, TypeOK, PC
    <2> QED
      BY <1>17, <1>a, <1>b, <1>c, <2>1, <2>2
         DEF RefundToken, ChargeToken, KeepToken, Lose, TypeOK
  <1>18. CASE PreSave(r)
    <2>0. /\ Held(sess[r], sess[r].effectiveQuota) \in Session
          /\ Loaded(sess[r], -1, 0) \in Session
      BY <1>a, <1>b, SetHeld, SetLoaded
    <2>1. sess' \in [Requests -> Session]
      BY <1>18, <2>0, SetSessType DEF PreSave, TypeOK
    <2>2. pc' \in [Requests -> PC]
      BY <1>18, GoToType DEF PreSave, TypeOK, PC
    <2>3. sess[r].copy + sess[r].effectiveQuota \in Nat
      BY <1>a, <1>b DEF Session
    <2>4. /\ used' \in [Subs -> Nat] /\ fundDebit' \in [Requests -> Int] /\ wallet' = wallet
          /\ record' \in [Requests -> {"none", "consumed", "refunded"}]
      BY <1>18, <1>b, <2>3 DEF PreSave, KeepFunds, TypeOK
    <2> QED
      BY <1>18, <1>c, <2>1, <2>2, <2>4 DEF PreSave, TypeOK
  <1>19. CASE SettleSave(r)
    <2>1. sess' \in [Requests -> Session]
      BY <1>19, <1>a, DropCopy, SetSessType DEF SettleSave, TypeOK
    <2>2. pc' \in [Requests -> PC]
      BY <1>19, GoToType DEF SettleSave, TypeOK, PC
    <2>3. /\ used' \in [Subs -> Nat] /\ fundDebit' \in [Requests -> Int] /\ wallet' = wallet
      BY <1>19, <1>d, <1>u DEF SettleSave, KeepFunds, TypeOK
    <2> QED
      BY <1>19, <1>c, <2>1, <2>2, <2>3 DEF SettleSave, TypeOK
  <1>20. CASE RefundSave(r)
    <2>1. sess' \in [Requests -> Session]
      BY <1>20, <1>a, <1>r, DropCopy, SetSessType DEF RefundSave, TypeOK
    <2>2. pc' \in [Requests -> PC]
      BY <1>20, <1>r, GoToType DEF RefundSave, TypeOK, PC
    <2>3. /\ used' \in [Subs -> Nat] /\ fundDebit' \in [Requests -> Int] /\ wallet' = wallet
          /\ lost' \in [Requests -> SUBSET {"token", "fund"}]
      BY <1>20, <1>d, <1>r, <1>u DEF RefundSave, KeepFunds, TypeOK
    <2> QED
      BY <1>20, <1>c, <2>1, <2>2, <2>3 DEF RefundSave, TypeOK
  <1> QED
    BY <1>1, <1>2, <1>3, <1>4, <1>5, <1>6, <1>7, <1>8, <1>9, <1>10, <1>11, <1>12, <1>13,
       <1>14, <1>15, <1>16, <1>17, <1>18, <1>19, <1>20 DEF Bill

\* So does the end of a failed upstream call ...
LEMMA FailType ==
    ASSUME TypeOK, NEW r \in Requests, UpstreamFails(r) PROVE TypeOK'
  <1>0. [sess[r] EXCEPT !.refunded = TRUE] \in Session
    BY SetMark DEF TypeOK
  <1>1. sess' \in [Requests -> Session]
    BY <1>0, SetSessType DEF UpstreamFails, TypeOK
  <1>2. pc' \in [Requests -> PC]
    BY GoToType DEF UpstreamFails, TypeOK, PC
  <1> QED
    BY <1>1, <1>2 DEF UpstreamFails, dbVars, TypeOK, FeePC

\* ... and the violation fee.
LEMMA FeeType ==
    ASSUME TypeOK, NEW r \in Requests, Fee(r) PROVE TypeOK'
  <1>1. ViolationFee \in Nat
    BY ConstantsAssumption
  <1>2. CASE FeeFund(r)
    <2>1. feeCopy' \in [Requests -> Nat]
      BY <1>2 DEF FeeFund, TypeOK
    <2> QED
      BY <1>1, <1>2, <2>1 DEF FeeFund, TypeOK, FeePC
  <1>3. CASE FeeSave(r)
    <2>1. ClampZero(feeCopy[r] + ViolationFee) \in Nat
      BY <1>1 DEF ClampZero, TypeOK
    <2>2. used' \in [Subs -> Nat] /\ UNCHANGED wallet
      BY <1>3, <2>1 DEF FeeSave, SaveSub, TypeOK
    <2>3. feeDebit' \in [Requests -> Nat] /\ feeCopy' \in [Requests -> Nat]
      BY <1>1, <1>3 DEF FeeSave, TypeOK
    <2> QED
      BY <1>3, <2>2, <2>3 DEF FeeSave, TypeOK, FeePC
  <1>4. CASE FeeToken(r)
    BY <1>1, <1>4 DEF FeeToken, TypeOK, FeePC
  <1> QED
    BY <1>2, <1>3, <1>4 DEF Fee

\* Every step keeps the types.
LEMMA NextType == TypeOK /\ [Next]_vars => TypeOK'
  <1> SUFFICES ASSUME TypeOK, [Next]_vars PROVE TypeOK'
    OBVIOUS
  <1>1. CASE UNCHANGED vars
    BY <1>1 DEF vars, TypeOK
  <1> QED
    BY <1>1, BillType, FailType, FeeType DEF Next, Terminated

\* Every variable of the billing life cycle keeps its type, whatever the number of
\* requests, the limits and the faults.
THEOREM TypeCorrect == Spec => []TypeOK
  BY InitType, NextType, PTL DEF Spec

-----------------------------------------------------------------------------
(* The account of one request *)

\* A step of r leaves everything another request has alone.
LEMMA OthersKept ==
    ASSUME TypeOK, NEW r \in Requests, NEW q \in Requests, q # r, Bill(r) \/ UpstreamFails(r)
    PROVE  /\ pc'[q] = pc[q] /\ req'[q] = req[q] /\ sess'[q] = sess[q]
           /\ fundDebit'[q] = fundDebit[q] /\ tokenDebit'[q] = tokenDebit[q]
           /\ lost'[q] = lost[q]
  <1> USE DEF TypeOK, GoTo, SetSess
  <1>1. CASE Arrive(r)
    BY <1>1 DEF Arrive
  <1>2. CASE TryTeam(r)
    BY <1>2 DEF TryTeam, dbVars
  <1>3. CASE TryWallet(r)
    BY <1>3 DEF TryWallet, dbVars
  <1>4. CASE TrySubscription(r)
    BY <1>4 DEF TrySubscription, dbVars
  <1>5. CASE ReadFails(r)
    BY <1>5 DEF ReadFails, dbVars
  <1>6. CASE PreToken(r)
    BY <1>6 DEF PreToken, dbVars
  <1>7. CASE DecToken(r)
    BY <1>7 DEF DecToken, ChargeToken, KeepToken
  <1>8. CASE PreFund(r)
    BY <1>8 DEF PreFund, PreWallet, PreSubscription, ChargeWallet, KeepFunds
  <1>9. CASE Rollback(r)
    BY <1>9 DEF Rollback, ChargeToken, KeepToken, Lose
  <1>10. CASE UpstreamAnswers(r)
    BY <1>10 DEF UpstreamAnswers, dbVars
  <1>11. CASE CountMember(r)
    BY <1>11 DEF CountMember
  <1>12. CASE SettleFund(r)
    BY <1>12 DEF SettleFund, ChargeWallet, LoadSub, KeepFunds
  <1>13. CASE SettleToken(r)
    BY <1>13 DEF SettleToken, ChargeToken, KeepToken, Lose
  <1>14. CASE RefundWallet(r)
    BY <1>14 DEF RefundWallet, ChargeWallet, KeepFunds, Lose
  <1>15. CASE RefundSub(r)
    BY <1>15 DEF RefundSub, LoadSub, KeepFunds, Retry, Lose
  <1>16. CASE RefundRecord(r)
    BY <1>16 DEF RefundRecord, Retry, Lose
  <1>17. CASE RefundToken(r)
    BY <1>17 DEF RefundToken, ChargeToken, KeepToken, Lose
  <1>18. CASE UpstreamFails(r)
    BY <1>18 DEF UpstreamFails
  <1>19. CASE PreSave(r)
    BY <1>19 DEF PreSave, KeepFunds
  <1>20. CASE SettleSave(r)
    BY <1>20 DEF SettleSave, ChargeSub, SaveSub, KeepFunds
  <1>21. CASE RefundSave(r)
    BY <1>21 DEF RefundSave, ChargeSub, SaveSub, KeepFunds, Retry, Lose
  <1> QED
    BY <1>1, <1>2, <1>3, <1>4, <1>5, <1>6, <1>7, <1>8, <1>9, <1>10, <1>11, <1>12, <1>13,
       <1>14, <1>15, <1>16, <1>17, <1>18, <1>19, <1>20, <1>21 DEF Bill

\* What a transaction that reads the row of r leaves of the session.
LEMMA LoadedFields ==
    ASSUME TypeOK, NEW r \in Requests, LoadSub(r)
    PROVE  /\ sess'[r].preConsumedQuota = sess[r].preConsumedQuota
           /\ sess'[r].tokenConsumed = sess[r].tokenConsumed
           /\ sess'[r].actual = sess[r].actual /\ sess'[r].attempt = sess[r].attempt
           /\ sess'[r].funding = sess[r].funding
           /\ sess'[r].settled = sess[r].settled /\ sess'[r].refunded = sess[r].refunded
           /\ UNCHANGED <<wallet, used, fundDebit>>
  <1>1. PICK x \in Subs : SetSess(r, Loaded(sess[r], x, used[x])) /\ KeepFunds
    BY DEF LoadSub
  <1>2. sess'[r] = Loaded(sess[r], x, used[x]) /\ sess[r] \in Session /\ used[x] \in Nat
    BY <1>1 DEF SetSess, TypeOK
  <1> QED
    BY <1>1, <1>2, SetLoaded DEF KeepFunds

\* What the save of a pre-consumption leaves of it,
LEMMA HeldFields ==
    ASSUME TypeOK, NEW r \in Requests, SetSess(r, Held(sess[r], sess[r].effectiveQuota))
    PROVE  /\ sess'[r].preConsumedQuota = sess[r].effectiveQuota
           /\ sess'[r].tokenConsumed = sess[r].tokenConsumed
           /\ sess'[r].settled = sess[r].settled /\ sess'[r].refunded = sess[r].refunded
  <1>1. sess'[r] = Held(sess[r], sess[r].effectiveQuota) /\ sess[r] \in Session
    BY Stored DEF TypeOK
  <1>2. sess[r].effectiveQuota \in Nat
    BY <1>1 DEF Session
  <1> QED
    BY <1>1, <1>2, SetHeld

\* and what the save of a settlement does.
LEMMA SettledFields ==
    ASSUME TypeOK, NEW r \in Requests, SettleSave(r)
    PROVE  /\ sess'[r].settled = sess[r].settled /\ sess'[r].refunded = sess[r].refunded
           /\ sess'[r].actual = sess[r].actual
           /\ sess'[r].preConsumedQuota = sess[r].preConsumedQuota
  <1>0. sess[r] \in Session
    BY DEF TypeOK
  <1>1. CASE sess'[r] = [sess[r] EXCEPT !.copy = 0]
    BY <1>0, <1>1 DEF Session
  <1>2. CASE sess'[r] = [sess[r] EXCEPT !.fundingSettled = TRUE, !.copy = 0]
    BY <1>0, <1>2 DEF Session
  <1> QED
    BY <1>1, <1>2, Stored DEF SettleSave, TypeOK

\* A step of r keeps its own account in order, as long as the save of the
\* pre-consume record does not fail.
LEMMA OwnAccount ==
    ASSUME TypeOK, "record" \notin Faults, NEW r \in Requests, Bill(r), Account(r)
    PROVE  Account(r)'
  <1>s. sess[r] \in Session /\ req[r] \in InputType
    BY DEF TypeOK
  <1>n. /\ sess[r].effectiveQuota \in Nat /\ sess[r].preConsumedQuota \in Nat
        /\ sess[r].tokenConsumed \in Nat /\ sess[r].actual \in Nat /\ req[r].quota \in Nat
    BY <1>s DEF Session, InputType
  <1> USE DEF TypeOK, GoTo, Account, TokenOwes
  <1>1. CASE Arrive(r)
    <2>1. PICK in \in Inputs :
            /\ req'[r] = in
            /\ \/ /\ SetSess(r, [sess[r] EXCEPT !.tokenQuota = IF in.playground THEN 0 ELSE token])
                  /\ GoTo(r, FirstAttempt(in))
               \/ UNCHANGED sess /\ GoTo(r, "rejected")
      BY <1>1 DEF Arrive
    <2>2. pc'[r] \in {"rejected", "wallet", "subscription", "team"}
      BY <2>1, ConstantsAssumption DEF FirstAttempt, InputType, Prefs
    <2>3. /\ pc[r] = "idle"
          /\ UNCHANGED <<fundDebit, tokenDebit, lost>>
      BY <1>1 DEF Arrive
    <2>4. /\ sess'[r].tokenConsumed = sess[r].tokenConsumed
          /\ sess'[r].settled = sess[r].settled /\ sess'[r].refunded = sess[r].refunded
      BY <1>s, <2>1 DEF SetSess, Session
    <2> QED
      BY <2>2, <2>3, <2>4
  <1>2. CASE TryTeam(r)
    <2>1. SubConsume(r) \in Nat /\ "team" \in Fundings
      BY <1>n DEF SubConsume, Fundings
    <2>2. /\ pc[r] = "team" /\ UNCHANGED <<req, fundDebit, tokenDebit, lost>>
          /\ pc'[r] \in {"preToken", "rejected"}
      BY <1>2 DEF TryTeam
    <2>3. /\ sess'[r].tokenConsumed = sess[r].tokenConsumed
          /\ sess'[r].settled = sess[r].settled /\ sess'[r].refunded = sess[r].refunded
      BY <1>2, <1>s, <2>1, SetFunding DEF TryTeam, SetSess
    <2> QED
      BY <2>2, <2>3
  <1>3. CASE TryWallet(r)
    <2>1. WalletConsume(r) \in Nat /\ "wallet" \in Fundings
      BY <1>n DEF WalletConsume, Fundings
    <2>2. /\ pc[r] = "wallet" /\ UNCHANGED <<req, fundDebit, tokenDebit, lost>>
          /\ pc'[r] \in {"preToken", "preFund", "subscription", "rejected"}
      BY <1>3 DEF TryWallet
    <2>3. /\ sess'[r].tokenConsumed = sess[r].tokenConsumed
          /\ sess'[r].settled = sess[r].settled /\ sess'[r].refunded = sess[r].refunded
      BY <1>3, <1>s, <2>1, SetFunding DEF TryWallet, SetSess
    <2>4. pc'[r] = "preFund" => sess'[r].effectiveQuota = 0
      BY <1>3, <1>s, <2>1, SetFunding DEF TryWallet, SetSess
    <2> QED
      BY <2>2, <2>3, <2>4
  <1>4. CASE TrySubscription(r)
    <2>1. SubConsume(r) \in Nat /\ "subscription" \in Fundings
      BY <1>n DEF SubConsume, Fundings
    <2>2. /\ pc[r] = "subscription" /\ UNCHANGED <<req, fundDebit, tokenDebit, lost>>
          /\ pc'[r] \in {"preToken"}
      BY <1>4 DEF TrySubscription
    <2>3. /\ sess'[r].tokenConsumed = sess[r].tokenConsumed
          /\ sess'[r].settled = sess[r].settled /\ sess'[r].refunded = sess[r].refunded
      BY <1>4, <1>s, <2>1, SetFunding DEF TrySubscription, SetSess
    <2> QED
      BY <2>2, <2>3
  <1>5. CASE ReadFails(r)
    BY <1>5 DEF ReadFails, dbVars, Session
  <1>6. CASE PreToken(r)
    <2>1. pc[r] = "preToken" /\ UNCHANGED <<req, fundDebit, tokenDebit, lost>>
      BY <1>6 DEF PreToken
    <2>2. CASE /\ req[r].playground /\ pc'[r] = "preFund"
               /\ SetSess(r, [sess[r] EXCEPT !.tokenConsumed = sess[r].effectiveQuota])
      <3>1. /\ sess'[r].tokenConsumed = sess[r].effectiveQuota
            /\ sess'[r].effectiveQuota = sess[r].effectiveQuota
            /\ sess'[r].settled = sess[r].settled /\ sess'[r].refunded = sess[r].refunded
        BY <1>s, <2>2 DEF SetSess, Session
      <3> QED
        BY <2>1, <2>2, <3>1
    <2>3. CASE /\ ~req[r].playground /\ pc'[r] \in {"decToken", "rejected"} /\ UNCHANGED sess
      BY <2>1, <2>3
    <2> QED
      BY <1>6, <2>2, <2>3 DEF PreToken
  <1>7. CASE DecToken(r)
    BY <1>7, <1>s, <1>n DEF DecToken, ChargeToken, KeepToken, SetSess, Session
  <1>8. CASE PreFund(r)
    <2>1. pc[r] = "preFund" /\ UNCHANGED <<req, tokenDebit, lost>>
      BY <1>8 DEF PreFund
    <2>2. CASE PreWallet(r)
      BY <1>s, <1>n, <2>1, <2>2 DEF PreWallet, ChargeWallet, KeepFunds, SetSess, Session
    <2>3. ASSUME NEW x \in Subs, SetSess(r, Loaded(sess[r], x, used[x])),
                 UNCHANGED fundDebit, pc'[r] = "preSave"
          PROVE  Account(r)'
      <3>1. sess'[r] = Loaded(sess[r], x, used[x]) /\ used[x] \in Nat
        BY <2>3 DEF SetSess
      <3>2. /\ sess'[r].effectiveQuota = sess[r].effectiveQuota
            /\ sess'[r].tokenConsumed = sess[r].tokenConsumed
            /\ sess'[r].settled = sess[r].settled /\ sess'[r].refunded = sess[r].refunded
        BY <1>s, <3>1, SetLoaded
      <3> QED
        BY <1>n, <2>1, <2>3, <3>2
    <2>4. CASE UNCHANGED <<sess, fundDebit>> /\ pc'[r] \in {"rollbackInsufficient", "rollbackError"}
      BY <2>1, <2>4
    <2>5. Fitting(r, sess[r].effectiveQuota) \subseteq Subs
      BY ConstantsAssumption DEF Fitting, Rows, PersonalSubs
    <2> QED
      <3>1. CASE PreSubscription(r)
        BY <2>3, <2>4, <2>5, <3>1 DEF PreSubscription, KeepFunds
      <3> QED
        BY <1>8, <2>2, <3>1 DEF PreFund
  <1>9. CASE Rollback(r)
    <2>1. /\ pc[r] \in {"rollbackInsufficient", "rollbackError"}
          /\ pc'[r] \in {"wallet", "rejected"}
          /\ UNCHANGED <<req, fundDebit>>
          /\ sess'[r] = [sess[r] EXCEPT !.tokenConsumed = 0]
      BY <1>9 DEF Rollback, SetSess
    <2>2. /\ sess'[r].tokenConsumed = 0
          /\ sess'[r].settled = sess[r].settled /\ sess'[r].refunded = sess[r].refunded
      BY <1>s, <2>1 DEF Session
    <2>3. TokenOwes(r, 0)' /\ ("fund" \in lost'[r] <=> "fund" \in lost[r])
      BY <1>9, <1>n, <2>1 DEF Rollback, ChargeToken, KeepToken, Lose
    <2> QED
      BY <2>1, <2>2, <2>3
  <1>10. CASE UpstreamAnswers(r)
    BY <1>10 DEF UpstreamAnswers, dbVars, SetSess, Session
  <1>11. CASE CountMember(r)
    BY <1>11 DEF CountMember, Delta, SetSess, Session
  <1>12. CASE SettleFund(r)
    <2>1. pc[r] = "settleFund" /\ UNCHANGED <<req, tokenDebit, lost>>
      BY <1>12 DEF SettleFund
    <2>2. CASE SetSess(r, [sess[r] EXCEPT !.fundingSettled = TRUE])
               /\ fundDebit'[r] = fundDebit[r] + Delta(r) /\ pc'[r] = "settleToken"
      <3>1. /\ sess'[r].settled = sess[r].settled /\ sess'[r].refunded = sess[r].refunded
            /\ sess'[r].actual = sess[r].actual
            /\ sess'[r].preConsumedQuota = sess[r].preConsumedQuota
        BY <1>s, <2>2 DEF SetSess, Session
      <3> QED
        BY <1>n, <2>1, <2>2, <3>1 DEF Delta
    <2>3. CASE UNCHANGED <<sess, fundDebit>> /\ pc'[r] = "done"
      BY <2>1, <2>3
    <2>4. CASE LoadSub(r) /\ pc'[r] = "settleSave"
      BY <2>1, <2>4, LoadedFields
    <2> QED
      BY <1>12, <2>2, <2>3, <2>4 DEF SettleFund, ChargeWallet, KeepFunds
  <1>13. CASE SettleToken(r)
    BY <1>13 DEF SettleToken, ChargeToken, KeepToken, Lose, Delta, SetSess, Session
  <1>14. CASE RefundWallet(r)
    BY <1>14 DEF RefundWallet, ChargeWallet, KeepFunds, Lose, Session
  <1>r. ASSUME Retry(r), UNCHANGED <<req, tokenDebit, fundDebit>>,
               pc[r] \in {"refundFund", "refundSave"}
        PROVE  Account(r)'
    <2>1. /\ sess'[r].settled = sess[r].settled /\ sess'[r].refunded = sess[r].refunded
          /\ sess'[r].tokenConsumed = sess[r].tokenConsumed
          /\ sess'[r].preConsumedQuota = sess[r].preConsumedQuota
      BY <1>s, <1>r DEF Retry, SetSess, Session
    <2>2. \/ pc'[r] = "refundFund" /\ lost'[r] = lost[r]
          \/ pc'[r] = "refundToken" /\ lost'[r] = lost[r] \cup {"fund"}
      BY <1>r DEF Retry, Lose
    <2> QED
      BY <1>r, <2>1, <2>2
  <1>15. CASE RefundSub(r)
    <2>1. pc[r] = "refundFund" /\ UNCHANGED <<req, tokenDebit>>
      BY <1>15 DEF RefundSub
    <2>2. CASE LoadSub(r) /\ pc'[r] = "refundSave" /\ UNCHANGED lost
      BY <2>1, <2>2, LoadedFields
    <2>3. CASE Retry(r) /\ UNCHANGED fundDebit
      BY <1>r, <2>1, <2>3
    <2> QED
      BY <1>15, <2>2, <2>3 DEF RefundSub, KeepFunds
  <1>16. CASE RefundRecord(r)
    BY <1>16 DEF RefundRecord, MayFail
  <1>17. CASE RefundToken(r)
    BY <1>17 DEF RefundToken, ChargeToken, KeepToken, Lose, Session
  <1>18. CASE PreSave(r)
    <2>1. pc[r] = "preSave" /\ UNCHANGED <<req, tokenDebit, lost>>
      BY <1>18 DEF PreSave
    <2>2. CASE /\ SetSess(r, Held(sess[r], sess[r].effectiveQuota)) /\ pc'[r] = "relay"
               /\ fundDebit'[r] = fundDebit[r] + sess[r].effectiveQuota
      <3>1. /\ sess'[r].preConsumedQuota = sess[r].effectiveQuota
            /\ sess'[r].tokenConsumed = sess[r].tokenConsumed
            /\ sess'[r].settled = sess[r].settled /\ sess'[r].refunded = sess[r].refunded
        BY <2>2, HeldFields
      <3> QED
        BY <1>n, <2>1, <2>2, <3>1
    <2>3. CASE /\ SetSess(r, Loaded(sess[r], -1, 0)) /\ pc'[r] = "rollbackError"
               /\ UNCHANGED fundDebit
      <3>1. sess'[r] = Loaded(sess[r], -1, 0)
        BY <2>3 DEF SetSess
      <3>2. /\ sess'[r].tokenConsumed = sess[r].tokenConsumed
            /\ sess'[r].settled = sess[r].settled /\ sess'[r].refunded = sess[r].refunded
        BY <1>s, <3>1 DEF Loaded, Session
      <3> QED
        BY <2>1, <2>3, <3>2
    <2> QED
      BY <1>18, <2>2, <2>3 DEF PreSave, KeepFunds
  <1>19. CASE SettleSave(r)
    <2>1. pc[r] = "settleSave" /\ UNCHANGED <<req, tokenDebit, lost>>
      BY <1>19 DEF SettleSave
    <2>2. /\ sess'[r].settled = sess[r].settled /\ sess'[r].refunded = sess[r].refunded
          /\ sess'[r].actual = sess[r].actual
          /\ sess'[r].preConsumedQuota = sess[r].preConsumedQuota
      BY <1>19, SettledFields
    <2>3. \/ fundDebit'[r] = fundDebit[r] + Delta(r) /\ pc'[r] = "settleToken"
          \/ UNCHANGED fundDebit /\ pc'[r] = "done"
      BY <1>19 DEF SettleSave, ChargeSub, KeepFunds
    <2> QED
      BY <1>n, <2>1, <2>2, <2>3 DEF Delta
  <1>20. CASE RefundSave(r)
    <2>1. pc[r] = "refundSave" /\ UNCHANGED <<req, tokenDebit>>
      BY <1>20 DEF RefundSave
    <2>2. CASE /\ fundDebit'[r] = fundDebit[r] + (-sess[r].preConsumedQuota)
               /\ SetSess(r, [sess[r] EXCEPT !.copy = 0])
               /\ pc'[r] = "refundRecord" /\ UNCHANGED lost
      <3>1. /\ sess'[r].settled = sess[r].settled /\ sess'[r].refunded = sess[r].refunded
            /\ sess'[r].tokenConsumed = sess[r].tokenConsumed
            /\ sess'[r].preConsumedQuota = sess[r].preConsumedQuota
        BY <1>s, <2>2 DEF SetSess, Session
      <3> QED
        BY <1>n, <2>1, <2>2, <3>1
    <2>3. CASE Retry(r) /\ UNCHANGED fundDebit
      BY <1>r, <2>1, <2>3
    <2> QED
      BY <1>20, <2>2, <2>3 DEF RefundSave, ChargeSub, KeepFunds
  <1> QED
    BY <1>1, <1>2, <1>3, <1>4, <1>5, <1>6, <1>7, <1>8, <1>9, <1>10, <1>11, <1>12, <1>13,
       <1>14, <1>15, <1>16, <1>17, <1>18, <1>19, <1>20 DEF Bill

\* The end of a failed upstream call keeps it in order too.
LEMMA FailAccount ==
    ASSUME TypeOK, NEW r \in Requests, UpstreamFails(r), Account(r)
    PROVE  Account(r)'
  <1>s. sess[r] \in Session
    BY DEF TypeOK
  <1>1. pc[r] = "relay" /\ UNCHANGED <<req, fundDebit, tokenDebit, lost>>
    BY DEF UpstreamFails
  <1>2. CASE /\ SetSess(r, [sess[r] EXCEPT !.refunded = TRUE])
             /\ pc'[r] = "refundFund"
    <2>1. /\ sess'[r].tokenConsumed = sess[r].tokenConsumed
          /\ sess'[r].preConsumedQuota = sess[r].preConsumedQuota
          /\ sess'[r].settled = sess[r].settled /\ sess'[r].refunded
      BY <1>s, <1>2 DEF SetSess, Session, TypeOK
    <2> QED
      BY <1>1, <1>2, <2>1 DEF Account, TokenOwes
  <1>3. CASE UNCHANGED sess /\ pc'[r] = "done"
    BY <1>1, <1>3 DEF Account, TokenOwes
  <1> QED
    BY <1>2, <1>3 DEF UpstreamFails, GoTo, TypeOK

\* Every account starts in order ...
LEMMA InitAccount == Init => AccountInv
  BY DEF Init, AccountInv, Account, TokenOwes, EmptySession, NoInput

\* ... and stays in order, whichever request takes the next step.
LEMMA NextAccount ==
    ASSUME "record" \notin Faults, TypeOK, AccountInv, [Next]_vars
    PROVE  AccountInv'
  <1>1. ASSUME NEW r \in Requests, Bill(r) \/ UpstreamFails(r), NEW q \in Requests
        PROVE  Account(q)'
    <2>1. CASE q = r
      BY <1>1, <2>1, OwnAccount, FailAccount DEF AccountInv
    <2>2. CASE q # r
      BY <1>1, <2>2, OthersKept DEF AccountInv, Account, TokenOwes
    <2> QED
      BY <2>1, <2>2
  <1>2. CASE UNCHANGED <<pc, req, sess, fundDebit, tokenDebit, lost>>
    BY <1>2 DEF AccountInv, Account, TokenOwes
  <1>3. ASSUME NEW r \in Requests, Fee(r)
        PROVE  UNCHANGED <<pc, req, sess, fundDebit, tokenDebit, lost>>
    BY <1>3 DEF Fee, FeeFund, FeeSave, FeeToken
  <1>4. Terminated \/ UNCHANGED vars =>
            UNCHANGED <<pc, req, sess, fundDebit, tokenDebit, lost>>
    BY DEF Terminated, vars
  <1> QED
    BY <1>1, <1>2, <1>3, <1>4 DEF Next, AccountInv

\* As long as saving a pre-consume record does not fail, the account of every
\* request is in order at every step, for any number of concurrent requests.
THEOREM AccountCorrect ==
    ASSUME "record" \notin Faults
    PROVE  Spec => []AccountInv
  BY InitAccount, InitType, NextType, NextAccount, PTL DEF Spec

\* Hence a settled request has cost exactly its actual quota, a rejected or
\* refunded one nothing, and a request whose settlement failed its estimate.
THEOREM FundingOutcomeHolds ==
    ASSUME "record" \notin Faults
    PROVE  Spec => []FundingOutcome
  <1>1. AccountInv => FundingOutcome
    BY DEF AccountInv, Account, FundingOutcome
  <1> QED
    BY <1>1, AccountCorrect, PTL

\* Token and funding source are debited alike, although in separate statements.
THEOREM TokenMirrorsFundingHolds ==
    ASSUME "record" \notin Faults
    PROVE  Spec => []TokenMirrorsFunding
  <1>1. AccountInv => TokenMirrorsFunding
    BY DEF AccountInv, Account, TokenOwes, TokenMirrorsFunding
  <1> QED
    BY <1>1, AccountCorrect, PTL

-----------------------------------------------------------------------------
(* Subscription rows *)

\* A row about to be saved by a pre-consumption was read with room for it.
CopyFits(r) ==
    pc[r] = "preSave" =>
        /\ sess[r].subId \in Subs
        /\ \/ SubTotal[sess[r].subId] = 0
           \/ sess[r].copy + sess[r].effectiveQuota <= SubTotal[sess[r].subId]

\* Only PreSubscription leads to that save.
LEMMA OwnCopy ==
    ASSUME TypeOK, NEW r \in Requests, Bill(r) \/ UpstreamFails(r) PROVE CopyFits(r)'
  <1>t. pc \in [Requests -> PC] /\ sess \in [Requests -> Session] /\ sess[r] \in Session
    BY DEF TypeOK
  <1>g. ASSUME NEW v, GoTo(r, v), v # "preSave" PROVE CopyFits(r)'
    BY <1>t, <1>g DEF GoTo, CopyFits
  <1>1. CASE Arrive(r)
    <2>1. \A in \in Inputs : FirstAttempt(in) # "preSave"
      BY ConstantsAssumption DEF FirstAttempt, InputType, Prefs
    <2> QED
      BY <1>1, <1>g, <2>1 DEF Arrive
  <1>2. CASE PreFund(r)
    <2>1. CASE PreWallet(r)
      BY <1>g, <2>1 DEF PreWallet
    <2>2. ASSUME NEW x \in Fitting(r, sess[r].effectiveQuota),
                 SetSess(r, Loaded(sess[r], x, used[x]))
          PROVE  CopyFits(r)'
      <3>1. x \in Subs /\ used[x] \in Nat /\ SubTotal[x] \in Nat
            /\ sess[r].effectiveQuota \in Nat
        BY <1>t, ConstantsAssumption DEF Fitting, Rows, PersonalSubs, TypeOK, Session
      <3>2. SubTotal[x] = 0 \/ used[x] + sess[r].effectiveQuota <= SubTotal[x]
        BY <3>1 DEF Fitting
      <3>3. sess'[r] = Loaded(sess[r], x, used[x])
        BY <1>t, <2>2 DEF SetSess
      <3>4. /\ sess'[r].subId = x /\ sess'[r].copy = used[x]
            /\ sess'[r].effectiveQuota = sess[r].effectiveQuota
        BY <1>t, <3>1, <3>3, SetLoaded
      <3> QED
        BY <3>1, <3>2, <3>4 DEF CopyFits
    <2> QED
      BY <1>2, <1>g, <2>1, <2>2 DEF PreFund, PreSubscription
  <1>3. CASE TryTeam(r) \/ TryWallet(r) \/ TrySubscription(r) \/ ReadFails(r)
    BY <1>3, <1>g DEF TryTeam, TryWallet, TrySubscription, ReadFails
  <1>4. CASE PreToken(r) \/ DecToken(r) \/ PreSave(r) \/ Rollback(r)
    BY <1>4, <1>g DEF PreToken, DecToken, PreSave, Rollback
  <1>5. CASE UpstreamAnswers(r) \/ UpstreamFails(r) \/ CountMember(r)
    BY <1>5, <1>g DEF UpstreamAnswers, UpstreamFails, CountMember
  <1>6. CASE SettleFund(r) \/ SettleSave(r) \/ SettleToken(r)
    BY <1>6, <1>g DEF SettleFund, SettleSave, SettleToken
  <1>7. CASE RefundWallet(r) \/ RefundSub(r) \/ RefundSave(r) \/ RefundRecord(r) \/ RefundToken(r)
    BY <1>7, <1>g DEF RefundWallet, RefundSub, RefundSave, RefundRecord, RefundToken, Retry
  <1> QED
    BY <1>1, <1>2, <1>3, <1>4, <1>5, <1>6, <1>7 DEF Bill

\* Whatever the interleaving and the faults, amount_used stays within a limited
\* row's amount_total, because every save was checked against the very copy it
\* writes back.
THEOREM SubWithinTotalHolds == Spec => []SubWithinTotal
  <1> DEFINE Copies == \A r \in Requests : CopyFits(r)
  <1>1. Init => SubWithinTotal /\ Copies
    BY ConstantsAssumption DEF Init, SubWithinTotal, CopyFits
  <1>2. ASSUME TypeOK, Copies, [Next]_vars PROVE Copies'
    <2>1. ASSUME NEW r \in Requests, Bill(r) \/ UpstreamFails(r), NEW q \in Requests
          PROVE  CopyFits(q)'
      <3>1. CASE q = r
        BY <1>2, <2>1, <3>1, OwnCopy
      <3>2. CASE q # r
        BY <1>2, <2>1, <3>2, OthersKept DEF CopyFits
      <3> QED
        BY <3>1, <3>2
    <2>2. CASE UNCHANGED <<pc, sess>>
      BY <1>2, <2>2 DEF CopyFits
    <2>3. ASSUME NEW r \in Requests, Fee(r) PROVE UNCHANGED <<pc, sess>>
      BY <2>3 DEF Fee, FeeFund, FeeSave, FeeToken
    <2> QED
      BY <1>2, <2>1, <2>2, <2>3 DEF Next, Terminated, vars
  <1>3. ASSUME TypeOK, Copies, SubWithinTotal, [Next]_vars PROVE SubWithinTotal'
    <2> USE ConstantsAssumption
    <2>1. CASE used' = used
      BY <2>1, <1>3 DEF SubWithinTotal
    <2>2. ASSUME NEW s, NEW n \in Nat, used' = [used EXCEPT ![s] = n],
                 s \in Subs => SubTotal[s] = 0 \/ n <= SubTotal[s]
          PROVE  SubWithinTotal'
      BY <1>3, <2>2 DEF SubWithinTotal, TypeOK
    <2>3. ASSUME NEW s, NEW copy \in Nat, NEW delta \in Int, SaveSub(s, copy, delta)
          PROVE  SubWithinTotal'
      <3>1. ClampZero(copy + delta) \in Nat
        BY DEF ClampZero
      <3>2. s \in Subs => SubTotal[s] = 0 \/ ClampZero(copy + delta) <= SubTotal[s]
        BY <2>3, <3>1 DEF SaveSub, SubRefuses
      <3> QED
        BY <2>2, <2>3, <3>1, <3>2 DEF SaveSub
    <2>4. ASSUME NEW r \in Requests, PreSave(r) PROVE SubWithinTotal'
      <3>1. sess[r].copy + sess[r].effectiveQuota \in Nat
        BY <1>3 DEF TypeOK, Session
      <3>2. CopyFits(r) /\ pc[r] = "preSave"
        BY <1>3, <2>4 DEF PreSave
      <3> QED
        BY <2>1, <2>2, <2>4, <3>1, <3>2 DEF PreSave, KeepFunds, CopyFits
    <2>5. ASSUME NEW r \in Requests, Fee(r) PROVE SubWithinTotal'
      <3>1. feeCopy[r] \in Nat /\ ViolationFee \in Int
        BY <1>3 DEF TypeOK
      <3> QED
        BY <2>1, <2>3, <2>5, <3>1 DEF Fee, FeeFund, FeeSave, FeeToken
    <2>6. ASSUME NEW r \in Requests, Bill(r) PROVE SubWithinTotal'
      <3>1. sess[r].preConsumedQuota \in Nat /\ sess[r].actual \in Nat /\ sess[r].copy \in Nat
        BY <1>3 DEF TypeOK, Session
      <3>2. Delta(r) \in Int /\ -sess[r].preConsumedQuota \in Int
        BY <3>1 DEF Delta
      <3>3. CASE SettleSave(r)
        BY <2>1, <2>3, <3>1, <3>2, <3>3 DEF SettleSave, ChargeSub, KeepFunds
      <3>4. CASE RefundSave(r)
        BY <2>1, <2>3, <3>1, <3>2, <3>4 DEF RefundSave, ChargeSub, KeepFunds
      <3> QED
        BY <2>1, <2>4, <2>6, <3>3, <3>4
           DEF Bill, Arrive, TryTeam, TryWallet, TrySubscription, ReadFails, PreToken,
               DecToken, PreFund, PreWallet, PreSubscription, Rollback, UpstreamAnswers,
               CountMember, SettleFund, SettleToken, RefundWallet, RefundSub, RefundRecord,
               RefundToken, ChargeWallet, LoadSub, KeepFunds, dbVars
    <2>7. ASSUME NEW r \in Requests, UpstreamFails(r) PROVE SubWithinTotal'
      BY <2>1, <2>7 DEF UpstreamFails, dbVars
    <2>8. CASE Terminated \/ UNCHANGED vars
      BY <2>1, <2>8 DEF Terminated, vars
    <2> QED
      BY <1>3, <2>5, <2>6, <2>7, <2>8 DEF Next
  <1> QED
    BY <1>1, <1>2, <1>3, TypeCorrect, PTL DEF Spec

-----------------------------------------------------------------------------
(* A session implements a reservation *)

\* What one step of r does to the reservation it stands for.
LEMMA ReservationStep ==
    ASSUME "record" \notin Faults, TypeOK, AccountInv, NEW r \in Requests,
           Bill(r) \/ UpstreamFails(r)
    PROVE  LET old == ReservationStatus(r)
               new == ReservationStatus(r)'
           IN  \/ new = old /\ fundDebit'[r] = fundDebit[r]
               \/ old = "idle" /\ new = "rejected" /\ fundDebit'[r] = fundDebit[r]
               \/ old = "idle" /\ new = "held" /\ fundDebit'[r] \in Nat
               \/ old = "held" /\ new = "captured" /\ fundDebit'[r] \in Actuals
               \/ old = "held" /\ new = "released" /\ fundDebit'[r] = 0
  <1> DEFINE Idle == {"idle", "wallet", "subscription", "team", "preToken", "decToken",
                      "preFund", "preSave", "rollbackInsufficient", "rollbackError"}
  <1>s. /\ sess[r] \in Session /\ sess[r].preConsumedQuota \in Nat
        /\ sess[r].effectiveQuota \in Nat /\ sess[r].actual \in Nat
    BY DEF TypeOK, Session
  <1>a. Account(r) /\ Account(r)'
    BY OwnAccount, FailAccount DEF AccountInv
  <1>1. CASE pc[r] \in Idle /\ pc'[r] \in Idle \cup {"rejected"} /\ UNCHANGED fundDebit
    BY <1>1 DEF ReservationStatus
  <1>2. CASE \/ Arrive(r) \/ TryTeam(r) \/ TryWallet(r) \/ TrySubscription(r) \/ ReadFails(r)
             \/ PreToken(r) \/ DecToken(r) \/ Rollback(r)
    <2>1. UNCHANGED fundDebit
      BY <1>2 DEF Arrive, TryTeam, TryWallet, TrySubscription, ReadFails, PreToken,
                  DecToken, Rollback
    <2>2. pc[r] \in Idle
      BY <1>2 DEF Arrive, TryTeam, TryWallet, TrySubscription, ReadFails, PreToken,
                  DecToken, Rollback
    <2>3. pc'[r] \in Idle \cup {"rejected"}
      <3>1. CASE Arrive(r)
        BY <3>1, ConstantsAssumption DEF Arrive, GoTo, FirstAttempt, InputType, Prefs, TypeOK
      <3> QED
        BY <1>2, <3>1 DEF TryTeam, TryWallet, TrySubscription, ReadFails, PreToken,
                  DecToken, Rollback, GoTo, TypeOK
    <2> QED
      BY <1>1, <2>1, <2>2, <2>3
  <1>3. CASE PreFund(r)
    <2>1. \/ /\ pc'[r] \in {"preSave", "rollbackInsufficient", "rollbackError"}
             /\ UNCHANGED fundDebit
          \/ pc'[r] = "relay" /\ fundDebit'[r] = fundDebit[r] + sess[r].effectiveQuota
      BY <1>3 DEF PreFund, PreWallet, PreSubscription, ChargeWallet, KeepFunds, GoTo, TypeOK
    <2>2. pc[r] = "preFund" /\ fundDebit[r] = 0
      BY <1>3, <1>a DEF PreFund, Account
    <2>3. CASE pc'[r] = "relay" /\ fundDebit'[r] = fundDebit[r] + sess[r].effectiveQuota
      BY <1>s, <2>2, <2>3 DEF ReservationStatus
    <2> QED
      BY <1>1, <2>1, <2>2, <2>3
  <1>4. CASE UpstreamAnswers(r)
    BY <1>4 DEF UpstreamAnswers, GoTo, ReservationStatus, TypeOK
  <1>5. CASE UpstreamFails(r)
    <2>1. /\ pc[r] = "relay" /\ pc'[r] \in {"refundFund", "done"} /\ UNCHANGED <<fundDebit, lost>>
          /\ pc'[r] = "done" => UNCHANGED sess
      BY <1>5 DEF UpstreamFails, GoTo, TypeOK
    <2> QED
      BY <1>a, <2>1 DEF ReservationStatus, Account
  <1>6. CASE CountMember(r)
    <2>1. /\ pc[r] = "count" /\ UNCHANGED <<fundDebit, lost>>
          /\ \/ pc'[r] = "settleFund"
             \/ pc'[r] = "done" /\ sess'[r].settled /\ Delta(r) = 0
      BY <1>6, <1>s DEF CountMember, GoTo, SetSess, Session, TypeOK
    <2>2. Delta(r) = 0 => sess[r].actual = sess[r].preConsumedQuota
      BY <1>s DEF Delta
    <2> QED
      BY <1>a, <2>1, <2>2 DEF ReservationStatus, Account
  <1>7. CASE SettleFund(r)
    <2>1. CASE LoadSub(r) /\ pc'[r] = "settleSave" /\ pc[r] = "settleFund"
      BY <2>1, LoadedFields DEF ReservationStatus
    <2>2. CASE pc[r] = "settleFund" /\ pc'[r] = "done" /\ UNCHANGED <<sess, fundDebit, lost>>
      BY <1>a, <2>2 DEF ReservationStatus, Account
    <2>3. CASE /\ pc[r] = "settleFund" /\ pc'[r] = "settleToken"
               /\ SetSess(r, [sess[r] EXCEPT !.fundingSettled = TRUE])
      <3>1. sess'[r].actual = sess[r].actual
        BY <1>s, <2>3 DEF SetSess, Session, TypeOK
      <3> QED
        BY <1>a, <2>3, <3>1 DEF ReservationStatus, Account
    <2> QED
      BY <1>7, <2>1, <2>2, <2>3 DEF SettleFund, GoTo, KeepFunds, TypeOK
  <1>8. CASE SettleToken(r)
    <2>1. /\ pc[r] = "settleToken" /\ pc'[r] = "done" /\ UNCHANGED fundDebit
          /\ sess'[r].settled
      BY <1>8, <1>s DEF SettleToken, GoTo, SetSess, Session, TypeOK
    <2> QED
      BY <2>1 DEF ReservationStatus
  <1>9. CASE RefundWallet(r) \/ RefundSub(r) \/ RefundSave(r)
    <2>1. /\ pc[r] \in {"refundFund", "refundSave"}
          /\ pc'[r] \in {"refundFund", "refundSave", "refundRecord", "refundToken"}
      BY <1>9 DEF RefundWallet, RefundSub, RefundSave, Retry, GoTo, TypeOK
    <2>2. sess'[r].preConsumedQuota = sess[r].preConsumedQuota
      <3>1. CASE LoadSub(r)
        BY <3>1, LoadedFields
      <3>2. CASE Retry(r)
        BY <1>s, <3>2 DEF Retry, SetSess, Session, TypeOK
      <3>3. CASE SetSess(r, [sess[r] EXCEPT !.copy = 0])
        BY <1>s, <3>3 DEF SetSess, Session, TypeOK
      <3> QED
        BY <1>9, <3>1, <3>2, <3>3 DEF RefundWallet, RefundSub, RefundSave
    <2> QED
      BY <1>a, <2>1, <2>2 DEF ReservationStatus, Account
  <1>10. CASE RefundRecord(r)
    <2>1. /\ pc[r] = "refundRecord" /\ pc'[r] = "refundToken"
          /\ UNCHANGED <<sess, lost, fundDebit>>
      BY <1>10 DEF RefundRecord, MayFail, GoTo, TypeOK
    <2> QED
      BY <1>a, <2>1 DEF ReservationStatus, Account
  <1>11. CASE RefundToken(r)
    <2>1. /\ pc[r] = "refundToken" /\ pc'[r] = "done"
          /\ UNCHANGED <<sess, fundDebit>>
      BY <1>11 DEF RefundToken, GoTo, TypeOK
    <2>2. "fund" \in lost'[r] <=> "fund" \in lost[r]
      BY <1>11 DEF RefundToken, Lose, TypeOK
    <2> QED
      BY <1>a, <2>1, <2>2 DEF ReservationStatus, Account
  <1>12. CASE PreSave(r)
    <2>1. \/ pc'[r] = "rollbackError" /\ UNCHANGED fundDebit
          \/ pc'[r] = "relay" /\ fundDebit'[r] = fundDebit[r] + sess[r].effectiveQuota
      BY <1>12 DEF PreSave, KeepFunds, GoTo, TypeOK
    <2>2. pc[r] = "preSave" /\ fundDebit[r] = 0
      BY <1>12, <1>a DEF PreSave, Account
    <2>3. CASE pc'[r] = "relay" /\ fundDebit'[r] = fundDebit[r] + sess[r].effectiveQuota
      BY <1>s, <2>2, <2>3 DEF ReservationStatus
    <2> QED
      BY <1>1, <2>1, <2>2, <2>3
  <1>13. CASE SettleSave(r)
    <2>1. /\ pc[r] = "settleSave" /\ UNCHANGED lost
          /\ \/ pc'[r] = "settleToken"
             \/ pc'[r] = "done" /\ UNCHANGED fundDebit
      BY <1>13 DEF SettleSave, GoTo, KeepFunds, TypeOK
    <2>2. /\ sess'[r].actual = sess[r].actual /\ sess'[r].settled = sess[r].settled
          /\ sess'[r].refunded = sess[r].refunded
      BY <1>13, SettledFields
    <2> QED
      BY <1>a, <2>1, <2>2 DEF ReservationStatus, Account
  <1> QED
    BY <1>2, <1>3, <1>4, <1>5, <1>6, <1>7, <1>8, <1>9, <1>10, <1>11, <1>12, <1>13
       DEF Bill

\* A session implements a reservation, for any number of concurrent requests:
\* its funding source is debited once, and then captured at the actual quota or
\* released in full, once and for good.
THEOREM ReservationImplemented ==
    ASSUME "record" \notin Faults
    PROVE  Spec => ImplementsReservation
  <1> DEFINE status == [r \in Requests |-> ReservationStatus(r)]
  <1>1. Init => Reserved!Init
    BY DEF Init, Reserved!Init, ReservationStatus
  <1>2. ASSUME TypeOK, AccountInv, [Next]_vars
        PROVE  [Reserved!Next]_(Reserved!vars)
    <2>1. ASSUME NEW r \in Requests, Bill(r) \/ UpstreamFails(r)
          PROVE  [Reserved!Next]_(Reserved!vars)
      <3>1. \A q \in Requests : q # r => ReservationStatus(q)' = ReservationStatus(q)
        BY <1>2, <2>1, OthersKept DEF ReservationStatus
      <3>2. status' = [status EXCEPT ![r] = ReservationStatus(r)']
        BY <3>1
      <3>3. fundDebit' \in [Requests -> Int] /\ fundDebit \in [Requests -> Int]
        BY <1>2, NextType DEF TypeOK
      <3>4. fundDebit' = [fundDebit EXCEPT ![r] = fundDebit'[r]]
        BY <1>2, <2>1, <3>3, OthersKept
      <3>5. status[r] = ReservationStatus(r)
        OBVIOUS
      <3> HIDE DEF status
      <3>6. CASE /\ ReservationStatus(r)' = ReservationStatus(r)
                 /\ fundDebit'[r] = fundDebit[r]
        <4>1. status' = status /\ fundDebit' = fundDebit
          BY <3>2, <3>3, <3>4, <3>5, <3>6 DEF status
        <4> QED
          BY <4>1 DEF Reserved!vars, status
      <3> QED
        BY <1>2, <2>1, <3>2, <3>3, <3>4, <3>5, <3>6, ReservationStep
           DEF status, Reserved!Next, Reserved!Reject, Reserved!Hold, Reserved!Capture,
               Reserved!Release, Reserved!Move
    <2>2. CASE UNCHANGED <<pc, sess, fundDebit, lost>>
      BY <2>2 DEF Reserved!vars, ReservationStatus
    <2>3. ASSUME NEW r \in Requests, Fee(r)
          PROVE  UNCHANGED <<pc, sess, fundDebit, lost>>
      BY <2>3 DEF Fee, FeeFund, FeeSave, FeeToken
    <2>4. Terminated \/ UNCHANGED vars => UNCHANGED <<pc, sess, fundDebit, lost>>
      BY DEF Terminated, vars
    <2> QED
      BY <1>2, <2>1, <2>2, <2>3, <2>4 DEF Next
  <1> QED
    BY <1>1, <1>2, TypeCorrect, AccountCorrect, PTL
       DEF Spec, ImplementsReservation, Reserved!Spec

-----------------------------------------------------------------------------
(* Where a request stands, whatever fails *)

\* What a step of billing does to the wallet: it leaves it and the debit of r
\* alone, it moves a quota between r and the wallet, or it works on a row.
FundsKept(r) ==
    /\ UNCHANGED <<wallet, fundDebit>>
    /\ \/ sess'[r].funding = sess[r].funding
       \/ pc[r] \in {"team", "wallet", "subscription"}

WalletMoved(r) ==
    /\ \E d \in Int : ChargeWallet(r, d)
    /\ sess[r].funding = "wallet"
    /\ sess'[r].funding = sess[r].funding

RowMoved(r) ==
    /\ UNCHANGED wallet
    /\ OnSubscription(r) /\ sess'[r].funding = sess[r].funding
    /\ pc[r] \notin {"team", "wallet", "subscription"}

LEMMA FundStep ==
    ASSUME TypeOK, NEW r \in Requests, Placed(r), Bill(r)
    PROVE  FundsKept(r) \/ WalletMoved(r) \/ RowMoved(r)
  <1>s. sess \in [Requests -> Session] /\ sess[r] \in Session
    BY DEF TypeOK
  <1>n. /\ sess[r].effectiveQuota \in Int
        /\ sess[r].actual - sess[r].preConsumedQuota \in Int
        /\ -sess[r].preConsumedQuota \in Int
    BY <1>s DEF Session
  <1>f. ASSUME NEW v, SetSess(r, v) PROVE sess'[r] = v
    BY <1>s, <1>f DEF SetSess
  <1>1. CASE Arrive(r)
    BY <1>1, <1>s, <1>f DEF Arrive, FundsKept, Session
  <1>2. CASE TryTeam(r)
    BY <1>2, <1>s, <1>f DEF TryTeam, Funded, FundsKept, dbVars, Session
  <1>3. CASE TryWallet(r)
    BY <1>3, <1>s, <1>f DEF TryWallet, Funded, FundsKept, dbVars, Session
  <1>4. CASE TrySubscription(r)
    BY <1>4, <1>s, <1>f DEF TrySubscription, Funded, FundsKept, dbVars, Session
  <1>5. CASE ReadFails(r)
    BY <1>5 DEF ReadFails, FundsKept, dbVars
  <1>6. CASE PreToken(r)
    BY <1>6, <1>s, <1>f DEF PreToken, FundsKept, dbVars, Session
  <1>7. CASE DecToken(r)
    BY <1>7, <1>s, <1>f DEF DecToken, FundsKept, Session
  <1>8. CASE PreFund(r)
    <2>1. CASE PreWallet(r)
      BY <1>s, <1>n, <1>f, <2>1 DEF PreWallet, KeepFunds, WalletMoved, FundsKept, Session
    <2>2. CASE PreSubscription(r)
      BY <1>s, <1>f, <2>2 DEF PreSubscription, Loaded, KeepFunds, FundsKept, Session
    <2> QED
      BY <1>8, <2>1, <2>2 DEF PreFund
  <1>9. CASE PreSave(r)
    BY <1>9, <1>s, <1>f DEF PreSave, Held, Loaded, KeepFunds, RowMoved, Placed, Session
  <1>10. CASE Rollback(r)
    BY <1>10, <1>s, <1>f DEF Rollback, FundsKept, Session
  <1>11. CASE UpstreamAnswers(r)
    BY <1>11, <1>s, <1>f DEF UpstreamAnswers, FundsKept, dbVars, Session
  <1>12. CASE CountMember(r)
    BY <1>12, <1>s, <1>f DEF CountMember, FundsKept, Session
  <1>13. CASE SettleFund(r)
    <2>1. CASE KeepFunds /\ UNCHANGED sess
      BY <2>1 DEF KeepFunds, FundsKept
    <2>2. CASE LoadSub(r)
      BY <2>2, LoadedFields DEF FundsKept
    <2>3. CASE /\ SetSess(r, [sess[r] EXCEPT !.fundingSettled = TRUE])
               /\ sess[r].funding = "wallet" /\ ChargeWallet(r, Delta(r))
      <3>1. sess'[r].funding = sess[r].funding
        BY <1>s, <1>f, <2>3 DEF Session
      <3> QED
        BY <1>n, <2>3, <3>1 DEF WalletMoved, Delta
    <2> QED
      BY <1>13, <2>1, <2>2, <2>3 DEF SettleFund
  <1>14. CASE SettleSave(r)
    BY <1>14, <1>s, <1>f DEF SettleSave, ChargeSub, SaveSub, KeepFunds, RowMoved, Placed, Session
  <1>15. CASE SettleToken(r)
    BY <1>15, <1>s, <1>f DEF SettleToken, FundsKept, Session
  <1>16. CASE RefundWallet(r)
    BY <1>16, <1>n DEF RefundWallet, KeepFunds, WalletMoved, FundsKept
  <1>17. CASE RefundSub(r)
    <2>1. CASE KeepFunds /\ Retry(r)
      BY <1>s, <1>f, <2>1 DEF KeepFunds, Retry, FundsKept, Session
    <2>2. CASE LoadSub(r)
      BY <2>2, LoadedFields DEF FundsKept
    <2> QED
      BY <1>17, <2>1, <2>2 DEF RefundSub
  <1>18. CASE RefundSave(r)
    BY <1>18, <1>s, <1>f
       DEF RefundSave, ChargeSub, SaveSub, Retry, KeepFunds, RowMoved, Placed, Session
  <1>19. CASE RefundRecord(r)
    BY <1>19, <1>s, <1>f DEF RefundRecord, Retry, FundsKept, Session
  <1>20. CASE RefundToken(r)
    BY <1>20 DEF RefundToken, FundsKept
  <1> QED
    BY <1>1, <1>2, <1>3, <1>4, <1>5, <1>6, <1>7, <1>8, <1>9, <1>10, <1>11, <1>12, <1>13,
       <1>14, <1>15, <1>16, <1>17, <1>18, <1>19, <1>20 DEF Bill

\* Where a step of billing takes a request: out of the labels before the relay
\* only by holding its estimate, and never back.
Before == {"idle", "wallet", "subscription", "team", "preToken", "decToken", "preFund",
           "preSave", "rollbackInsufficient", "rollbackError", "rejected"}

LEMMA BeforeStep ==
    ASSUME TypeOK, NEW r \in Requests, Bill(r)
    PROVE  \/ pc[r] \in Before /\ pc'[r] \in Before /\ UNCHANGED fundDebit
           \/ pc[r] \notin Before /\ pc'[r] \notin Before /\ pc'[r] # "relay"
           \/ pc[r] \in {"preFund", "preSave"} /\ pc'[r] \notin Before
  <1>s. pc \in [Requests -> PC]
    BY DEF TypeOK
  <1>g. ASSUME NEW v, GoTo(r, v) PROVE pc'[r] = v
    BY <1>s, <1>g DEF GoTo
  <1>1. CASE Arrive(r)
    <2>1. \A in \in Inputs : FirstAttempt(in) \in {"rejected", "wallet", "subscription", "team"}
      BY ConstantsAssumption DEF FirstAttempt, InputType, Prefs
    <2> QED
      BY <1>1, <1>g, <2>1 DEF Arrive, Before
  <1>2. CASE TryTeam(r) \/ TryWallet(r) \/ TrySubscription(r) \/ ReadFails(r)
    BY <1>2, <1>g DEF TryTeam, TryWallet, TrySubscription, ReadFails, Before
  <1>3. CASE PreToken(r) \/ DecToken(r)
    BY <1>3, <1>g DEF PreToken, DecToken, Before
  <1>4. CASE PreFund(r)
    BY <1>4, <1>g DEF PreFund, PreWallet, PreSubscription, KeepFunds, Before
  <1>5. CASE PreSave(r) \/ Rollback(r)
    BY <1>5, <1>g DEF PreSave, KeepFunds, Rollback, Before
  <1>6. CASE UpstreamAnswers(r) \/ CountMember(r)
    BY <1>6, <1>g DEF UpstreamAnswers, CountMember, Before
  <1>7. CASE SettleFund(r) \/ SettleSave(r) \/ SettleToken(r)
    BY <1>7, <1>g DEF SettleFund, SettleSave, SettleToken, Before
  <1>8. CASE RefundWallet(r) \/ RefundToken(r)
    BY <1>8, <1>g DEF RefundWallet, RefundToken, Before
  <1>9. CASE RefundSub(r) \/ RefundSave(r) \/ RefundRecord(r)
    BY <1>9, <1>g DEF RefundSub, RefundSave, RefundRecord, Retry, Before
  <1> QED
    BY <1>1, <1>2, <1>3, <1>4, <1>5, <1>6, <1>7, <1>8, <1>9 DEF Bill

\* A transaction is between its read and its save only on a subscription.
LEMMA SaveStep ==
    ASSUME TypeOK, NEW r \in Requests, Bill(r),
           pc'[r] \in {"preSave", "settleSave", "refundSave"}
    PROVE  OnSubscription(r) /\ pc[r] \in {"preFund", "settleFund", "refundFund"}
  <1>s. pc \in [Requests -> PC]
    BY DEF TypeOK
  <1>g. ASSUME NEW v, GoTo(r, v) PROVE pc'[r] = v
    BY <1>s, <1>g DEF GoTo
  <1>1. CASE Arrive(r)
    <2>1. \A in \in Inputs : FirstAttempt(in) \in {"rejected", "wallet", "subscription", "team"}
      BY ConstantsAssumption DEF FirstAttempt, InputType, Prefs
    <2> QED
      BY <1>1, <1>g, <2>1 DEF Arrive
  <1>2. CASE TryTeam(r) \/ TryWallet(r) \/ TrySubscription(r) \/ ReadFails(r)
    BY <1>2, <1>g DEF TryTeam, TryWallet, TrySubscription, ReadFails
  <1>3. CASE PreToken(r) \/ DecToken(r) \/ PreSave(r) \/ Rollback(r)
    BY <1>3, <1>g DEF PreToken, DecToken, PreSave, Rollback
  <1>4. CASE PreFund(r)
    BY <1>4, <1>g DEF PreFund, PreWallet, PreSubscription
  <1>5. CASE UpstreamAnswers(r) \/ CountMember(r)
    BY <1>5, <1>g DEF UpstreamAnswers, CountMember
  <1>6. CASE SettleFund(r) \/ SettleSave(r) \/ SettleToken(r)
    BY <1>6, <1>g DEF SettleFund, SettleSave, SettleToken
  <1>7. CASE RefundWallet(r) \/ RefundToken(r)
    BY <1>7, <1>g DEF RefundWallet, RefundToken
  <1>8. CASE RefundSub(r) \/ RefundSave(r) \/ RefundRecord(r)
    BY <1>8, <1>g DEF RefundSub, RefundSave, RefundRecord, Retry
  <1> QED
    BY <1>1, <1>2, <1>3, <1>4, <1>5, <1>6, <1>7, <1>8 DEF Bill

\* A step of r keeps r in its place,
LEMMA OwnPlaced ==
    ASSUME TypeOK, NEW r \in Requests, Placed(r), Bill(r)
    PROVE  Placed(r)'
  <1>1. UNCHANGED <<fee, feeDebit, feeToken>>
    BY DEF Bill, feeVars
  <1>2. \/ sess'[r].funding = sess[r].funding
        \/ pc[r] \in {"team", "wallet", "subscription"}
    BY FundStep DEF FundsKept, WalletMoved, RowMoved
  <1>3. pc'[r] \in {"preSave", "settleSave", "refundSave"} => OnSubscription(r)'
    BY <1>2, SaveStep DEF OnSubscription
  <1>4. fee'[r] = "save" => OnSubscription(r)'
    BY <1>1, <1>2 DEF Placed, OnSubscription
  <1>5. CASE pc[r] \in Before /\ pc'[r] \in Before /\ UNCHANGED fundDebit
    BY <1>1, <1>3, <1>4, <1>5 DEF Placed, Before
  <1>6. CASE pc[r] \notin Before /\ pc'[r] \notin Before /\ pc'[r] # "relay"
    BY <1>1, <1>3, <1>4, <1>6 DEF Placed, Before
  <1>7. CASE pc[r] \in {"preFund", "preSave"} /\ pc'[r] \notin Before
    BY <1>1, <1>3, <1>4, <1>7 DEF Placed, Before
  <1> QED
    BY <1>5, <1>6, <1>7, BeforeStep

\* so does the end of a failed upstream call,
LEMMA FailPlaced ==
    ASSUME TypeOK, NEW r \in Requests, Placed(r), UpstreamFails(r)
    PROVE  Placed(r)'
  <1>1. pc[r] = "relay" /\ pc'[r] \in {"refundFund", "done"}
    BY DEF UpstreamFails, GoTo, TypeOK
  <1>2. fee[r] = "none" /\ feeDebit[r] = 0 /\ feeToken[r] = 0
    BY <1>1 DEF Placed
  <1>3. UNCHANGED <<feeDebit, feeToken>> /\ (fee'[r] = fee[r] \/ fee'[r] = "fund")
    BY DEF UpstreamFails, TypeOK
  <1> QED
    BY <1>1, <1>2, <1>3 DEF Placed

\* and so does its fee.
LEMMA FeePlaced ==
    ASSUME TypeOK, NEW r \in Requests, Placed(r), Fee(r)
    PROVE  Placed(r)'
  <1>1. UNCHANGED <<pc, sess, fundDebit>> /\ fee[r] \in {"fund", "save", "token"}
    BY DEF Fee, FeeFund, FeeSave, FeeToken
  <1>2. CASE FeeFund(r)
    BY <1>1, <1>2 DEF FeeFund, Placed, OnSubscription, TypeOK
  <1>3. CASE FeeSave(r)
    BY <1>1, <1>3 DEF FeeSave, Placed, OnSubscription, TypeOK
  <1>4. CASE FeeToken(r)
    BY <1>1, <1>4 DEF FeeToken, Placed, OnSubscription, TypeOK
  <1> QED
    BY <1>2, <1>3, <1>4 DEF Fee

\* The fee of r leaves everything another request has alone.
LEMMA OthersKeptByFee ==
    ASSUME TypeOK, NEW r \in Requests, NEW q \in Requests, q # r, Fee(r) \/ UpstreamFails(r)
    PROVE  /\ fee'[q] = fee[q] /\ feeDebit'[q] = feeDebit[q] /\ feeToken'[q] = feeToken[q]
  BY DEF TypeOK, Fee, FeeFund, FeeSave, FeeToken, UpstreamFails

\* Every request is in its place initially and stays there.
LEMMA InitPlaced == Init => PlacedInv
  BY DEF Init, PlacedInv, Placed, OnSubscription, EmptySession

LEMMA NextPlaced ==
    ASSUME TypeOK, PlacedInv, [Next]_vars
    PROVE  PlacedInv'
  <1>1. ASSUME NEW r \in Requests, Bill(r) \/ UpstreamFails(r), NEW q \in Requests
        PROVE  Placed(q)'
    <2>1. CASE q = r
      BY <1>1, <2>1, OwnPlaced, FailPlaced DEF PlacedInv
    <2>2. CASE q # r
      <3>1. fee'[q] = fee[q] /\ feeDebit'[q] = feeDebit[q] /\ feeToken'[q] = feeToken[q]
        BY <1>1, <2>2, OthersKeptByFee DEF Bill, feeVars
      <3>2. pc'[q] = pc[q] /\ sess'[q] = sess[q] /\ fundDebit'[q] = fundDebit[q]
        BY <1>1, <2>2, OthersKept
      <3> QED
        BY <3>1, <3>2 DEF Placed, PlacedInv, OnSubscription
    <2> QED
      BY <2>1, <2>2
  <1>2. ASSUME NEW r \in Requests, Fee(r), NEW q \in Requests
        PROVE  Placed(q)'
    <2>1. CASE q = r
      BY <1>2, <2>1, FeePlaced DEF PlacedInv
    <2>2. CASE q # r
      <3>1. fee'[q] = fee[q] /\ feeDebit'[q] = feeDebit[q] /\ feeToken'[q] = feeToken[q]
        BY <1>2, <2>2, OthersKeptByFee
      <3>2. UNCHANGED <<pc, sess, fundDebit>>
        BY <1>2 DEF Fee, FeeFund, FeeSave, FeeToken
      <3> QED
        BY <3>1, <3>2 DEF Placed, PlacedInv, OnSubscription
    <2> QED
      BY <2>1, <2>2
  <1>3. CASE UNCHANGED vars
    BY <1>3 DEF vars, PlacedInv, Placed, OnSubscription
  <1> QED
    BY <1>1, <1>2, <1>3 DEF Next, Terminated, PlacedInv

-----------------------------------------------------------------------------
(* What the retries of a refund can give back *)

\* A step of r, with its debit and its count of attempts,
LEMMA OwnAttempts ==
    ASSUME TypeOK, NEW r \in Requests, Placed(r), Attempts(r), Bill(r)
    PROVE  Attempts(r)'
  <1>s. /\ sess \in [Requests -> Session] /\ sess[r] \in Session /\ pc \in [Requests -> PC]
        /\ fundDebit \in [Requests -> Int]
    BY DEF TypeOK
  <1>n. /\ sess[r].effectiveQuota \in Nat /\ sess[r].preConsumedQuota \in Nat
        /\ sess[r].actual \in Nat /\ fundDebit[r] \in Int
        /\ sess[r].attempt \in 0 .. 3
    BY <1>s DEF Session, RefundAttempts
  <1>f. ASSUME NEW v, SetSess(r, v) PROVE sess'[r] = v
    BY <1>s, <1>f DEF SetSess
  <1>g. ASSUME NEW v, GoTo(r, v) PROVE pc'[r] = v
    BY <1>s, <1>g DEF GoTo
  <1>b. ASSUME pc[r] \in Before, pc'[r] \in Before, sess'[r].attempt = sess[r].attempt
        PROVE  Attempts(r)'
    BY <1>b DEF Attempts, Before
  <1>h. ASSUME pc[r] \in Before, pc'[r] = "relay", fundDebit'[r] = fundDebit[r] + sess[r].effectiveQuota,
               sess'[r].attempt = sess[r].attempt, sess'[r].preConsumedQuota = sess[r].effectiveQuota
        PROVE  Attempts(r)'
    <2>1. fundDebit[r] = 0
      BY <1>h DEF Placed, Before
    <2> QED
      BY <1>h, <1>n, <2>1 DEF Attempts, Before
  <1>r. ASSUME Retry(r), fundDebit'[r] = fundDebit[r],
               pc[r] \in {"refundFund", "refundSave", "refundRecord"}
        PROVE  Attempts(r)'
    <2>1. /\ sess'[r].preConsumedQuota = sess[r].preConsumedQuota
          /\ sess'[r].attempt = sess[r].attempt + 1
      BY <1>f, <1>r, <1>s DEF Retry, Session
    <2>2. \/ pc'[r] = "refundFund" /\ sess[r].attempt + 1 < 3
          \/ pc'[r] = "refundToken" /\ sess[r].attempt + 1 = 3
      BY <1>g, <1>r DEF Retry, RefundAttempts
    <2>3. sess[r].attempt \in {0, 1, 2} /\ fundDebit[r] >= -(2 * sess[r].preConsumedQuota)
      BY <1>n, <1>r DEF Attempts
    <2>4. /\ sess[r].attempt = 0 => fundDebit[r] >= 0
          /\ sess[r].attempt = 1 => fundDebit[r] >= -sess[r].preConsumedQuota
      BY <1>n, <1>r DEF Attempts
    <2> QED
      BY <1>n, <1>r, <2>1, <2>2, <2>3, <2>4 DEF Attempts
  <1>l. ASSUME LoadSub(r), \/ pc[r] = "settleFund" /\ pc'[r] = "settleSave"
                           \/ pc[r] = "refundFund" /\ pc'[r] = "refundSave"
        PROVE  Attempts(r)'
    BY <1>l, LoadedFields DEF Attempts
  <1>1. CASE Arrive(r)
    <2>1. \A in \in Inputs : FirstAttempt(in) \in {"rejected", "wallet", "subscription", "team"}
      BY ConstantsAssumption DEF FirstAttempt, InputType, Prefs
    <2>2. pc[r] \in Before /\ pc'[r] \in Before
      BY <1>1, <1>g, <2>1 DEF Arrive, Before
    <2>3. sess'[r].attempt = sess[r].attempt
      BY <1>1, <1>f, <1>s DEF Arrive, Session
    <2> QED
      BY <1>b, <2>2, <2>3
  <1>2. CASE TryTeam(r) \/ TryWallet(r) \/ TrySubscription(r) \/ ReadFails(r)
    <2>1. pc[r] \in Before /\ pc'[r] \in Before
      BY <1>2, <1>g DEF TryTeam, TryWallet, TrySubscription, ReadFails, Before
    <2>2. sess'[r].attempt = sess[r].attempt
      BY <1>2, <1>f, <1>s DEF TryTeam, TryWallet, TrySubscription, ReadFails, Funded, Session
    <2> QED
      BY <1>b, <2>1, <2>2
  <1>3. CASE PreToken(r) \/ DecToken(r) \/ Rollback(r)
    <2>1. pc[r] \in Before /\ pc'[r] \in Before
      BY <1>3, <1>g DEF PreToken, DecToken, Rollback, Before
    <2>2. sess'[r].attempt = sess[r].attempt
      BY <1>3, <1>f, <1>s DEF PreToken, DecToken, Rollback, Session
    <2> QED
      BY <1>b, <2>1, <2>2
  <1>4. CASE PreFund(r)
    <2>1. pc[r] = "preFund"
      BY <1>4 DEF PreFund
    <2>2. CASE PreWallet(r)
      <3>1. sess'[r].attempt = sess[r].attempt
        BY <1>f, <1>s, <2>2 DEF PreWallet, Session
      <3>2. \/ pc'[r] = "rollbackError"
            \/ /\ pc'[r] = "relay" /\ fundDebit'[r] = fundDebit[r] + sess[r].effectiveQuota
               /\ sess'[r].preConsumedQuota = sess[r].effectiveQuota
        BY <1>f, <1>g, <1>s, <2>2 DEF PreWallet, ChargeWallet, Session
      <3> QED
        BY <1>b, <1>h, <2>1, <3>1, <3>2 DEF Before
    <2>3. CASE PreSubscription(r)
      <3>1. sess'[r].attempt = sess[r].attempt
        BY <1>f, <1>s, <2>3 DEF PreSubscription, Loaded, Session
      <3>2. pc'[r] \in {"preSave", "rollbackInsufficient", "rollbackError"}
        BY <1>g, <2>3 DEF PreSubscription
      <3> QED
        BY <1>b, <2>1, <3>1, <3>2 DEF Before
    <2> QED
      BY <1>4, <2>2, <2>3 DEF PreFund
  <1>5. CASE PreSave(r)
    <2>1. sess'[r].attempt = sess[r].attempt
      BY <1>5, <1>f, <1>s DEF PreSave, Held, Loaded, Session
    <2>2. \/ pc'[r] = "rollbackError"
          \/ /\ pc'[r] = "relay" /\ fundDebit'[r] = fundDebit[r] + sess[r].effectiveQuota
             /\ sess'[r].preConsumedQuota = sess[r].effectiveQuota
      BY <1>5, <1>f, <1>g, <1>s DEF PreSave, Held, Session
    <2>3. pc[r] = "preSave"
      BY <1>5 DEF PreSave
    <2> QED
      BY <1>b, <1>h, <2>1, <2>2, <2>3 DEF Before
  <1>6. CASE UpstreamAnswers(r) \/ CountMember(r)
    <2>1. /\ sess'[r].attempt = sess[r].attempt
          /\ sess'[r].preConsumedQuota = sess[r].preConsumedQuota
      BY <1>6, <1>f, <1>s DEF UpstreamAnswers, CountMember, Session
    <2>2. /\ pc[r] \in {"relay", "count"} /\ pc'[r] \in {"count", "done", "settleFund"}
          /\ UNCHANGED fundDebit
      BY <1>6, <1>g DEF UpstreamAnswers, CountMember
    <2> QED
      BY <1>n, <2>1, <2>2 DEF Attempts
  <1>7. CASE SettleFund(r) \/ SettleSave(r)
    <2>1. CASE LoadSub(r) /\ SettleFund(r)
      <3>1. pc'[r] = "settleSave" \/ UNCHANGED sess \/ sess[r].funding = "wallet"
        BY <1>g, <2>1 DEF SettleFund
      <3>2. pc[r] = "settleFund" /\ pc'[r] \in {"settleSave", "settleToken", "done"}
        BY <1>g, <2>1 DEF SettleFund
      <3>3. fundDebit'[r] = fundDebit[r] /\ sess'[r].actual = sess[r].actual
            /\ sess'[r].attempt = sess[r].attempt
            /\ sess'[r].preConsumedQuota = sess[r].preConsumedQuota
        BY <2>1, LoadedFields
      <3>4. pc'[r] = "settleToken" => fundDebit'[r] = fundDebit[r] + Delta(r)
        BY <1>g, <1>s, <2>1 DEF SettleFund, ChargeWallet
      <3> QED
        BY <1>n, <3>2, <3>3, <3>4 DEF Attempts, Delta
    <2>2. CASE ~LoadSub(r) \/ SettleSave(r)
      <3>1. /\ sess'[r].attempt = sess[r].attempt /\ sess'[r].actual = sess[r].actual
            /\ sess'[r].preConsumedQuota = sess[r].preConsumedQuota
        BY <1>7, <1>f, <1>s, <2>2 DEF SettleFund, SettleSave, Session
      <3>2. \/ pc'[r] = "settleToken" /\ fundDebit'[r] = fundDebit[r] + Delta(r)
            \/ pc'[r] = "done" /\ fundDebit'[r] = fundDebit[r]
        BY <1>7, <1>g, <1>s, <2>2
           DEF SettleFund, SettleSave, ChargeWallet, ChargeSub, KeepFunds
      <3>3. pc[r] \in {"settleFund", "settleSave"}
        BY <1>7 DEF SettleFund, SettleSave
      <3> QED
        BY <1>n, <3>1, <3>2, <3>3 DEF Attempts, Delta
    <2> QED
      BY <1>7, <2>1, <2>2
  <1>8. CASE SettleToken(r)
    <2>1. /\ sess'[r].attempt = sess[r].attempt
          /\ sess'[r].preConsumedQuota = sess[r].preConsumedQuota
      BY <1>8, <1>f, <1>s DEF SettleToken, Session
    <2>2. pc[r] = "settleToken" /\ pc'[r] = "done" /\ UNCHANGED fundDebit
      BY <1>8, <1>g DEF SettleToken
    <2> QED
      BY <1>n, <2>1, <2>2 DEF Attempts
  <1>9. CASE RefundWallet(r)
    <2>1. /\ UNCHANGED sess /\ pc[r] = "refundFund" /\ pc'[r] = "refundToken"
          /\ \/ fundDebit'[r] = fundDebit[r]
             \/ fundDebit'[r] = fundDebit[r] + (-sess[r].preConsumedQuota)
      BY <1>9, <1>g, <1>s DEF RefundWallet, ChargeWallet, KeepFunds
    <2> QED
      BY <1>n, <2>1 DEF Attempts
  <1>10. CASE RefundSub(r)
    BY <1>10, <1>g, <1>l, <1>r DEF RefundSub, KeepFunds
  <1>11. CASE RefundSave(r)
    <2>1. pc[r] = "refundSave"
      BY <1>11 DEF RefundSave
    <2>2. CASE /\ fundDebit'[r] = fundDebit[r] + (-sess[r].preConsumedQuota)
               /\ SetSess(r, [sess[r] EXCEPT !.copy = 0]) /\ pc'[r] = "refundRecord"
      <3>1. /\ sess'[r].attempt = sess[r].attempt
            /\ sess'[r].preConsumedQuota = sess[r].preConsumedQuota
        BY <1>f, <1>s, <2>2 DEF Session
      <3> QED
        BY <1>n, <2>1, <2>2, <3>1 DEF Attempts
    <2> QED
      BY <1>11, <1>g, <1>r, <1>s, <2>1, <2>2 DEF RefundSave, ChargeSub, KeepFunds
  <1>12. CASE RefundRecord(r)
    <2>1. CASE UNCHANGED sess /\ pc'[r] = "refundToken"
      <3>1. pc[r] = "refundRecord" /\ UNCHANGED fundDebit
        BY <1>12 DEF RefundRecord
      <3> QED
        BY <1>n, <2>1, <3>1 DEF Attempts
    <2> QED
      BY <1>12, <1>g, <1>r, <2>1 DEF RefundRecord
  <1>13. CASE RefundToken(r)
    <2>1. /\ pc[r] = "refundToken" /\ pc'[r] = "done" /\ UNCHANGED <<sess, fundDebit>>
      BY <1>13, <1>g DEF RefundToken
    <2> QED
      BY <2>1 DEF Attempts
  <1> QED
    BY <1>1, <1>2, <1>3, <1>4, <1>5, <1>6, <1>7, <1>8, <1>9, <1>10, <1>11, <1>12, <1>13
       DEF Bill

\* and the end of a failed upstream call.
LEMMA FailAttempts ==
    ASSUME TypeOK, NEW r \in Requests, Attempts(r), UpstreamFails(r)
    PROVE  Attempts(r)'
  <1>1. /\ sess'[r].attempt = sess[r].attempt
        /\ sess'[r].preConsumedQuota = sess[r].preConsumedQuota
        /\ sess[r].preConsumedQuota \in Nat
    BY DEF UpstreamFails, SetSess, TypeOK, Session
  <1>2. pc[r] = "relay" /\ pc'[r] \in {"refundFund", "done"} /\ UNCHANGED fundDebit
    BY DEF UpstreamFails, GoTo, TypeOK
  <1> QED
    BY <1>1, <1>2 DEF Attempts

LEMMA NextAttempts ==
    ASSUME TypeOK, PlacedInv, AttemptsInv, [Next]_vars
    PROVE  AttemptsInv'
  <1>1. ASSUME NEW r \in Requests, Bill(r) \/ UpstreamFails(r), NEW q \in Requests
        PROVE  Attempts(q)'
    <2>1. CASE q = r
      BY <1>1, <2>1, OwnAttempts, FailAttempts DEF AttemptsInv, PlacedInv
    <2>2. CASE q # r
      BY <1>1, <2>2, OthersKept DEF AttemptsInv, Attempts
    <2> QED
      BY <2>1, <2>2
  <1>2. CASE UNCHANGED <<pc, sess, fundDebit>>
    BY <1>2 DEF AttemptsInv, Attempts
  <1>3. ASSUME NEW r \in Requests, Fee(r)
        PROVE  UNCHANGED <<pc, sess, fundDebit>>
    BY <1>3 DEF Fee, FeeFund, FeeSave, FeeToken
  <1> QED
    BY <1>1, <1>2, <1>3 DEF Next, Terminated, vars, AttemptsInv

\* Whatever statements fail, the save of a pre-consume record included, the
\* retries of a refund give back at most RefundAttempts times what was taken:
\* the first attempt never more than that, the others never more than it each.
THEOREM RefundBoundedHolds == Spec => []RefundBounded
  <1>1. Init => AttemptsInv
    BY DEF Init, AttemptsInv, Attempts, EmptySession
  <1>2. ASSUME TypeOK, PlacedInv, AttemptsInv PROVE RefundBounded
    <2> SUFFICES ASSUME NEW r \in Requests
                 PROVE  /\ sess[r].attempt = 0 => fundDebit[r] >= 0
                        /\ fundDebit[r] >= -(RefundAttempts - 1) * sess[r].preConsumedQuota
      BY DEF RefundBounded
    <2>1. /\ sess[r].preConsumedQuota \in Nat /\ sess[r].actual \in Nat /\ pc[r] \in PC
          /\ fundDebit[r] \in Int /\ Placed(r) /\ Attempts(r)
      BY <1>2 DEF TypeOK, Session, PlacedInv, AttemptsInv
    <2>2. /\ sess[r].attempt = 0 => fundDebit[r] >= 0
          /\ fundDebit[r] >= -(2 * sess[r].preConsumedQuota)
      BY <2>1 DEF Placed, Attempts, PC
    <2>3. -(RefundAttempts - 1) * sess[r].preConsumedQuota = -(2 * sess[r].preConsumedQuota)
      BY <2>1 DEF RefundAttempts
    <2> QED
      BY <2>2, <2>3
  <1> QED
    BY <1>1, <1>2, InitPlaced, NextPlaced, NextAttempts, TypeCorrect, PTL DEF Spec

-----------------------------------------------------------------------------
(* The rows every request shares *)

\* What a step of billing does to the token row.
LEMMA TokenStep ==
    ASSUME TypeOK, NEW r \in Requests, Bill(r)
    PROVE  KeepToken \/ \E d \in Int : ChargeToken(r, d)
  <1>n. /\ sess[r].effectiveQuota \in Int /\ -sess[r].tokenConsumed \in Int
        /\ Delta(r) \in Int
    BY DEF TypeOK, Session, Delta
  <1> QED
    BY <1>n DEF Bill, Arrive, TryTeam, TryWallet, TrySubscription, ReadFails, PreToken, DecToken,
           PreFund, PreSave, Rollback, UpstreamAnswers, CountMember, SettleFund, SettleSave,
           SettleToken, RefundWallet, RefundSub, RefundSave, RefundRecord, RefundToken,
           dbVars, KeepToken

\* When r alone takes or gives back, and both rows change by just that, they
\* are still the sums.
LEMMA LedgerStep ==
    ASSUME TypeOK, TypeOK', RowsConserved, NEW r \in Requests,
           SameOn(FromToken, FromToken', Requests \ {r}),
           SameOn(FromWallet, FromWallet', Requests \ {r}),
           token' = token - (FromToken'[r] - FromToken[r]),
           wallet' = wallet - (FromWallet'[r] - FromWallet[r])
    PROVE  RowsConserved'
  <1>0. IsFiniteSet(Requests) /\ InitToken \in Int /\ InitWallet \in Int
    BY ConstantsAssumption
  <1>1. /\ IntegerOn(FromToken, Requests) /\ IntegerOn(FromWallet, Requests)
        /\ IntegerOn(FromToken', Requests) /\ IntegerOn(FromWallet', Requests)
    BY DEF TypeOK, IntegerOn, FromToken, FromWallet
  <1>2. SumFunctionOnSet(FromToken', Requests)
            = SumFunctionOnSet(FromToken, Requests) + (FromToken'[r] - FromToken[r])
    BY <1>0, <1>1, SumChange
  <1>3. SumFunctionOnSet(FromWallet', Requests)
            = SumFunctionOnSet(FromWallet, Requests) + (FromWallet'[r] - FromWallet[r])
    BY <1>0, <1>1, SumChange
  <1>4. /\ SumFunctionOnSet(FromToken, Requests) \in Int
        /\ SumFunctionOnSet(FromWallet, Requests) \in Int
    BY <1>0, <1>1, SumType
  <1>5. /\ FromToken[r] \in Int /\ FromToken'[r] \in Int
        /\ FromWallet[r] \in Int /\ FromWallet'[r] \in Int
    BY <1>1 DEF IntegerOn
  <1>6. token' = InitToken - SumFunctionOnSet(FromToken', Requests)
    BY <1>0, <1>2, <1>4, <1>5 DEF RowsConserved
  <1>7. wallet' = InitWallet - SumFunctionOnSet(FromWallet', Requests)
    BY <1>0, <1>3, <1>4, <1>5 DEF RowsConserved
  <1> QED
    BY <1>6, <1>7 DEF RowsConserved

\* The terms of the sums that do not belong to r stay as they are.
LEMMA OthersTaken ==
    ASSUME TypeOK, NEW r \in Requests,
           \A q \in Requests \ {r} :
                /\ sess'[q] = sess[q] /\ fundDebit'[q] = fundDebit[q]
                /\ tokenDebit'[q] = tokenDebit[q]
                /\ feeDebit'[q] = feeDebit[q] /\ feeToken'[q] = feeToken[q]
    PROVE  /\ SameOn(FromToken, FromToken', Requests \ {r})
           /\ SameOn(FromWallet, FromWallet', Requests \ {r})
  BY DEF SameOn, FromToken, FromWallet, OnSubscription

\* Billing takes from the two rows what it writes to the account of r,
LEMMA BillConserves ==
    ASSUME TypeOK, TypeOK', PlacedInv, RowsConserved, NEW r \in Requests, Bill(r)
    PROVE  RowsConserved'
  <1>t. /\ fundDebit \in [Requests -> Int] /\ feeDebit \in [Requests -> Nat]
        /\ tokenDebit \in [Requests -> Int] /\ feeToken \in [Requests -> Nat]
        /\ token \in Int /\ wallet \in Int
    BY DEF TypeOK
  <1>a. Placed(r)
    BY DEF PlacedInv
  <1>b. UNCHANGED <<feeDebit, feeToken>>
    BY DEF Bill, feeVars
  <1>1. /\ SameOn(FromToken, FromToken', Requests \ {r})
        /\ SameOn(FromWallet, FromWallet', Requests \ {r})
    <2>1. \A q \in Requests \ {r} :
                /\ sess'[q] = sess[q] /\ fundDebit'[q] = fundDebit[q]
                /\ tokenDebit'[q] = tokenDebit[q]
                /\ feeDebit'[q] = feeDebit[q] /\ feeToken'[q] = feeToken[q]
      BY <1>b, OthersKept
    <2> QED
      BY <2>1, OthersTaken
  <1>2. token' = token - (FromToken'[r] - FromToken[r])
    <2>1. CASE KeepToken
      BY <1>t, <1>b, <2>1 DEF KeepToken, FromToken
    <2>2. ASSUME NEW d \in Int, ChargeToken(r, d) PROVE token' = token - (FromToken'[r] - FromToken[r])
      BY <1>t, <1>b, <2>2 DEF ChargeToken, FromToken
    <2> QED
      BY <2>1, <2>2, TokenStep
  <1>3. wallet' = wallet - (FromWallet'[r] - FromWallet[r])
    <2>1. CASE FundsKept(r)
      <3>1. FromWallet'[r] = FromWallet[r]
        <4>1. CASE sess'[r].funding = sess[r].funding
          BY <1>b, <2>1, <4>1 DEF FundsKept, FromWallet, OnSubscription
        <4>2. CASE pc[r] \in {"team", "wallet", "subscription"}
          <5>1. fundDebit[r] = 0 /\ feeDebit[r] = 0
            BY <1>a, <4>2 DEF Placed
          <5> QED
            BY <1>b, <2>1, <5>1 DEF FundsKept, FromWallet
        <4> QED
          BY <2>1, <4>1, <4>2 DEF FundsKept
      <3>2. FromWallet[r] \in Int
        BY <1>t DEF FromWallet
      <3> QED
        BY <1>t, <2>1, <3>1, <3>2 DEF FundsKept
    <2>2. CASE WalletMoved(r)
      <3>1. PICK d \in Int : ChargeWallet(r, d)
        BY <2>2 DEF WalletMoved
      <3>2. FromWallet'[r] = FromWallet[r] + d /\ FromWallet[r] \in Int
        BY <1>t, <1>b, <2>2, <3>1 DEF WalletMoved, ChargeWallet, FromWallet, OnSubscription
      <3> QED
        BY <1>t, <3>1, <3>2 DEF ChargeWallet
    <2>3. CASE RowMoved(r)
      <3>1. FromWallet'[r] = 0 /\ FromWallet[r] = 0
        BY <2>3 DEF RowMoved, FromWallet, OnSubscription
      <3> QED
        BY <1>t, <2>3, <3>1 DEF RowMoved
    <2> QED
      BY <1>a, <2>1, <2>2, <2>3, FundStep
  <1> QED
    BY <1>1, <1>2, <1>3, LedgerStep

\* the end of a failed upstream call takes nothing,
LEMMA FailConserves ==
    ASSUME TypeOK, TypeOK', RowsConserved, NEW r \in Requests, UpstreamFails(r)
    PROVE  RowsConserved'
  <1>1. UNCHANGED <<token, wallet, fundDebit, tokenDebit, feeDebit, feeToken>>
    BY DEF UpstreamFails, dbVars
  <1>2. ASSUME NEW q \in Requests PROVE sess'[q].funding = sess[q].funding
    <2>1. CASE q # r
      BY <2>1, OthersKept
    <2>2. CASE q = r
      BY <2>2 DEF UpstreamFails, SetSess, TypeOK, Session
    <2> QED
      BY <2>1, <2>2
  <1>3. FromToken' = FromToken /\ FromWallet' = FromWallet
    BY <1>1, <1>2 DEF FromToken, FromWallet, OnSubscription
  <1> QED
    BY <1>1, <1>3 DEF RowsConserved

\* and the fee takes what it writes to its own account.
LEMMA FeeConserves ==
    ASSUME TypeOK, TypeOK', PlacedInv, RowsConserved, NEW r \in Requests, Fee(r)
    PROVE  RowsConserved'
  <1>t. /\ fundDebit \in [Requests -> Int] /\ feeDebit \in [Requests -> Nat]
        /\ tokenDebit \in [Requests -> Int] /\ feeToken \in [Requests -> Nat]
        /\ token \in Int /\ wallet \in Int /\ ViolationFee \in Nat
    BY ConstantsAssumption DEF TypeOK
  <1>a. Placed(r)
    BY DEF PlacedInv
  <1>b. UNCHANGED <<pc, sess, fundDebit, tokenDebit>>
    BY DEF Fee, FeeFund, FeeSave, FeeToken
  <1>1. /\ SameOn(FromToken, FromToken', Requests \ {r})
        /\ SameOn(FromWallet, FromWallet', Requests \ {r})
    BY <1>b, OthersKeptByFee, OthersTaken
  <1>i. FromWallet[r] \in Int /\ FromToken[r] \in Int
    BY <1>t DEF FromWallet, FromToken
  <1>k. ASSUME UNCHANGED <<wallet, feeDebit>>
        PROVE  wallet' = wallet - (FromWallet'[r] - FromWallet[r])
    <2>1. FromWallet'[r] = FromWallet[r]
      BY <1>b, <1>k DEF FromWallet, OnSubscription
    <2> QED
      BY <1>t, <1>i, <1>k, <2>1
  <1>l. ASSUME UNCHANGED <<token, feeToken>>
        PROVE  token' = token - (FromToken'[r] - FromToken[r])
    <2>1. FromToken'[r] = FromToken[r]
      BY <1>b, <1>l DEF FromToken
    <2> QED
      BY <1>t, <1>i, <1>l, <2>1
  <1>2. CASE FeeToken(r)
    <2>1. UNCHANGED <<wallet, feeDebit>> /\ feeToken[r] = 0
      BY <1>2, <1>a DEF FeeToken, Placed
    <2>2. token' = token - (FromToken'[r] - FromToken[r])
      BY <1>2, <1>t, <1>b, <2>1 DEF FeeToken, FromToken
    <2> QED
      BY <1>1, <1>k, <2>1, <2>2, LedgerStep
  <1>3. CASE FeeFund(r)
    <2>1. UNCHANGED <<token, feeToken>> /\ feeDebit[r] = 0
      BY <1>3, <1>a DEF FeeFund, Placed
    <2>2. CASE UNCHANGED <<wallet, feeDebit>>
      BY <1>1, <1>k, <1>l, <2>1, <2>2, LedgerStep
    <2>3. CASE /\ sess[r].funding = "wallet" /\ wallet' = wallet - ViolationFee
               /\ feeDebit' = [feeDebit EXCEPT ![r] = ViolationFee]
      <3>1. /\ FromWallet[r] = fundDebit[r] /\ FromWallet'[r] = fundDebit[r] + ViolationFee
        BY <1>t, <1>b, <2>1, <2>3 DEF FromWallet, OnSubscription
      <3>2. wallet' = wallet - (FromWallet'[r] - FromWallet[r])
        BY <1>t, <2>3, <3>1
      <3> QED
        BY <1>1, <1>l, <2>1, <3>2, LedgerStep
    <2> QED
      BY <1>3, <2>2, <2>3 DEF FeeFund
  <1>4. CASE FeeSave(r)
    <2>1. UNCHANGED <<token, feeToken, wallet>> /\ OnSubscription(r)
      BY <1>4, <1>a DEF FeeSave, SaveSub, Placed
    <2>2. FromWallet'[r] = 0 /\ FromWallet[r] = 0
      BY <1>b, <2>1 DEF FromWallet, OnSubscription
    <2>3. wallet' = wallet - (FromWallet'[r] - FromWallet[r])
      BY <1>t, <2>1, <2>2
    <2> QED
      BY <1>1, <1>l, <2>1, <2>3, LedgerStep
  <1> QED
    BY <1>2, <1>3, <1>4 DEF Fee

\* Nothing is lost or made in the rows every request shares, for any number of
\* concurrent requests and whatever statements fail: the token and the wallet
\* are always exactly what the requests, their refunds and their fees have taken.
THEOREM RowsConservedHolds == Spec => []RowsConserved
  <1>1. Init => RowsConserved
    <2> SUFFICES ASSUME Init PROVE RowsConserved
      OBVIOUS
    <2>1. \A r \in Requests : FromToken[r] = 0 /\ FromWallet[r] = 0
      BY DEF Init, FromToken, FromWallet
    <2>2. /\ SumFunctionOnSet(FromToken, Requests) = 0
          /\ SumFunctionOnSet(FromWallet, Requests) = 0
      BY <2>1, SumZeros, ConstantsAssumption
    <2> QED
      BY <2>2, ConstantsAssumption DEF Init, RowsConserved
  <1>2. ASSUME TypeOK, PlacedInv, RowsConserved, [Next]_vars
        PROVE  RowsConserved'
    <2>1. TypeOK'
      BY <1>2, NextType
    <2>2. CASE UNCHANGED vars
      <3>1. FromToken' = FromToken /\ FromWallet' = FromWallet
        BY <2>2 DEF vars, FromToken, FromWallet, OnSubscription
      <3> QED
        BY <1>2, <2>2, <3>1 DEF RowsConserved, vars
    <2> QED
      BY <1>2, <2>1, <2>2, BillConserves, FailConserves, FeeConserves DEF Next, Terminated
  <1> QED
    BY <1>1, <1>2, InitPlaced, NextPlaced, TypeCorrect, PTL DEF Spec
=============================================================================

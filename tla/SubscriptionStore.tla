-------------------------- MODULE SubscriptionStore --------------------------
(***************************************************************************)
(* The table user_subscriptions under concurrent transactions:             *)
(* model/subscription.go, model/team_subscription.go and the maintenance   *)
(* task service/subscription_reset_task.go.                                *)
(*                                                                         *)
(* A transaction reads whole rows, computes, and saves whole rows, status  *)
(* and end_time included.  It asks for FOR UPDATE with the setting         *)
(* gorm:query_option of GORM 1, which the GORM 2 of go.mod ignores, so     *)
(* that between its read and its save other transactions may commit.       *)
(***************************************************************************)
EXTENDS Integers, FiniteSets

CONSTANTS
    Requests,        \* relay requests billed to the subscriptions of one owner
    Masters,         \* processes that run the maintenance task
    Rows,            \* ids of the owner's rows, in end_time order
    Total,           \* amount_total of each row; 0 means unlimited
    EndTime,         \* end_time of each row at the start
    Periods,         \* reset periods the plan may have; 0 means never
    Amounts,         \* estimates a request may pre-consume
    Costs,           \* quotas a request may be corrected to; 0 is a refund
    Batch,           \* subscriptionResetBatchSize
    MaxCorrections,  \* bound on the corrections of one request
    MaxTime          \* bound on the clock

ASSUME StoreAssumption ==
    /\ Requests \cap Masters = {}
    /\ Rows \subseteq Nat
    /\ Total \in [Rows -> Nat]
    /\ EndTime \in [Rows -> Nat]
    /\ \A s, t \in Rows : s < t => EndTime[s] <= EndTime[t]
    /\ Periods \subseteq Nat
    /\ Amounts \subseteq Nat \ {0}
    /\ Costs \subseteq Nat
    /\ Batch \in Nat \ {0}
    /\ MaxCorrections \in Nat /\ MaxTime \in Nat

VARIABLES
    row,      \* row[s]: the columns of s that the operations use
    period,   \* the reset period of the plan of the rows
    now,      \* the database's clock
    pc,       \* pc[a]: where the request or master a stands
    copy,     \* copy[a]: the rows that the open transaction of a has read
    since,    \* since[a]: the timestamp a works with
    plan,     \* plan[a]: the reset period a works with
    due,      \* due[m]: rows of the batch that the master m has still to reset
    count,    \* count[m]: resetCount of the batch
    amount,   \* amount[q]: what q has to its knowledge taken from sub[q]
    sub,      \* sub[q]: the row q is billed to
    target,   \* target[q]: the amount that the open correction of q leads to
    left      \* left[q]: corrections q may still make

rowVars == <<row, period, now>>
masterVars == <<due, count>>
requestVars == <<amount, sub, target, left>>
vars == <<row, period, now, pc, copy, since, plan, due, count,
          amount, sub, target, left>>

Actors == Requests \cup Masters

\* Where a request may stand, and where a master.
Labels == {"idle", "preWrite", "held", "deltaWrite", "done",
           "expire", "expireWrite", "list", "reset", "resetWrite"}

Statuses == {"active", "expired", "cancelled", "deleted"}

Row == [status : Statuses, used : Nat, last : Nat, next : Nat, end : Nat]

NoRow == -1

\* A row that is not in the table.
Gone == [status |-> "deleted", used |-> 0, last |-> 0, next |-> 0, end |-> 0]

\* No transaction is open.
NoCopy == [s \in {} |-> s]

-----------------------------------------------------------------------------
(* Reset periods.  last is last_reset_time or, before the first, start_time. *)

\* Mutant: the end of the subscription is forgotten.
CalcNextUnbounded(base, p, end) == IF p = 0 THEN 0 ELSE base + p

\* calcNextResetTime, periods of p units of time standing for the calendar's.
CalcNext(base, p, end) == IF p = 0 \/ base + p > end THEN 0 ELSE base + p

Earlier(t, u) == IF t <= u THEN t ELSE u

\* The last beginning of a period after base that is neither after t nor after
\* the end: where the loop over calcNextResetTime stops.
LastReset(base, p, t, end) == base + p * ((Earlier(t, end) - base) \div p)

\* maybeResetUserSubscriptionWithPlanTx: the row r at time t, with plan period p.
ResetRow(r, t, p) ==
    LET first == CalcNext(r.last, p, r.end)
        base == LastReset(r.last, p, t, r.end)
    IN  IF r.next > t \/ p = 0 THEN r
        ELSE IF 0 < first /\ first <= t
        THEN [r EXCEPT !.used = 0, !.last = base, !.next = CalcNext(base, p, r.end)]
        ELSE IF r.next = 0 THEN [r EXCEPT !.next = first] ELSE r

WithinTotal(s, n) == Total[s] = 0 \/ n <= Total[s]

\* Mutant: amount_used may become negative.
NoClamp(n) == n

ClampZero(n) == IF n < 0 THEN 0 ELSE n

-----------------------------------------------------------------------------
Init ==
    /\ period \in Periods
    /\ row = [s \in Rows |-> [status |-> "active", used |-> 0, last |-> 0,
                              next |-> CalcNext(0, period, EndTime[s]),
                              end |-> EndTime[s]]]
    /\ now = 0
    /\ pc = [a \in Actors |-> IF a \in Requests THEN "idle" ELSE "expire"]
    /\ copy = [a \in Actors |-> NoCopy]
    /\ since = [a \in Actors |-> 0]
    /\ plan = [a \in Actors |-> 0]
    /\ due = [m \in Masters |-> {}]
    /\ count = [m \in Masters |-> 0]
    /\ amount = [q \in Requests |-> 0]
    /\ sub = [q \in Requests |-> NoRow]
    /\ target = [q \in Requests |-> 0]
    /\ left = [q \in Requests |-> MaxCorrections]

Goto(a, label) == pc' = [pc EXCEPT ![a] = label]

\* The transaction of a reads the rows of S, and the plan.
Begin(a, S, label) ==
    /\ copy' = [copy EXCEPT ![a] = [s \in S |-> row[s]]]
    /\ plan' = [plan EXCEPT ![a] = period]
    /\ Goto(a, label)

\* It commits or is rolled back.
End(a, label) ==
    /\ copy' = [copy EXCEPT ![a] = NoCopy]
    /\ plan' = [plan EXCEPT ![a] = 0]
    /\ Goto(a, label)

\* a goes on without a transaction.
Skip(a, label) == Goto(a, label) /\ UNCHANGED <<copy, plan>>

\* The row s as the transaction of a goes through it: reset if that is due.
Fresh(a, s) == ResetRow(copy[a][s], since[a], plan[a])

-----------------------------------------------------------------------------
(* Requests *)

\* The query of PreConsumeUserSubscription and PreConsumeTeamSubscription.
Payable == {s \in Rows : row[s].status = "active" /\ row[s].end > now}

PreRead(q) ==
    /\ pc[q] = "idle"
    /\ \/ /\ Payable # {} /\ Begin(q, Payable, "preWrite")
          /\ since' = [since EXCEPT ![q] = now]
          /\ \E n \in Amounts : amount' = [amount EXCEPT ![q] = n]
       \/ Payable = {} /\ Skip(q, "done") /\ UNCHANGED <<since, amount>>
    /\ UNCHANGED <<sub, target, left>>
    /\ UNCHANGED rowVars /\ UNCHANGED masterVars

Fitting(q) == {s \in DOMAIN copy[q] : WithinTotal(s, Fresh(q, s).used + amount[q])}

\* Rows that are passed over are reset as well; the first that fits pays.  When
\* none does the transaction is rolled back, resets included.
PreWrite(q) ==
    /\ pc[q] = "preWrite"
    /\ \/ \E s \in Fitting(q) :
            /\ \A t \in Fitting(q) : s <= t
            /\ row' = [x \in Rows |->
                        IF x = s THEN [Fresh(q, x) EXCEPT !.used = @ + amount[q]]
                        ELSE IF x \in DOMAIN copy[q] /\ x < s /\ Fresh(q, x) # copy[q][x]
                             THEN Fresh(q, x) ELSE row[x]]
            /\ sub' = [sub EXCEPT ![q] = s]
            /\ End(q, "held")
       \/ /\ Fitting(q) = {}
          /\ End(q, "done")
          /\ UNCHANGED <<row, sub>>
    /\ since' = [since EXCEPT ![q] = 0]
    /\ UNCHANGED <<period, now, amount, target, left>> /\ UNCHANGED masterVars

\* PostConsumeUserSubscriptionDelta, called to settle, to refund and by the
\* violation fee: a deleted row is not found.
DeltaRead(q) ==
    /\ pc[q] = "held" /\ left[q] > 0
    /\ left' = [left EXCEPT ![q] = @ - 1]
    /\ \/ /\ row[sub[q]].status # "deleted"
          /\ \E a \in Costs \ {amount[q]} : target' = [target EXCEPT ![q] = a]
          /\ Begin(q, {sub[q]}, "deltaWrite")
       \/ /\ row[sub[q]].status = "deleted"
          /\ Skip(q, "held")
          /\ UNCHANGED target
    /\ UNCHANGED <<since, amount, sub>>
    /\ UNCHANGED rowVars /\ UNCHANGED masterVars

NewUsed(q) == ClampZero(copy[q][sub[q]].used + (target[q] - amount[q]))

\* Mutant: the total is compared with what was used before.
OldAllowed(q) == WithinTotal(sub[q], copy[q][sub[q]].used)

Allowed(q) == WithinTotal(sub[q], NewUsed(q))

\* Save writes every column, and inserts the row again if it is gone.
DeltaWrite(q) ==
    /\ pc[q] = "deltaWrite"
    /\ \/ /\ Allowed(q)
          /\ row' = [row EXCEPT ![sub[q]] = [copy[q][sub[q]] EXCEPT !.used = NewUsed(q)]]
          /\ amount' = [amount EXCEPT ![q] = target[q]]
       \/ /\ ~Allowed(q)
          /\ UNCHANGED <<row, amount>>
    /\ target' = [target EXCEPT ![q] = 0]
    /\ End(q, "held")
    /\ UNCHANGED <<period, now, since, sub, left>> /\ UNCHANGED masterVars

\* The request is over and forgets what it held.
Finish(q) ==
    /\ pc[q] = "held"
    /\ Skip(q, "done")
    /\ amount' = [amount EXCEPT ![q] = 0]
    /\ sub' = [sub EXCEPT ![q] = NoRow]
    /\ left' = [left EXCEPT ![q] = 0]
    /\ UNCHANGED <<since, target>>
    /\ UNCHANGED rowVars /\ UNCHANGED masterVars

-----------------------------------------------------------------------------
(* runSubscriptionQuotaResetOnce *)

\* Mutant: a subscription that ends right now is left for the next second.
EndedBefore(t) == {s \in Rows : row[s].status = "active" /\ row[s].end < t}

Ended(t) == {s \in Rows : row[s].status = "active" /\ row[s].end <= t}

\* ExpireDueSubscriptions looks for rows that have ended and, if there are any ...
FindEnded(m) ==
    /\ pc[m] = "expire"
    /\ Skip(m, IF Ended(now) = {} THEN "list" ELSE "expireWrite")
    /\ since' = [since EXCEPT ![m] = IF Ended(now) = {} THEN 0 ELSE now]
    /\ UNCHANGED rowVars /\ UNCHANGED masterVars /\ UNCHANGED requestVars

\* ... expires those that their owner has by then, all in one transaction.  It is
\* repeated while a full batch was expired.
Expire(m) ==
    /\ pc[m] = "expireWrite"
    /\ row' = [s \in Rows |->
                IF s \in Ended(since[m]) THEN [row[s] EXCEPT !.status = "expired"] ELSE row[s]]
    /\ Skip(m, IF Cardinality(Ended(since[m])) < Batch THEN "list" ELSE "expire")
    /\ since' = [since EXCEPT ![m] = 0]
    /\ UNCHANGED <<period, now>>
    /\ UNCHANGED masterVars /\ UNCHANGED requestVars

\* Mutant: a row is due when its time has passed, not when it has come.
DueBefore == {s \in Rows : /\ row[s].status = "active"
                           /\ 0 < row[s].next /\ row[s].next < now}

Due == {s \in Rows : /\ row[s].status = "active"
                     /\ 0 < row[s].next /\ row[s].next <= now}

\* ResetDueSubscriptions lists a batch of due rows, the longest due first ...
ListDue(m) ==
    /\ pc[m] = "list"
    /\ \E B \in SUBSET Due :
        /\ Cardinality(B) = Batch \/ (B = Due /\ Cardinality(Due) < Batch)
        /\ \A s \in B, t \in Due \ B : row[s].next <= row[t].next
        /\ due' = [due EXCEPT ![m] = B]
        /\ Skip(m, IF B = {} THEN "expire" ELSE "reset")
    /\ count' = [count EXCEPT ![m] = 0]
    /\ since' = [since EXCEPT ![m] = IF Due = {} THEN 0 ELSE now]
    /\ UNCHANGED rowVars /\ UNCHANGED requestVars

\* ... reads each again in a transaction of its own, if it is still due ...
ResetRead(m, s) ==
    LET found == /\ row[s].status # "deleted"
                 /\ 0 < row[s].next /\ row[s].next <= since[m]
    IN  /\ pc[m] = "reset" /\ s \in due[m]
        /\ due' = [due EXCEPT ![m] = @ \ {s}]
        /\ \/ found /\ Begin(m, {s}, "resetWrite")
           \/ ~found /\ Skip(m, "reset")
        /\ UNCHANGED <<since, count>>
        /\ UNCHANGED rowVars /\ UNCHANGED requestVars

\* ... saves it if maybeReset changes it, and counts it in either case ...
ResetWrite(m) ==
    /\ pc[m] = "resetWrite"
    /\ row' = [s \in Rows |->
                IF s \in DOMAIN copy[m] /\ Fresh(m, s) # copy[m][s]
                THEN Fresh(m, s) ELSE row[s]]
    /\ count' = [count EXCEPT ![m] = @ + 1]
    /\ End(m, "reset")
    /\ UNCHANGED <<period, now, since, due>> /\ UNCHANGED requestVars

\* ... and goes on with the next batch if this one was full.
ResetEnds(m) ==
    /\ pc[m] = "reset" /\ due[m] = {}
    /\ Skip(m, IF count[m] < Batch THEN "expire" ELSE "list")
    /\ count' = [count EXCEPT ![m] = 0]
    /\ since' = [since EXCEPT ![m] = 0]
    /\ UNCHANGED <<due>> /\ UNCHANGED rowVars /\ UNCHANGED requestVars

-----------------------------------------------------------------------------
(* Administration and environment *)

\* AdminInvalidateUserSubscription and the deletion of a team update two columns.
Cancel(s) ==
    /\ row[s].status # "deleted"
    /\ row' = [row EXCEPT ![s] = [row[s] EXCEPT !.status = "cancelled", !.end = now]]
    /\ UNCHANGED <<period, now, pc, copy, since, plan>>
    /\ UNCHANGED masterVars /\ UNCHANGED requestVars

\* AdminDeleteUserSubscription
Delete(s) ==
    /\ row[s].status # "deleted"
    /\ row' = [row EXCEPT ![s] = Gone]
    /\ UNCHANGED <<period, now, pc, copy, since, plan>>
    /\ UNCHANGED masterVars /\ UNCHANGED requestVars

\* AdminUpdateSubscriptionPlan leaves the rows of the plan as they are.
UpdatePlan ==
    /\ \E p \in Periods \ {period} : period' = p
    /\ UNCHANGED <<row, now, pc, copy, since, plan>>
    /\ UNCHANGED masterVars /\ UNCHANGED requestVars

\* A write of an open transaction fails: it is rolled back, and its caller reports
\* the error, which ends a pre-consumption and a maintenance pass.
Fail(a) ==
    /\ \/ /\ pc[a] = "preWrite" /\ End(a, "done")
          /\ amount' = [amount EXCEPT ![a] = 0]
          /\ UNCHANGED <<due, count, target>>
       \/ /\ pc[a] = "deltaWrite" /\ End(a, "held")
          /\ target' = [target EXCEPT ![a] = 0]
          /\ UNCHANGED <<due, count, amount>>
       \/ /\ pc[a] = "expireWrite" /\ Skip(a, "expire")
          /\ UNCHANGED <<due, count, amount, target>>
       \/ /\ pc[a] = "resetWrite" /\ End(a, "expire")
          /\ due' = [due EXCEPT ![a] = {}] /\ count' = [count EXCEPT ![a] = 0]
          /\ UNCHANGED <<amount, target>>
    /\ since' = [since EXCEPT ![a] = 0]
    /\ UNCHANGED <<sub, left>> /\ UNCHANGED rowVars

Tick ==
    /\ now < MaxTime
    /\ now' = now + 1
    /\ UNCHANGED <<row, period, pc, copy, since, plan>>
    /\ UNCHANGED masterVars /\ UNCHANGED requestVars

-----------------------------------------------------------------------------
Request(q) ==
    \/ PreRead(q) \/ PreWrite(q) \/ DeltaRead(q) \/ DeltaWrite(q) \/ Finish(q)

Maintain(m) ==
    \/ FindEnded(m) \/ Expire(m) \/ ListDue(m) \/ ResetWrite(m) \/ ResetEnds(m)
    \/ \E s \in Rows : ResetRead(m, s)

Next ==
    \/ Tick \/ UpdatePlan
    \/ \E a \in Actors : Fail(a)
    \/ \E q \in Requests : Request(q)
    \/ \E m \in Masters : Maintain(m)
    \/ \E s \in Rows : Cancel(s) \/ Delete(s)

Spec == Init /\ [][Next]_vars

\* The ticker of every master keeps firing, an expiry or a reset that is tried again
\* and again succeeds in the end, and a request that has begun ends.
FairSpec ==
    /\ Spec
    /\ \A m \in Masters : /\ WF_vars(Maintain(m))
                         /\ SF_vars(Expire(m)) /\ SF_vars(ResetWrite(m))
    /\ \A q \in Requests : WF_vars(pc[q] # "idle" /\ Request(q))

-----------------------------------------------------------------------------
(* Properties *)

\* Every variable keeps its type; in particular amount_used is never negative,
\* though a refund may meet a row that was reset since the pre-consumption.
TypeOK ==
    /\ row \in [Rows -> Row]
    /\ period \in Nat /\ now \in Nat
    /\ pc \in [Actors -> Labels]
    /\ copy = [a \in Actors |-> copy[a]]
    /\ \A a \in Actors : /\ DOMAIN copy[a] \subseteq Rows
                         /\ copy[a] \in [DOMAIN copy[a] -> Row]
    /\ since \in [Actors -> Nat] /\ plan \in [Actors -> Nat]
    /\ due \in [Masters -> SUBSET Rows] /\ count \in [Masters -> Nat]
    /\ amount \in [Requests -> Nat] /\ target \in [Requests -> Nat]
    /\ sub \in [Requests -> Rows \cup {NoRow}] /\ left \in [Requests -> Nat]

\* amount_used stays within amount_total although transactions overwrite each
\* other's rows: each checks the total against the copy it saves.
UsedWithinTotal == \A s \in Rows : WithinTotal(s, row[s].used)

\* The reset columns fit together, however stale the copy last saved and whatever
\* the plan has become: the last reset is not in the future, the next one comes
\* after it and, in an active row, not after the end.
ResetSchedule ==
    \A s \in Rows :
        /\ row[s].last <= now
        /\ row[s].next > 0 => /\ row[s].last < row[s].next
                              /\ row[s].status = "active" => row[s].next <= row[s].end

\* ExpireDueSubscriptions "marks expired subscriptions": when subscriptions are
\* active after their end, a moment comes when none is.
EndedRowsExpire ==
    (\E s \in Rows : row[s].status = "active" /\ row[s].end <= now)
        ~> (\A s \in Rows : row[s].status = "active" => row[s].end > now)

\* The due rows that the plan, as it is now, resets.
Overdue == {s \in Rows : /\ row[s].status = "active"
                         /\ 0 < row[s].next /\ row[s].next <= now
                         /\ ResetRow(row[s], now, period) # row[s]}

\* ResetDueSubscriptions "resets subscriptions whose next_reset_time has passed":
\* when rows wait for their reset, a moment comes when none does.
DueRowsReset == Overdue # {} ~> Overdue = {}

\* AdminInvalidateUserSubscription "ends it immediately" and
\* AdminDeleteUserSubscription "hard-deletes": a subscription that has ended is
\* never active again, whatever was under way when it ended.
EndedStaysEnded ==
    [][\A s \in Rows : row[s].status # "active" => row'[s].status # "active"]_vars
=============================================================================

----------------------------- MODULE TaskPolling -----------------------------
(***************************************************************************)
(* The life of asynchronous tasks (video, Suno) after their submission:    *)
(* the tasks table (model/task.go), the polling loop of every master node  *)
(* (service/task_polling.go), the billing it triggers                      *)
(* (service/task_billing.go) and the client's realtime fetch               *)
(* (relay/relay_task.go).                                                  *)
(*                                                                         *)
(* NODE_TYPE defaults to master, so several processes may poll the same    *)
(* table.  Each loads rows, works on its copies and writes them back: with *)
(* a compare-and-swap on the status (UpdateWithStatus), or without one     *)
(* (TaskBulkUpdateByID, Update).  Every statement is a step of its own.    *)
(* The upstream is not modelled: it may answer anything at any time.       *)
(***************************************************************************)
EXTENDS Integers, FiniteSets, Functions

CONSTANTS
    Tasks,         \* primary keys of the tasks table, in insertion order
    Platform,      \* Platform[t]: "video", "realtime" (Gemini, Vertex) or "suno"
    ChannelOf,     \* ChannelOf[t]: task.ChannelId
    Legacy,        \* tasks submitted before legacyTaskCutoff
    Pollers,       \* processes that run TaskPollingLoop
    Fetches,       \* GET /v1/video(s)/:task_id requests of the client
    Answers,       \* unfinished statuses the upstream may report
    Quotas,        \* quotas a submission may cost
    Actuals,       \* quotas a finished task may be recalculated to; 0 keeps its quota
    QueryLimit,    \* rows loaded by one query
    MaxFailures,   \* bound on the crashes of pollers and on failed saves
    Faults         \* operations that may return an error

Platforms == {"video", "realtime", "suno"}

\* "answer": the upstream calls a task complete or failed without a final status.
FaultOps == {"settle", "insert", "cas", "save", "channel", "funding", "token", "answer"}

Unfinished == {"NOT_START", "SUBMITTED", "QUEUED", "IN_PROGRESS"}
Final == {"SUCCESS", "FAILURE"}
Statuses == Unfinished \cup Final

ASSUME TaskAssumption ==
    /\ Tasks \subseteq Nat
    /\ IsFiniteSet(Tasks)
    /\ IsFiniteSet(Pollers)
    /\ Platform \in [Tasks -> Platforms]
    /\ Legacy \subseteq Tasks
    /\ Answers \subseteq Unfinished
    /\ Quotas \subseteq Nat
    /\ Actuals \subseteq Nat
    /\ QueryLimit \in Nat \ {0}
    /\ MaxFailures \in Nat
    /\ Faults \subseteq FaultOps

VARIABLES
    status,     \* tasks.status; "none" before the row is inserted
    complete,   \* tasks.progress = "100%"
    quota,      \* tasks.quota: what a refund of the task gives back
    submission, \* how far the submission of the task is: RelayTask
    overdue,    \* tasks.submit_time < cutoff of sweepTimedOutTasks
    phase,      \* phase[p]: which part of the loop p is in
    todo,       \* todo[p]: the loaded tasks p has not come to yet
    seen,       \* seen[p][t]: the copy of t that p loaded
    job,        \* job[p]: the billing p is in the middle of
    view,       \* view[f]: the copy the fetch f works on
    failures,   \* crashes and failed saves so far
    (* What the properties need to remember, read by no action. *)
    fund,       \* fund[t]: net quota t has taken from its funding source
    tok,        \* tok[t]: net quota t has taken from its token
    missed      \* missed[t]: what of fund[t] a failed or unreached statement kept from tok[t]

rowVars == <<status, complete, quota, submission, overdue>>
pollVars == <<phase, todo, seen, job>>
billVars == <<fund, tok, missed>>
vars == <<status, complete, quota, submission, overdue, phase, todo, seen, job,
          view, failures, fund, tok, missed>>

\* A task as a process remembers it: the columns that the loop compares.
Copy == [status : Statuses \cup {"none"}, complete : BOOLEAN]
NoCopy == [status |-> "none", complete |-> FALSE]

\* at: the next statement; delta: what is still to be charged (negative: given
\* back); save: the Suno loop saves its copy when the billing is over.
Job == [at : {"none", "fund", "token", "save"}, task : Tasks \cup {-1}, delta : Int,
        save : BOOLEAN, status : Statuses \cup {"none"}, complete : BOOLEAN]
NoJob == [at |-> "none", task |-> -1, delta |-> 0,
          save |-> FALSE, status |-> "none", complete |-> FALSE]

\* The copy of one fetch.
View == [at : {"idle", "loaded", "done"}, task : Tasks \cup {-1},
         status : Statuses \cup {"none"}, complete : BOOLEAN]
NoView == [at |-> "idle", task |-> -1, status |-> "none", complete |-> FALSE]

Init ==
    /\ status = [t \in Tasks |-> "none"]
    /\ complete = [t \in Tasks |-> FALSE]
    /\ quota = [t \in Tasks |-> 0]
    /\ submission = [t \in Tasks |-> "new"]
    /\ overdue = [t \in Tasks |-> FALSE]
    /\ phase = [p \in Pollers |-> "sleep"]
    /\ todo = [p \in Pollers |-> {}]
    /\ seen = [p \in Pollers |-> [t \in Tasks |-> NoCopy]]
    /\ job = [p \in Pollers |-> NoJob]
    /\ view = [f \in Fetches |-> NoView]
    /\ failures = 0
    /\ fund = [t \in Tasks |-> 0]
    /\ tok = [t \in Tasks |-> 0]
    /\ missed = [t \in Tasks |-> 0]

MayFail(op) == op \in Faults

-----------------------------------------------------------------------------
(* Submission: the end of RelayTask *)

\* The charges of the funding source and of the token that SettleBilling may leave
\* behind: it moves both from the estimate to the final quota q, the funding source
\* first, and stops at the statement that fails.
Settled(q, estimate) ==
    {<<q, q>>} \cup (IF MayFail("settle") THEN {<<estimate, estimate>>, <<q, estimate>>} ELSE {})

\* The task is recorded with its final quota however the settlement ended.
Submit(t) ==
    /\ submission[t] = "new"
    /\ \E q, estimate \in Quotas : \E charged \in Settled(q, estimate) :
        /\ quota' = [quota EXCEPT ![t] = q]
        /\ fund' = [fund EXCEPT ![t] = charged[1]]
        /\ tok' = [tok EXCEPT ![t] = charged[2]]
        /\ missed' = [missed EXCEPT ![t] = charged[1] - charged[2]]
    /\ submission' = [submission EXCEPT ![t] = "settled"]
    /\ UNCHANGED <<status, complete, overdue, view, failures>> /\ UNCHANGED pollVars

\* task.Insert: an error is logged, and the charged task is forgotten.
Insert(t) ==
    /\ submission[t] = "settled"
    /\ \/ /\ submission' = [submission EXCEPT ![t] = "inserted"]
          /\ status' = [status EXCEPT ![t] = "NOT_START"]
       \/ /\ MayFail("insert")
          /\ submission' = [submission EXCEPT ![t] = "forgotten"]
          /\ UNCHANGED status
    /\ UNCHANGED <<complete, quota, overdue, view, failures>>
    /\ UNCHANGED pollVars /\ UNCHANGED billVars

\* Time passes until the task is older than TaskTimeoutMinutes.
Age(t) ==
    /\ submission[t] = "inserted" /\ ~overdue[t]
    /\ overdue' = [overdue EXCEPT ![t] = TRUE]
    /\ UNCHANGED <<status, complete, quota, submission, view, failures>>
    /\ UNCHANGED pollVars /\ UNCHANGED billVars

-----------------------------------------------------------------------------
(* Statements on the tasks table *)

\* The rows that GetAllUnFinishSyncTasks and GetTimedOutUnfinishedTasks look for.
Polled(t) == status[t] \in Unfinished /\ ~complete[t]

\* Order by id, limit QueryLimit.
FirstRows(S) == {t \in S : Cardinality({u \in S : u < t}) < QueryLimit}

Write(t, st, done) ==
    /\ status' = [status EXCEPT ![t] = st]
    /\ complete' = [complete EXCEPT ![t] = done]

KeepRows == UNCHANGED <<status, complete>>

\* Mutant: the WHERE clause is lost, as with Save.
CasWithoutGuard(t, from) == TRUE

\* The guard of UpdateWithStatus: the caller wins while the row has status from.
CasWins(t, from) == status[t] = from

-----------------------------------------------------------------------------
(* Billing: RefundTaskQuota and RecalculateTaskQuota *)

SetJob(p, j) == job' = [job EXCEPT ![p] = j]

\* The job that adjusts the bill of t by delta, none when there is nothing to adjust.
Bill(t, delta) ==
    IF delta = 0 THEN NoJob ELSE [at |-> "fund", task |-> t, delta |-> delta,
                                  save |-> FALSE, status |-> "none", complete |-> FALSE]

\* Mutant: the actual quota is charged on top of the estimate.
SettlementsOnTop(t) == Actuals

\* The deltas a task may be settled with: an actual quota of 0 keeps the estimate.
Settlements(t) == {IF a = 0 THEN 0 ELSE a - quota[t] : a \in Actuals}

\* What is left of j when its funding and token statements are over.
AfterBill(j) == IF j.save THEN [j EXCEPT !.at = "save"] ELSE NoJob

\* taskAdjustFunding: an error ends the billing, the token is not adjusted.
BillFund(p) ==
    LET j == job[p]
    IN  /\ j.at = "fund"
        /\ \/ /\ fund' = [fund EXCEPT ![j.task] = @ + j.delta]
              /\ SetJob(p, [j EXCEPT !.at = "token"])
           \/ /\ MayFail("funding")
              /\ SetJob(p, AfterBill(j))
              /\ UNCHANGED fund
        /\ UNCHANGED <<phase, todo, seen, view, failures, tok, missed>> /\ UNCHANGED rowVars

\* Mutant: the token is always charged, never given back.
BillTokenAbsolute(p) ==
    LET j == job[p]
    IN  /\ j.at = "token"
        /\ tok' = [tok EXCEPT ![j.task] = @ + (IF j.delta < 0 THEN -j.delta ELSE j.delta)]
        /\ SetJob(p, AfterBill(j))
        /\ UNCHANGED <<phase, todo, seen, view, failures, fund, missed>> /\ UNCHANGED rowVars

\* taskAdjustTokenQuota: an error is only logged.
BillToken(p) ==
    LET j == job[p]
    IN  /\ j.at = "token"
        /\ \/ /\ tok' = [tok EXCEPT ![j.task] = @ + j.delta]
              /\ UNCHANGED missed
           \/ /\ MayFail("token")
              /\ missed' = [missed EXCEPT ![j.task] = @ + j.delta]
              /\ UNCHANGED tok
        /\ SetJob(p, AfterBill(j))
        /\ UNCHANGED <<phase, todo, seen, view, failures, fund>> /\ UNCHANGED rowVars

-----------------------------------------------------------------------------
(* The polling loop *)

Busy(p) == job[p].at # "none"

Load(p, S) ==
    /\ todo' = [todo EXCEPT ![p] = FirstRows(S)]
    /\ seen' = [seen EXCEPT ![p] = [t \in Tasks |->
                    IF t \in FirstRows(S)
                    THEN [status |-> status[t], complete |-> complete[t]]
                    ELSE NoCopy]]

\* The loop wakes up and sweepTimedOutTasks loads its rows ...
LoadTimedOut(p) ==
    /\ phase[p] = "sleep"
    /\ Load(p, {t \in Tasks : Polled(t) /\ overdue[t]})
    /\ phase' = [phase EXCEPT ![p] = "sweep"]
    /\ UNCHANGED <<job, view, failures>> /\ UNCHANGED rowVars /\ UNCHANGED billVars

\* ... then, the sweep being over, the loop loads what is still unfinished ...
LoadUnfinished(p) ==
    /\ phase[p] = "sweep" /\ todo[p] = {} /\ ~Busy(p)
    /\ Load(p, {t \in Tasks : Polled(t)})
    /\ phase' = [phase EXCEPT ![p] = "poll"]
    /\ UNCHANGED <<job, view, failures>> /\ UNCHANGED rowVars /\ UNCHANGED billVars

\* ... and goes to sleep when it has been through that.
LoopEnds(p) ==
    /\ phase[p] = "poll" /\ todo[p] = {} /\ ~Busy(p)
    /\ phase' = [phase EXCEPT ![p] = "sleep"]
    /\ seen' = [seen EXCEPT ![p] = [t \in Tasks |-> NoCopy]]
    /\ UNCHANGED <<todo, job, view, failures>>
    /\ UNCHANGED rowVars /\ UNCHANGED billVars

\* p takes up task t in the given phase.
Takes(p, t, ph) ==
    /\ phase[p] = ph /\ t \in todo[p] /\ ~Busy(p)
    /\ todo' = [todo EXCEPT ![p] = @ \ {t}]
    /\ UNCHANGED <<phase, seen, view, failures, quota, submission, overdue>>
    /\ UNCHANGED billVars

\* Only the process that moves the task to its final status bills it.
CasThenBill(p, t, st, delta) ==
    \/ /\ CasWins(t, seen[p][t].status)
       /\ Write(t, st, TRUE)
       /\ SetJob(p, Bill(t, delta))
    \/ /\ ~CasWins(t, seen[p][t].status) \/ MayFail("cas")
       /\ KeepRows /\ UNCHANGED job

\* Mutant: legacy tasks, which have nothing to refund, are skipped.
SweepSkipsLegacy(p, t) ==
    /\ Takes(p, t, "sweep")
    /\ IF t \in Legacy THEN KeepRows /\ UNCHANGED job
       ELSE CasThenBill(p, t, "FAILURE", -quota[t])

\* One task of sweepTimedOutTasks; legacy tasks fail without a refund.
Sweep(p, t) ==
    /\ Takes(p, t, "sweep")
    /\ CasThenBill(p, t, "FAILURE", IF t \in Legacy THEN 0 ELSE -quota[t])

\* updateVideoSingleTask, from the answer to the billing.  A fetch error, a
\* status 429, an unparsable body or an unknown status leave the task alone.
PollVideo(p, t) ==
    /\ Platform[t] # "suno"
    /\ Takes(p, t, "poll")
    /\ \/ CasThenBill(p, t, "FAILURE", -quota[t])
       \/ \E delta \in Settlements(t) : CasThenBill(p, t, "SUCCESS", delta)
       \/ /\ CasWins(t, seen[p][t].status)
          /\ \E st \in Answers, done \in BOOLEAN :
                (done => MayFail("answer")) /\ Write(t, st, done)
          /\ UNCHANGED job
       \/ KeepRows /\ UNCHANGED job

\* One item of updateSunoTasks: no compare-and-swap, and a failed task is
\* refunded before it is saved.  An item without status keeps the loaded one, a
\* fail reason counts as a failure whatever the status.
PollSuno(p, t) ==
    /\ Platform[t] = "suno"
    /\ Takes(p, t, "poll")
    /\ \/ \E st \in {seen[p][t].status} \cup Answers \cup Final, reason \in BOOLEAN :
            LET failed == reason \/ st = "FAILURE"
            IN  /\ reason /\ st # "FAILURE" => MayFail("answer")
                /\ SetJob(p, [at |-> IF failed /\ quota[t] # 0 THEN "fund" ELSE "save",
                              task |-> t, delta |-> -quota[t], save |-> TRUE,
                              status |-> st, complete |-> failed \/ st = "SUCCESS"])
       \/ UNCHANGED job
    /\ KeepRows

\* task.Update writes the whole copy back, whatever the row holds by now.
SaveSuno(p) ==
    LET j == job[p]
    IN  /\ j.at = "save"
        /\ \/ Write(j.task, j.status, j.complete) /\ UNCHANGED failures
           \/ /\ MayFail("save") /\ failures < MaxFailures
              /\ failures' = failures + 1
              /\ KeepRows
        /\ SetJob(p, NoJob)
        /\ UNCHANGED <<quota, submission, overdue, phase, todo, seen, view>>
        /\ UNCHANGED billVars

\* The tasks of one platform and channel, whose channel is looked up once.
Group(p, t) == {u \in Tasks : /\ seen[p][u].status # "none"
                              /\ ChannelOf[u] = ChannelOf[t]
                              /\ Platform[u] = Platform[t]}

\* CacheGetChannel fails: TaskBulkUpdateByID fails the whole group, billing nobody.
ChannelMissing(p, t) ==
    /\ MayFail("channel")
    /\ phase[p] = "poll" /\ t \in todo[p] /\ ~Busy(p)
    /\ Group(p, t) \subseteq todo[p]
    /\ todo' = [todo EXCEPT ![p] = @ \ Group(p, t)]
    /\ status' = [u \in Tasks |-> IF u \in Group(p, t) THEN "FAILURE" ELSE status[u]]
    /\ complete' = [u \in Tasks |-> IF u \in Group(p, t) THEN TRUE ELSE complete[u]]
    /\ UNCHANGED <<phase, seen, job, view, failures, quota, submission, overdue>>
    /\ UNCHANGED billVars

\* The process dies and restarts: its copies and the billing under way are gone.
Crash(p) ==
    /\ failures < MaxFailures
    /\ phase[p] # "sleep"
    /\ failures' = failures + 1
    /\ phase' = [phase EXCEPT ![p] = "sleep"]
    /\ todo' = [todo EXCEPT ![p] = {}]
    /\ seen' = [seen EXCEPT ![p] = [t \in Tasks |-> NoCopy]]
    /\ SetJob(p, NoJob)
    /\ \/ /\ job[p].at = "token"
          /\ missed' = [missed EXCEPT ![job[p].task] = @ + job[p].delta]
       \/ job[p].at # "token" /\ UNCHANGED missed
    /\ UNCHANGED <<view, fund, tok>> /\ UNCHANGED rowVars

-----------------------------------------------------------------------------
(* The client's fetch: tryRealtimeFetch *)

FetchLoad(f) ==
    /\ view[f].at = "idle"
    /\ \E t \in Tasks :
        /\ Platform[t] = "realtime" /\ status[t] # "none"
        /\ view' = [view EXCEPT ![f] = [at |-> "loaded", task |-> t,
                                        status |-> status[t], complete |-> complete[t]]]
    /\ UNCHANGED failures
    /\ UNCHANGED rowVars /\ UNCHANGED pollVars /\ UNCHANGED billVars

\* The upstream's answer is written with a compare-and-swap on the loaded
\* status, final or not, and nobody is billed.
FetchApply(f) ==
    LET v == view[f]
    IN  /\ v.at = "loaded"
        /\ \/ \E st \in {"IN_PROGRESS", "SUCCESS", "FAILURE"} :
                CasWins(v.task, v.status) /\ Write(v.task, st, st # "IN_PROGRESS")
           \/ KeepRows
        /\ view' = [view EXCEPT ![f] = [NoView EXCEPT !.at = "done"]]
        /\ UNCHANGED <<quota, submission, overdue, failures>>
        /\ UNCHANGED pollVars /\ UNCHANGED billVars

-----------------------------------------------------------------------------
TaskStep(t) == Submit(t) \/ Insert(t) \/ Age(t)

Works(p) ==
    \/ LoadTimedOut(p) \/ LoadUnfinished(p) \/ LoopEnds(p)
    \/ BillFund(p) \/ BillToken(p) \/ SaveSuno(p)
    \/ \E t \in Tasks : Sweep(p, t) \/ PollVideo(p, t) \/ PollSuno(p, t) \/ ChannelMissing(p, t)

Next ==
    \/ \E t \in Tasks : TaskStep(t)
    \/ \E p \in Pollers : Works(p) \/ Crash(p)
    \/ \E f \in Fetches : FetchLoad(f) \/ FetchApply(f)

Spec == Init /\ [][Next]_vars

\* The steps of the loop that ask nobody but the database.
Local(p) ==
    \/ LoadTimedOut(p) \/ LoadUnfinished(p) \/ LoopEnds(p)
    \/ BillFund(p) \/ BillToken(p) \/ SaveSuno(p)
    \/ \E t \in Tasks : Sweep(p, t)

\* The loop sleeps 15 seconds between rounds and its statements return, time passes,
\* and RelayTask goes on to insert the task it has settled.  Polling is given no
\* fairness: by default the HTTP client has no timeout, so FetchTask may never return.
FairSpec ==
    /\ Spec
    /\ \A p \in Pollers : WF_vars(Local(p))
    /\ \A t \in Tasks : WF_vars(Insert(t)) /\ WF_vars(Age(t))

-----------------------------------------------------------------------------
(* Properties *)

\* Every variable keeps its type.
TypeOK ==
    /\ status \in [Tasks -> Statuses \cup {"none"}]
    /\ complete \in [Tasks -> BOOLEAN]
    /\ quota \in [Tasks -> Nat]
    /\ submission \in [Tasks -> {"new", "settled", "inserted", "forgotten"}]
    /\ overdue \in [Tasks -> BOOLEAN]
    /\ phase \in [Pollers -> {"sleep", "sweep", "poll"}]
    /\ todo \in [Pollers -> SUBSET Tasks]
    /\ seen \in [Pollers -> [Tasks -> Copy]]
    /\ job \in [Pollers -> Job]
    /\ view \in [Fetches -> View]
    /\ failures \in Nat
    /\ fund \in [Tasks -> Int]
    /\ tok \in [Tasks -> Int]
    /\ missed \in [Tasks -> Int]

\* p is in the middle of billing t.
Bills(p, t) == Busy(p) /\ job[p].task = t

\* No bill of t is under way.
Quiet(t) == \A p \in Pollers : ~Bills(p, t)

\* The compare-and-swap elects one process to bill a task, once: however many
\* processes sweep and poll the same task, two are never billing it together.
OneBiller ==
    \A t \in Tasks, p, q \in Pollers : Bills(p, t) /\ Bills(q, t) => p = q

\* A task never gives back more than it was charged, be it swept, polled,
\* retried after a crash or finished by another process ("no double refund").
NeverOverRefunded == \A t \in Tasks : fund[t] >= 0

\* What a job of the compare-and-swap paths may do to the bill of its task.
BillsOnce(p) ==
    LET j == job[p]
    IN  Busy(p) =>
            /\ j.at \in {"fund", "token"} /\ ~j.save /\ j.task \in Tasks
            /\ j.delta >= -quota[j.task]
            /\ j.at = "fund" => fund[j.task] = quota[j.task]

\* A task keeps its bill until its final status is written.
Unbilled(t) ==
    /\ submission[t] # "inserted" => status[t] = "none"
    /\ status[t] \notin Final =>
            Quiet(t) /\ fund[t] = IF submission[t] = "new" THEN 0 ELSE quota[t]

\* Why the compare-and-swap is enough for video tasks, the inductive invariant
\* behind OneBiller and NeverOverRefunded: processes only work on copies of
\* unfinished rows, and whoever finishes a row finds its bill untouched.
CasBilling ==
    /\ \A p \in Pollers : \A t \in todo[p] :
            seen[p][t].status \in Unfinished /\ status[t] # "none"
    /\ \A p \in Pollers : BillsOnce(p)
    /\ \A t \in Tasks : Unbilled(t)
    /\ \A f \in Fetches : view[f].at # "loaded"
    /\ OneBiller /\ NeverOverRefunded

\* What the comment of RefundTaskQuota says: when an asynchronous task fails, its
\* quota is given back.  Not a property of the code: see the run MCTaskRealtimeLost.
FailedTaskRefunded ==
    \A t \in Tasks \ Legacy : status[t] = "FAILURE" /\ Quiet(t) => fund[t] = 0

\* Once the bills of a task are over, its token has been charged what its funding
\* source has, but for the amounts of the token statements that failed or that a
\* crash did not reach: whoever settled, refunded or recalculated it, and however
\* often.
TokenMirrorsFunding ==
    \A t \in Tasks : Quiet(t) => tok[t] + missed[t] = fund[t]

\* What each process has charged to the funding source of t and not yet to its token.
Pending(t) ==
    [p \in Pollers |-> IF job[p].at = "token" /\ job[p].task = t THEN job[p].delta ELSE 0]

\* Only submitted tasks are ever worked on.
Submitted(t) == submission[t] # "new"

OnlySubmitted ==
    /\ \A t \in Tasks : status[t] # "none" => Submitted(t)
    /\ \A p \in Pollers : \A t \in Tasks :
            t \in todo[p] \/ seen[p][t].status # "none" => Submitted(t)
    /\ \A p \in Pollers : Busy(p) => job[p].task \in Tasks /\ Submitted(job[p].task)
    /\ \A f \in Fetches :
            view[f].at = "loaded" => view[f].task \in Tasks /\ Submitted(view[f].task)

\* The inductive invariant behind TokenMirrorsFunding, for any number of
\* processes that bill the same task: the token lags behind the funding source
\* by what they still have to charge.
TokenLags ==
    /\ OnlySubmitted
    /\ \A t \in Tasks :
            tok[t] + missed[t] + SumFunctionOnSet(Pending(t), Pollers) = fund[t]

\* UpdateWithStatus guards final statuses: a task that has reached one is never
\* seen unfinished again, so it is never billed for a second time.
FinalIsFinal ==
    [][\A t \in Tasks : status[t] \in Final => status'[t] \in Final]_vars

\* Every bill under way gives the whole quota back, or moves it to an actual one.
Adjusts(p) ==
    \A t \in Tasks : Bills(p, t) =>
        /\ job[p].delta # 0
        /\ job[p].delta = -quota[t] \/ job[p].delta \in Settlements(t)

\* The reservation that the charge of t stands for: a task that is settled at its own
\* quota keeps its hold.
TaskReservation(t) ==
    CASE ~Submitted(t) -> "idle"
      [] Submitted(t) /\ fund[t] = quota[t] -> "held"
      [] Submitted(t) /\ fund[t] # quota[t] /\ fund[t] = 0 -> "released"
      [] OTHER -> "captured"

Reserved == INSTANCE Reservation WITH
    Requests <- Tasks,
    Costs <- Actuals,
    status <- [t \in Tasks |-> TaskReservation(t)],
    debit <- fund

\* A task implements a reservation too: it is charged at its submission, and that
\* charge is adjusted at most once, to an actual quota or to nothing, by whichever of
\* the processes that sweep and poll it, and however they fail or die.
ImplementsReservation == Reserved!Spec

\* As long as the upstreams let the rounds of one process come to an end, the sweep
\* and the polling of that process bring every inserted task to an end: to a final
\* status, or to a progress of 100% that takes it out of every query.
EveryTaskEnds ==
    (\E p \in Pollers : []<>(phase[p] = "sleep")) =>
        \A t \in Tasks : status[t] # "none" ~> status[t] \in Final \/ complete[t]
=============================================================================

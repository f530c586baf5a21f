-------------------------- MODULE TaskPollingProofs --------------------------
(* Proofs about TaskPolling, for any number of tasks, pollers and crashes. *)
EXTENDS TaskPolling, SumTheorems, TLAPS

(***************************************************************************)
(* Type correctness                                                        *)
(***************************************************************************)

\* A function stays a function when one of its values is replaced.
LEMMA EntryUpdate ==
    ASSUME NEW S, NEW T, NEW f \in [S -> T], NEW x \in S, NEW v \in T
    PROVE  [f EXCEPT ![x] = v] \in [S -> T]
  OBVIOUS

\* The query of at most QueryLimit rows returns rows it was asked for.
LEMMA FirstRowsSubset == ASSUME NEW S PROVE FirstRows(S) \subseteq S
  BY DEF FirstRows

\* Loading rows keeps the types of the work list and of the copies.
LEMMA LoadType ==
    ASSUME TypeOK, NEW p \in Pollers, NEW S \in SUBSET Tasks, Load(p, S)
    PROVE  /\ todo' \in [Pollers -> SUBSET Tasks]
           /\ seen' \in [Pollers -> [Tasks -> Copy]]
  <1>1. FirstRows(S) \in SUBSET Tasks
    BY FirstRowsSubset
  <1>2. NoCopy \in Copy
    BY DEF NoCopy, Copy
  <1>3. \A t \in Tasks : [status |-> status[t], complete |-> complete[t]] \in Copy
    BY DEF TypeOK, Copy
  <1>4. [t \in Tasks |-> IF t \in FirstRows(S)
                         THEN [status |-> status[t], complete |-> complete[t]]
                         ELSE NoCopy] \in [Tasks -> Copy]
    BY <1>2, <1>3
  <1>5. QED
    BY <1>1, <1>4, EntryUpdate DEF Load, TypeOK

\* What follows the billing statements is a job.
LEMMA AfterBillType == ASSUME NEW j \in Job PROVE AfterBill(j) \in Job
  BY DEF AfterBill, Job, NoJob

\* The job for an integral adjustment of a task is a job.
LEMMA BillType ==
    ASSUME NEW t \in Tasks, NEW delta \in Int
    PROVE  Bill(t, delta) \in Job
  BY DEF Bill, Job, NoJob

\* A task is settled by an integral amount.
LEMMA SettlementType ==
    ASSUME TypeOK, NEW t \in Tasks, NEW delta \in Settlements(t)
    PROVE  delta \in Int /\ delta >= -quota[t]
  <1>1. PICK a \in Actuals : delta = IF a = 0 THEN 0 ELSE a - quota[t]
    BY DEF Settlements
  <1>2. a \in Nat /\ quota[t] \in Nat
    BY TaskAssumption DEF TypeOK
  <1>3. QED
    BY <1>1, <1>2

\* Writing a row keeps the types of the table.
LEMMA WriteType ==
    ASSUME TypeOK, NEW t \in Tasks, NEW st \in Statuses \cup {"none"}, NEW done \in BOOLEAN,
           Write(t, st, done)
    PROVE  /\ status' \in [Tasks -> Statuses \cup {"none"}]
           /\ complete' \in [Tasks -> BOOLEAN]
  <1>1. status' \in [Tasks -> Statuses \cup {"none"}]
    BY EntryUpdate DEF TypeOK, Write
  <1>2. complete' \in [Tasks -> BOOLEAN]
    BY EntryUpdate DEF TypeOK, Write
  <1>3. QED
    BY <1>1, <1>2

\* Replacing the job of a process keeps the type of job.
LEMMA SetJobType ==
    ASSUME TypeOK, NEW p \in Pollers, NEW j \in Job, SetJob(p, j)
    PROVE  job' \in [Pollers -> Job]
  BY EntryUpdate DEF TypeOK, SetJob

\* A compare-and-swap followed by billing keeps the types of what it writes.
LEMMA CasThenBillType ==
    ASSUME TypeOK, NEW p \in Pollers, NEW t \in Tasks, NEW st \in Final, NEW delta \in Int,
           CasThenBill(p, t, st, delta)
    PROVE  /\ status' \in [Tasks -> Statuses \cup {"none"}]
           /\ complete' \in [Tasks -> BOOLEAN]
           /\ job' \in [Pollers -> Job]
  <1>1. CASE Write(t, st, TRUE) /\ SetJob(p, Bill(t, delta))
    <2>1. st \in Statuses \cup {"none"}
      BY DEF Statuses
    <2>2. QED
      BY <1>1, <2>1, WriteType, BillType, SetJobType
  <1>2. CASE KeepRows /\ UNCHANGED job
    BY <1>2 DEF KeepRows, TypeOK
  <1>3. QED
    BY <1>1, <1>2 DEF CasThenBill

\* Taking up a task changes the work list only.
LEMMA TakesType ==
    ASSUME TypeOK, NEW p \in Pollers, NEW t \in Tasks, NEW ph, Takes(p, t, ph)
    PROVE  /\ todo' \in [Pollers -> SUBSET Tasks]
           /\ UNCHANGED <<phase, seen, view, failures, quota, submission, overdue, fund, tok, missed>>
  <1>1. todo[p] \ {t} \in SUBSET Tasks
    BY DEF TypeOK
  <1>2. todo' \in [Pollers -> SUBSET Tasks]
    BY <1>1, EntryUpdate DEF TypeOK, Takes
  <1>3. QED
    BY <1>2 DEF Takes, billVars

\* Initially every variable has its type.
LEMMA InitType == Init => TypeOK
  BY DEF Init, TypeOK, Statuses, Copy, NoCopy, Job, NoJob, View, NoView

\* What a submission charges, and that it charges the quota unless its settlement fails.
LEMMA SubmitCharges ==
    ASSUME NEW t \in Tasks, Submit(t)
    PROVE  \E q, c, d \in Quotas :
             /\ quota' = [quota EXCEPT ![t] = q]
             /\ fund' = [fund EXCEPT ![t] = c]
             /\ tok' = [tok EXCEPT ![t] = d]
             /\ missed' = [missed EXCEPT ![t] = c - d]
             /\ ~MayFail("settle") => c = q
  <1>1. PICK q \in Quotas, estimate \in Quotas : \E charged \in Settled(q, estimate) :
            /\ quota' = [quota EXCEPT ![t] = q]
            /\ fund' = [fund EXCEPT ![t] = charged[1]]
            /\ tok' = [tok EXCEPT ![t] = charged[2]]
            /\ missed' = [missed EXCEPT ![t] = charged[1] - charged[2]]
    BY DEF Submit
  <1>2. PICK charged \in Settled(q, estimate) :
            /\ quota' = [quota EXCEPT ![t] = q]
            /\ fund' = [fund EXCEPT ![t] = charged[1]]
            /\ tok' = [tok EXCEPT ![t] = charged[2]]
            /\ missed' = [missed EXCEPT ![t] = charged[1] - charged[2]]
    BY <1>1
  <1>3. /\ charged[1] \in Quotas /\ charged[2] \in Quotas
        /\ ~MayFail("settle") => charged[1] = q
    BY DEF Settled
  <1> QED
    BY <1>2, <1>3

\* The steps of a submission keep the types.
LEMMA TaskStepType ==
    ASSUME TypeOK, NEW t \in Tasks, TaskStep(t)
    PROVE  TypeOK'
  <1>1. CASE Submit(t)
    <2>1. PICK q \in Quotas, c \in Quotas, d \in Quotas :
              /\ quota' = [quota EXCEPT ![t] = q] /\ fund' = [fund EXCEPT ![t] = c]
              /\ tok' = [tok EXCEPT ![t] = d] /\ missed' = [missed EXCEPT ![t] = c - d]
      BY <1>1, SubmitCharges
    <2>2. q \in Nat /\ c \in Int /\ d \in Int /\ c - d \in Int
      BY TaskAssumption
    <2>3. /\ quota' \in [Tasks -> Nat] /\ fund' \in [Tasks -> Int] /\ tok' \in [Tasks -> Int]
          /\ missed' \in [Tasks -> Int]
      BY <2>1, <2>2, EntryUpdate DEF TypeOK
    <2>4. submission' \in [Tasks -> {"new", "settled", "inserted", "forgotten"}]
      BY <1>1 DEF Submit, TypeOK
    <2>5. QED
      BY <1>1, <2>3, <2>4 DEF Submit, TypeOK, pollVars
  <1>2. CASE Insert(t)
    <2>1. status' \in [Tasks -> Statuses \cup {"none"}]
      BY <1>2 DEF Insert, TypeOK, Statuses, Unfinished
    <2>2. submission' \in [Tasks -> {"new", "settled", "inserted", "forgotten"}]
      BY <1>2 DEF Insert, TypeOK
    <2>3. QED
      BY <1>2, <2>1, <2>2 DEF Insert, TypeOK, pollVars, billVars
  <1>3. CASE Age(t)
    BY <1>3 DEF Age, TypeOK, pollVars, billVars
  <1>4. QED
    BY <1>1, <1>2, <1>3 DEF TaskStep

\* The steps of a polling process keep the types.
LEMMA WorksType ==
    ASSUME TypeOK, NEW p \in Pollers, Works(p) \/ Crash(p)
    PROVE  TypeOK'
  <1>0. job[p] \in Job /\ NoJob \in Job
    BY DEF TypeOK, Job, NoJob
  <1>1. CASE LoadTimedOut(p)
    <2>1. {t \in Tasks : Polled(t) /\ overdue[t]} \in SUBSET Tasks
      OBVIOUS
    <2>2. todo' \in [Pollers -> SUBSET Tasks] /\ seen' \in [Pollers -> [Tasks -> Copy]]
      BY <1>1, <2>1, LoadType DEF LoadTimedOut
    <2>3. phase' \in [Pollers -> {"sleep", "sweep", "poll"}]
      BY <1>1 DEF LoadTimedOut, TypeOK
    <2>4. QED
      BY <1>1, <2>2, <2>3 DEF LoadTimedOut, TypeOK, rowVars, billVars
  <1>2. CASE LoadUnfinished(p)
    <2>1. {t \in Tasks : Polled(t)} \in SUBSET Tasks
      OBVIOUS
    <2>2. todo' \in [Pollers -> SUBSET Tasks] /\ seen' \in [Pollers -> [Tasks -> Copy]]
      BY <1>2, <2>1, LoadType DEF LoadUnfinished
    <2>3. phase' \in [Pollers -> {"sleep", "sweep", "poll"}]
      BY <1>2 DEF LoadUnfinished, TypeOK
    <2>4. QED
      BY <1>2, <2>2, <2>3 DEF LoadUnfinished, TypeOK, rowVars, billVars
  <1>3. CASE LoopEnds(p)
    <2>1. [t \in Tasks |-> NoCopy] \in [Tasks -> Copy]
      BY DEF NoCopy, Copy
    <2>2. seen' \in [Pollers -> [Tasks -> Copy]]
      BY <1>3, <2>1, EntryUpdate DEF LoopEnds, TypeOK
    <2>3. QED
      BY <1>3, <2>2 DEF LoopEnds, TypeOK, rowVars, billVars
  <1>4. CASE BillFund(p)
    <2>1. job[p].task \in Tasks \/ job[p].task \notin Tasks
      OBVIOUS
    <2>2. [job[p] EXCEPT !.at = "token"] \in Job
      BY <1>0 DEF Job
    <2>3. job' \in [Pollers -> Job]
      BY <1>0, <1>4, <2>2, AfterBillType, SetJobType DEF BillFund
    <2>4. job[p].delta \in Int
      BY <1>0 DEF Job
    <2>5. fund' \in [Tasks -> Int]
      BY <1>4, <2>4 DEF BillFund, TypeOK
    <2>6. missed' \in [Tasks -> Int]
      BY <1>4 DEF BillFund, TypeOK
    <2>7. QED
      BY <1>4, <2>3, <2>5, <2>6 DEF BillFund, TypeOK, rowVars
  <1>5. CASE BillToken(p)
    <2>3. job' \in [Pollers -> Job]
      BY <1>0, <1>5, AfterBillType, SetJobType DEF BillToken
    <2>4. job[p].delta \in Int
      BY <1>0 DEF Job
    <2>5. tok' \in [Tasks -> Int]
      BY <1>5, <2>4 DEF BillToken, TypeOK
    <2>6. missed' \in [Tasks -> Int]
      BY <1>5, <2>4 DEF BillToken, TypeOK
    <2>7. QED
      BY <1>5, <2>3, <2>5, <2>6 DEF BillToken, TypeOK, rowVars
  <1>6. CASE SaveSuno(p)
    <2>1. job' \in [Pollers -> Job]
      BY <1>0, <1>6, SetJobType DEF SaveSuno
    <2>2. job[p].status \in Statuses \cup {"none"} /\ job[p].complete \in BOOLEAN
      BY <1>0 DEF Job
    <2>3. status' \in [Tasks -> Statuses \cup {"none"}]
      BY <1>6, <2>2 DEF SaveSuno, Write, KeepRows, TypeOK
    <2>4. complete' \in [Tasks -> BOOLEAN]
      BY <1>6, <2>2 DEF SaveSuno, Write, KeepRows, TypeOK
    <2>5. failures' \in Nat
      BY <1>6 DEF SaveSuno, TypeOK
    <2>6. QED
      BY <1>6, <2>1, <2>3, <2>4, <2>5 DEF SaveSuno, TypeOK, billVars
  <1>7. ASSUME NEW t \in Tasks, Sweep(p, t)
        PROVE  TypeOK'
    <2>1. PICK d \in Int : CasThenBill(p, t, "FAILURE", d)
      BY <1>7 DEF Sweep, TypeOK
    <2>2. "FAILURE" \in Final
      BY DEF Final
    <2>3. status' \in [Tasks -> Statuses \cup {"none"}] /\ complete' \in [Tasks -> BOOLEAN]
          /\ job' \in [Pollers -> Job]
      BY <2>1, <2>2, CasThenBillType
    <2>4. QED
      BY <1>7, <2>3, TakesType DEF Sweep, TypeOK
  <1>8. ASSUME NEW t \in Tasks, PollVideo(p, t)
        PROVE  TypeOK'
    <2>1. ASSUME NEW st \in Final, NEW d \in Int, CasThenBill(p, t, st, d)
          PROVE  status' \in [Tasks -> Statuses \cup {"none"}]
                 /\ complete' \in [Tasks -> BOOLEAN] /\ job' \in [Pollers -> Job]
      BY <2>1, CasThenBillType
    <2>2. "FAILURE" \in Final /\ "SUCCESS" \in Final /\ -quota[t] \in Int
      BY DEF Final, TypeOK
    <2>3. ASSUME NEW st \in Answers, NEW done \in BOOLEAN, Write(t, st, done),
                 UNCHANGED job
          PROVE  status' \in [Tasks -> Statuses \cup {"none"}]
                 /\ complete' \in [Tasks -> BOOLEAN] /\ job' \in [Pollers -> Job]
      <3>1. st \in Statuses \cup {"none"}
        BY TaskAssumption DEF Statuses
      <3>2. QED
        BY <2>3, <3>1, WriteType DEF TypeOK
    <2>4. status' \in [Tasks -> Statuses \cup {"none"}]
          /\ complete' \in [Tasks -> BOOLEAN] /\ job' \in [Pollers -> Job]
      BY <1>8, <2>1, <2>2, <2>3, SettlementType DEF PollVideo, KeepRows, TypeOK
    <2>5. QED
      BY <1>8, <2>4, TakesType DEF PollVideo, TypeOK
  <1>9. ASSUME NEW t \in Tasks, PollSuno(p, t)
        PROVE  TypeOK'
    <2>1. ASSUME NEW st \in {seen[p][t].status} \cup Answers \cup Final, NEW failed \in BOOLEAN
          PROVE  [at |-> IF failed /\ quota[t] # 0 THEN "fund" ELSE "save",
                  task |-> t, delta |-> -quota[t], save |-> TRUE,
                  status |-> st, complete |-> failed \/ st = "SUCCESS"] \in Job
      <3>1. seen[p][t] \in Copy
        BY DEF TypeOK
      <3>2. st \in Statuses \cup {"none"}
        BY <3>1, TaskAssumption DEF Copy, Statuses
      <3>3. -quota[t] \in Int
        BY DEF TypeOK
      <3>4. QED
        BY <3>2, <3>3 DEF Job
    <2>2. job' \in [Pollers -> Job]
      <3>1. CASE UNCHANGED job
        BY <3>1 DEF TypeOK
      <3>2. CASE ~UNCHANGED job
        <4>1. PICK st \in {seen[p][t].status} \cup Answers \cup Final,
                   reason \in BOOLEAN :
                 SetJob(p, [at |-> IF (reason \/ st = "FAILURE") /\ quota[t] # 0
                                   THEN "fund" ELSE "save",
                            task |-> t, delta |-> -quota[t], save |-> TRUE,
                            status |-> st,
                            complete |-> (reason \/ st = "FAILURE") \/ st = "SUCCESS"])
          BY <1>9, <3>2 DEF PollSuno
        <4>2. (reason \/ st = "FAILURE") \in BOOLEAN
          OBVIOUS
        <4>3. QED
          BY <2>1, <4>1, <4>2, SetJobType
      <3>3. QED
        BY <3>1, <3>2
    <2>3. QED
      BY <1>9, <2>2, TakesType DEF PollSuno, KeepRows, TypeOK
  <1>10. ASSUME NEW t \in Tasks, ChannelMissing(p, t)
         PROVE  TypeOK'
    <2>1. todo[p] \ Group(p, t) \in SUBSET Tasks
      BY DEF TypeOK
    <2>2. todo' \in [Pollers -> SUBSET Tasks]
      BY <1>10, <2>1, EntryUpdate DEF ChannelMissing, TypeOK
    <2>3. status' \in [Tasks -> Statuses \cup {"none"}]
      BY <1>10 DEF ChannelMissing, TypeOK, Statuses, Final
    <2>4. complete' \in [Tasks -> BOOLEAN]
      BY <1>10 DEF ChannelMissing, TypeOK
    <2>5. QED
      BY <1>10, <2>2, <2>3, <2>4 DEF ChannelMissing, TypeOK, billVars
  <1>11. CASE Crash(p)
    <2>1. [t \in Tasks |-> NoCopy] \in [Tasks -> Copy]
      BY DEF NoCopy, Copy
    <2>2. seen' \in [Pollers -> [Tasks -> Copy]]
      BY <1>11, <2>1, EntryUpdate DEF Crash, TypeOK
    <2>3. job' \in [Pollers -> Job]
      BY <1>0, <1>11, SetJobType DEF Crash
    <2>4. todo' \in [Pollers -> SUBSET Tasks] /\ failures' \in Nat
          /\ phase' \in [Pollers -> {"sleep", "sweep", "poll"}]
      BY <1>11 DEF Crash, TypeOK
    <2>5. missed' \in [Tasks -> Int]
      <3>1. job[p].delta \in Int
        BY <1>0 DEF Job
      <3> QED
        BY <1>11, <3>1 DEF Crash, TypeOK
    <2>6. QED
      BY <1>11, <2>2, <2>3, <2>4, <2>5 DEF Crash, TypeOK, rowVars
  <1>12. QED
    BY <1>1, <1>2, <1>3, <1>4, <1>5, <1>6, <1>7, <1>8, <1>9, <1>10, <1>11 DEF Works

\* The client's fetch keeps the types.
LEMMA FetchType ==
    ASSUME TypeOK, NEW f \in Fetches, FetchLoad(f) \/ FetchApply(f)
    PROVE  TypeOK'
  <1>1. CASE FetchLoad(f)
    <2>1. PICK t \in Tasks :
              view' = [view EXCEPT ![f] = [at |-> "loaded", task |-> t,
                                           status |-> status[t], complete |-> complete[t]]]
      BY <1>1 DEF FetchLoad
    <2>2. [at |-> "loaded", task |-> t, status |-> status[t], complete |-> complete[t]] \in View
      BY DEF View, TypeOK
    <2>3. view' \in [Fetches -> View]
      BY <2>1, <2>2, EntryUpdate DEF TypeOK
    <2>4. QED
      BY <1>1, <2>3 DEF FetchLoad, TypeOK, rowVars, pollVars, billVars
  <1>2. CASE FetchApply(f)
    <2>1. [NoView EXCEPT !.at = "done"] \in View
      BY DEF NoView, View
    <2>2. view' \in [Fetches -> View]
      BY <1>2, <2>1, EntryUpdate DEF FetchApply, TypeOK
    <2>3. status' \in [Tasks -> Statuses \cup {"none"}]
      BY <1>2 DEF FetchApply, Write, KeepRows, TypeOK, Statuses, Unfinished, Final
    <2>4. complete' \in [Tasks -> BOOLEAN]
      BY <1>2 DEF FetchApply, Write, KeepRows, TypeOK
    <2>5. QED
      BY <1>2, <2>2, <2>3, <2>4 DEF FetchApply, TypeOK, pollVars, billVars
  <1>3. QED
    BY <1>1, <1>2

\* Every step keeps the types.
LEMMA NextType == TypeOK /\ [Next]_vars => TypeOK'
  <1>1. SUFFICES ASSUME TypeOK, [Next]_vars PROVE TypeOK'
    OBVIOUS
  <1>2. CASE UNCHANGED vars
    BY <1>1, <1>2 DEF vars, TypeOK
  <1>3. CASE Next
    BY <1>1, <1>3, TaskStepType, WorksType, FetchType DEF Next
  <1>4. QED
    BY <1>1, <1>2, <1>3

\* The tasks table, the loops' copies and jobs, and the clients' views keep
\* their types in every behaviour, with any number of processes and crashes.
THEOREM TypeCorrect == Spec => []TypeOK
  BY InitType, NextType, PTL DEF Spec

(***************************************************************************)
(* Billing by compare-and-swap: tasks of the video platforms.              *)
(***************************************************************************)

\* Only video tasks, and every submission settled: the paths that rely on
\* UpdateWithStatus for their billing.
CasOnly == (\A t \in Tasks : Platform[t] = "video") /\ "settle" \notin Faults

\* The copies a process works on are of rows that exist and were unfinished.
Copies(p) == \A t \in todo[p] : seen[p][t].status \in Unfinished /\ status[t] # "none"

\* A row that exists stays, and a final status stays final.
RowsAdvance ==
    \A t \in Tasks : /\ status'[t] = "none" <=> status[t] = "none"
                     /\ status[t] \in Final => status'[t] \in Final

\* A step that bills nobody and lets rows advance keeps the invariant.
LEMMA RowsOnly ==
    ASSUME TypeOK, CasBilling, UNCHANGED <<job, quota, fund, submission, view>>, RowsAdvance,
           \A p \in Pollers : Copies(p)'
    PROVE  CasBilling'
  <1>1. \A p \in Pollers : BillsOnce(p)'
    BY DEF CasBilling, BillsOnce, Busy
  <1>2. ASSUME NEW t \in Tasks
        PROVE  Unbilled(t)'
    BY DEF CasBilling, Unbilled, RowsAdvance, Quiet, Bills, Busy
  <1>3. OneBiller' /\ NeverOverRefunded'
    BY DEF CasBilling, OneBiller, NeverOverRefunded, Bills, Busy
  <1>4. \A f \in Fetches : view'[f].at # "loaded"
    BY DEF CasBilling
  <1>5. QED
    BY <1>1, <1>2, <1>3, <1>4 DEF CasBilling, Copies

\* Copies of work lists that only shrink remain good while rows advance.
LEMMA CopiesKept ==
    ASSUME TypeOK, CasBilling, RowsAdvance, UNCHANGED seen,
           \A p \in Pollers : todo'[p] \subseteq todo[p]
    PROVE  \A p \in Pollers : Copies(p)'
  <1>1. SUFFICES ASSUME NEW p \in Pollers, NEW t \in todo'[p]
                 PROVE  seen'[p][t].status \in Unfinished /\ status'[t] # "none"
    BY DEF Copies
  <1>2. t \in Tasks /\ t \in todo[p]
    BY <1>1 DEF TypeOK
  <1>3. QED
    BY <1>2 DEF CasBilling, RowsAdvance

\* The copies a query has just made are good.
LEMMA LoadCopies ==
    ASSUME TypeOK, CasBilling, NEW p \in Pollers, NEW S \in SUBSET {t \in Tasks : Polled(t)},
           Load(p, S), UNCHANGED status
    PROVE  \A q \in Pollers : Copies(q)'
  <1>1. SUFFICES ASSUME NEW q \in Pollers, NEW t \in todo'[q]
                 PROVE  seen'[q][t].status \in Unfinished /\ status[t] # "none"
    BY DEF Copies
  <1>2. CASE q # p
    <2>1. todo'[q] = todo[q] /\ seen'[q] = seen[q]
      BY <1>2 DEF Load, TypeOK
    <2>2. QED
      BY <2>1 DEF CasBilling
  <1>3. CASE q = p
    <2>1. todo'[p] = FirstRows(S)
      BY DEF Load, TypeOK
    <2>2. t \in FirstRows(S) /\ t \in Tasks /\ Polled(t)
      BY <1>3, <2>1, FirstRowsSubset
    <2>3. seen'[p][t] = [status |-> status[t], complete |-> complete[t]]
      BY <2>2 DEF Load, TypeOK
    <2>4. QED
      BY <1>3, <2>2, <2>3 DEF Polled, Unfinished
  <1>4. QED
    BY <1>2, <1>3

\* Initially nothing is charged and nobody bills.
LEMMA InitBilling == Init => CasBilling
  BY DEF Init, CasBilling, BillsOnce, Unbilled, Quiet, Bills, Busy, NoJob, NoView, OneBiller,
         NeverOverRefunded, Final

\* Submitting, inserting and ageing a task keep the invariant.
LEMMA TaskStepBilling ==
    ASSUME TypeOK, CasBilling, CasOnly, NEW t \in Tasks, TaskStep(t)
    PROVE  CasBilling'
  <1>1. CASE Submit(t)
    <2>1. PICK q \in Quotas : quota' = [quota EXCEPT ![t] = q] /\ fund' = [fund EXCEPT ![t] = q]
      BY <1>1, SubmitCharges DEF CasOnly, MayFail
    <2>2. q \in Nat
      BY TaskAssumption
    <2>3. status[t] = "none" /\ Quiet(t)
      BY <1>1 DEF Submit, CasBilling, Unbilled, Final
    <2>4. UNCHANGED <<status, todo, seen, job, view>>
      BY <1>1 DEF Submit, pollVars
    <2>5. ASSUME NEW u \in Tasks, u # t
          PROVE  quota'[u] = quota[u] /\ fund'[u] = fund[u] /\ submission'[u] = submission[u]
      BY <1>1, <2>1, <2>5 DEF Submit, TypeOK
    <2>6. quota'[t] = q /\ fund'[t] = q /\ submission'[t] = "settled"
      BY <1>1, <2>1 DEF Submit, TypeOK
    <2>7. \A p \in Pollers : BillsOnce(p)'
      <3>1. SUFFICES ASSUME NEW p \in Pollers, Busy(p)
                     PROVE  BillsOnce(p)'
        BY <2>4 DEF BillsOnce, Busy
      <3>2. job[p].task \in Tasks /\ job[p].task # t
        BY <2>3, <3>1 DEF CasBilling, BillsOnce, Quiet, Bills
      <3>3. QED
        BY <2>4, <2>5, <3>1, <3>2 DEF CasBilling, BillsOnce, Busy
    <2>8. \A u \in Tasks : Unbilled(u)'
      <3>1. Unbilled(t)'
        BY <2>3, <2>4, <2>6 DEF Unbilled, Quiet, Bills, Busy
      <3>2. ASSUME NEW u \in Tasks, u # t
            PROVE  Unbilled(u)'
        BY <2>4, <2>5, <3>2 DEF CasBilling, Unbilled, Quiet, Bills, Busy
      <3>3. QED
        BY <3>1, <3>2
    <2>9. OneBiller'
      BY <2>4 DEF CasBilling, OneBiller, Bills, Busy
    <2>10. NeverOverRefunded'
      BY <2>2, <2>5, <2>6 DEF CasBilling, NeverOverRefunded
    <2>11. QED
      BY <2>4, <2>7, <2>8, <2>9, <2>10 DEF CasBilling
  <1>2. CASE Insert(t)
    <2>1. status[t] = "none" /\ submission[t] = "settled"
      BY <1>2 DEF Insert, CasBilling, Unbilled
    <2>2. UNCHANGED <<quota, fund, todo, seen, job, view>>
      BY <1>2 DEF Insert, pollVars, billVars
    <2>3. ASSUME NEW u \in Tasks, u # t
          PROVE  status'[u] = status[u] /\ submission'[u] = submission[u]
      BY <1>2, <2>3 DEF Insert, TypeOK
    <2>4. \/ status'[t] = "NOT_START" /\ submission'[t] = "inserted"
          \/ status'[t] = "none" /\ submission'[t] = "forgotten"
      BY <1>2, <2>1 DEF Insert, TypeOK
    <2>5. \A p \in Pollers : BillsOnce(p)'
      BY <2>2 DEF CasBilling, BillsOnce, Busy
    <2>6. \A u \in Tasks : Unbilled(u)'
      <3>1. Unbilled(t)'
        BY <2>1, <2>2, <2>4 DEF CasBilling, Unbilled, Quiet, Bills, Busy, Final
      <3>2. ASSUME NEW u \in Tasks, u # t
            PROVE  Unbilled(u)'
        BY <2>2, <2>3, <3>2 DEF CasBilling, Unbilled, Quiet, Bills, Busy
      <3>3. QED
        BY <3>1, <3>2
    <2>7. \A p \in Pollers : \A u \in todo'[p] :
              seen'[p][u].status \in Unfinished /\ status'[u] # "none"
      BY <2>1, <2>2, <2>3 DEF CasBilling, TypeOK
    <2>8. OneBiller' /\ NeverOverRefunded'
      BY <2>2 DEF CasBilling, OneBiller, NeverOverRefunded, Bills, Busy
    <2>9. QED
      BY <2>2, <2>5, <2>6, <2>7, <2>8 DEF CasBilling
  <1>3. CASE Age(t)
    <2>1. UNCHANGED <<status, quota, fund, submission, todo, seen, job, view>>
      BY <1>3 DEF Age, pollVars, billVars
    <2>2. RowsAdvance
      BY <2>1 DEF RowsAdvance
    <2>3. QED
      BY <2>1, <2>2, CopiesKept, RowsOnly
  <1>4. QED
    BY <1>1, <1>2, <1>3 DEF TaskStep

\* The process whose compare-and-swap finishes t becomes its only biller.
LEMMA CasThenBillBilling ==
    ASSUME TypeOK, CasBilling, NEW p \in Pollers, NEW t \in Tasks, NEW ph, NEW st \in Final,
           NEW delta \in Int, delta >= -quota[t],
           Takes(p, t, ph), CasThenBill(p, t, st, delta)
    PROVE  CasBilling' /\ RowsAdvance
  <1>1. t \in todo[p] /\ ~Busy(p) /\ UNCHANGED <<seen, view, quota, submission, fund>>
    BY DEF Takes, billVars
  <1>2. \A q \in Pollers : todo'[q] \subseteq todo[q]
    BY DEF Takes, TypeOK
  <1>3. CASE KeepRows /\ UNCHANGED job
    <2>1. RowsAdvance
      BY <1>3 DEF KeepRows, RowsAdvance
    <2>2. QED
      BY <1>1, <1>2, <1>3, <2>1, CopiesKept, RowsOnly
  <1>4. CASE CasWins(t, seen[p][t].status) /\ Write(t, st, TRUE) /\ SetJob(p, Bill(t, delta))
    <2>1. status[t] \in Unfinished /\ status[t] # "none"
      BY <1>1, <1>4 DEF CasBilling, CasWins
    <2>2. status[t] \notin Final
      BY <2>1 DEF Unfinished, Final
    <2>3. status'[t] = st /\ st # "none"
      BY <1>4 DEF Write, TypeOK, Final
    <2>4. \A u \in Tasks : u # t => status'[u] = status[u]
      BY <1>4 DEF Write, TypeOK
    <2>5. RowsAdvance
      BY <2>1, <2>3, <2>4 DEF RowsAdvance
    <2>6. \A q \in Pollers : Copies(q)'
      BY <1>1, <1>2, <2>5, CopiesKept
    <2>7. submission[t] = "inserted" /\ Quiet(t) /\ fund[t] = quota[t]
      BY <2>1, <2>2 DEF CasBilling, Unbilled
    <2>8. job'[p] = Bill(t, delta) /\ \A q \in Pollers : q # p => job'[q] = job[q]
      BY <1>4 DEF SetJob, TypeOK
    <2>9. Busy(p)' => /\ job'[p].at = "fund" /\ ~job'[p].save /\ job'[p].task = t
                      /\ job'[p].delta = delta
      BY <2>8 DEF Busy, Bill, NoJob
    <2>10. \A q \in Pollers : BillsOnce(q)'
      <3>1. BillsOnce(p)'
        BY <1>1, <2>7, <2>9 DEF BillsOnce
      <3>2. ASSUME NEW q \in Pollers, q # p
            PROVE  BillsOnce(q)'
        BY <1>1, <2>8, <3>2 DEF CasBilling, BillsOnce, Busy
      <3>3. QED
        BY <3>1, <3>2
    <2>11. \A u \in Tasks : Unbilled(u)'
      <3>1. Unbilled(t)'
        BY <1>1, <2>3, <2>7 DEF Unbilled
      <3>2. ASSUME NEW u \in Tasks, u # t
            PROVE  Unbilled(u)'
        <4>1. Quiet(u) => Quiet(u)'
          BY <2>8, <2>9, <3>2 DEF Quiet, Bills, Busy
        <4>2. QED
          BY <1>1, <2>4, <3>2, <4>1 DEF CasBilling, Unbilled
      <3>3. QED
        BY <3>1, <3>2
    <2>12. OneBiller'
      <3>1. SUFFICES ASSUME NEW u \in Tasks, NEW q \in Pollers, NEW r \in Pollers,
                            Bills(q, u)', Bills(r, u)'
                     PROVE  q = r
        BY DEF OneBiller
      <3>2. \A x \in Pollers : x # p => (Bills(x, u)' <=> Bills(x, u))
        BY <2>8 DEF Bills, Busy
      <3>3. Bills(p, u)' => u = t
        BY <2>9 DEF Bills
      <3>4. \A x \in Pollers : ~Bills(x, t)
        BY <2>7 DEF Quiet
      <3>5. QED
        BY <3>1, <3>2, <3>3, <3>4 DEF CasBilling, OneBiller
    <2>13. NeverOverRefunded'
      BY <1>1 DEF CasBilling, NeverOverRefunded
    <2>14. QED
      BY <1>1, <2>5, <2>6, <2>10, <2>11, <2>12, <2>13 DEF CasBilling, Copies
  <1>5. QED
    BY <1>3, <1>4 DEF CasThenBill

\* The billing statements change the bill of a finished task only, and only the
\* first of them moves its funding source, which is still as it was charged.
LEMMA BillBilling ==
    ASSUME TypeOK, CasBilling, NEW p \in Pollers, BillFund(p) \/ BillToken(p)
    PROVE  CasBilling'
  <1>1. PICK t \in Tasks : t = job[p].task
    BY DEF CasBilling, BillsOnce, Busy, BillFund, BillToken
  <1>2. Busy(p) /\ Bills(p, t) /\ BillsOnce(p) /\ job[p] \in Job /\ quota[t] \in Nat
    BY <1>1 DEF CasBilling, Busy, Bills, BillFund, BillToken, TypeOK
  <1>3. UNCHANGED <<status, submission, quota, todo, seen, view>>
    BY DEF BillFund, BillToken, rowVars
  <1>4. status[t] \in Final
    BY <1>2 DEF CasBilling, Unbilled, Quiet
  <1>5. /\ \A q \in Pollers : q # p => job'[q] = job[q]
        /\ \A u \in Tasks : u # t => fund'[u] = fund[u]
    BY <1>1 DEF BillFund, BillToken, SetJob, TypeOK
  <1>6. ~job[p].save
    BY <1>2 DEF BillsOnce
  <1>7. \/ job'[p] = [job[p] EXCEPT !.at = "token"]
        \/ job'[p] = NoJob
    BY <1>6 DEF BillFund, BillToken, SetJob, AfterBill, TypeOK
  <1>8. Busy(p)' => /\ job'[p].at = "token" /\ job'[p].save = job[p].save
                    /\ job'[p].task = t /\ job'[p].delta = job[p].delta
    <2>1. CASE job'[p] = NoJob
      BY <2>1 DEF Busy, NoJob
    <2>2. CASE job'[p] = [job[p] EXCEPT !.at = "token"]
      BY <1>1, <1>2, <2>2 DEF Job
    <2>3. QED
      BY <1>7, <2>1, <2>2
  <1>9. fund'[t] >= 0
    <2>1. CASE BillFund(p)
      <3>1. fund[t] = quota[t] /\ job[p].delta >= -quota[t] /\ job[p].delta \in Int
        BY <1>1, <1>2, <2>1 DEF BillsOnce, BillFund, Job
      <3>2. fund'[t] = fund[t] + job[p].delta \/ fund'[t] = fund[t]
        BY <1>1, <2>1 DEF BillFund, TypeOK
      <3>3. QED
        BY <1>2, <3>1, <3>2
    <2>2. CASE BillToken(p)
      BY <2>2 DEF BillToken, CasBilling, NeverOverRefunded
    <2>3. QED
      BY <2>1, <2>2
  <1>10. \A q \in Pollers : BillsOnce(q)'
    <2>1. BillsOnce(p)'
      BY <1>1, <1>2, <1>3, <1>6, <1>8 DEF BillsOnce
    <2>2. ASSUME NEW q \in Pollers, q # p
          PROVE  BillsOnce(q)'
      <3>1. Busy(q) => job[q].task \in Tasks /\ job[q].task # t
        BY <1>2, <2>2 DEF CasBilling, BillsOnce, OneBiller, Bills
      <3>2. QED
        BY <1>3, <1>5, <2>2, <3>1 DEF CasBilling, BillsOnce, Busy
    <2>3. QED
      BY <2>1, <2>2
  <1>11. \A u \in Tasks : Unbilled(u)'
    <2>1. Unbilled(t)'
      BY <1>3, <1>4 DEF CasBilling, Unbilled
    <2>2. ASSUME NEW u \in Tasks, u # t
          PROVE  Unbilled(u)'
      <3>1. Quiet(u) => Quiet(u)'
        BY <1>5, <1>8, <2>2 DEF Quiet, Bills, Busy
      <3>2. QED
        BY <1>3, <1>5, <2>2, <3>1 DEF CasBilling, Unbilled
    <2>3. QED
      BY <2>1, <2>2
  <1>12. OneBiller'
    <2>1. \A u \in Tasks, q \in Pollers : Bills(q, u)' => Bills(q, u)
      BY <1>1, <1>2, <1>5, <1>8 DEF Bills, Busy
    <2>2. QED
      BY <2>1 DEF CasBilling, OneBiller
  <1>13. NeverOverRefunded'
    BY <1>5, <1>9 DEF CasBilling, NeverOverRefunded
  <1>14. QED
    BY <1>3, <1>10, <1>11, <1>12, <1>13 DEF CasBilling

\* A process that dies takes its copies and its job with it.
LEMMA CrashBilling ==
    ASSUME TypeOK, CasBilling, NEW p \in Pollers, Crash(p)
    PROVE  CasBilling'
  <1>1. UNCHANGED <<status, submission, quota, fund, view>>
    BY DEF Crash, rowVars
  <1>2. /\ job'[p] = NoJob /\ todo'[p] = {}
        /\ \A q \in Pollers : q # p => job'[q] = job[q] /\ todo'[q] = todo[q] /\ seen'[q] = seen[q]
    BY DEF Crash, SetJob, TypeOK
  <1>3. ~Busy(p)'
    BY <1>2 DEF Busy, NoJob
  <1>4. \A q \in Pollers : Busy(q)' => job'[q] = job[q] /\ Busy(q)
    BY <1>2, <1>3 DEF Busy
  <1>5. \A q \in Pollers : BillsOnce(q)'
    BY <1>1, <1>4 DEF CasBilling, BillsOnce
  <1>6. \A q \in Pollers, u \in Tasks : Bills(q, u)' => Bills(q, u)
    BY <1>4 DEF Bills
  <1>7. \A u \in Tasks : Unbilled(u)'
    BY <1>1, <1>6 DEF CasBilling, Unbilled, Quiet
  <1>8. OneBiller' /\ NeverOverRefunded'
    BY <1>1, <1>6 DEF CasBilling, OneBiller, NeverOverRefunded
  <1>9. \A q \in Pollers : \A t \in todo'[q] :
            seen'[q][t].status \in Unfinished /\ status'[t] # "none"
    BY <1>1, <1>2 DEF CasBilling
  <1>10. QED
    BY <1>1, <1>5, <1>7, <1>8, <1>9 DEF CasBilling

\* Every step of a process keeps the invariant and lets rows advance.
LEMMA WorksBilling ==
    ASSUME TypeOK, CasBilling, CasOnly, NEW p \in Pollers, Works(p) \/ Crash(p)
    PROVE  CasBilling' /\ RowsAdvance
  <1>1. CASE LoadTimedOut(p) \/ LoadUnfinished(p)
    <2>1. PICK S \in SUBSET {t \in Tasks : Polled(t)} : Load(p, S)
      BY <1>1 DEF LoadTimedOut, LoadUnfinished
    <2>2. UNCHANGED <<status, submission, quota, fund, job, view>>
      BY <1>1 DEF LoadTimedOut, LoadUnfinished, rowVars, billVars
    <2>3. RowsAdvance
      BY <2>2 DEF RowsAdvance
    <2>4. QED
      BY <2>1, <2>2, <2>3, LoadCopies, RowsOnly
  <1>2. CASE LoopEnds(p)
    <2>1. UNCHANGED <<status, submission, quota, fund, job, view, todo>>
      BY <1>2 DEF LoopEnds, rowVars, billVars
    <2>2. todo[p] = {} /\ \A q \in Pollers : q # p => seen'[q] = seen[q]
      BY <1>2 DEF LoopEnds, TypeOK
    <2>3. RowsAdvance
      BY <2>1 DEF RowsAdvance
    <2>4. \A q \in Pollers : Copies(q)'
      BY <2>1, <2>2 DEF CasBilling, Copies
    <2>5. QED
      BY <2>1, <2>3, <2>4, RowsOnly
  <1>3. CASE BillFund(p) \/ BillToken(p)
    <2>1. RowsAdvance
      BY <1>3 DEF BillFund, BillToken, rowVars, RowsAdvance
    <2>2. QED
      BY <1>3, <2>1, BillBilling
  <1>4. CASE SaveSuno(p)
    BY <1>4 DEF SaveSuno, CasBilling, BillsOnce, Busy
  <1>5. ASSUME NEW t \in Tasks, Sweep(p, t)
        PROVE  CasBilling' /\ RowsAdvance
    <2>1. PICK d \in Int : d >= -quota[t] /\ CasThenBill(p, t, "FAILURE", d)
      BY <1>5 DEF Sweep, TypeOK
    <2>2. "FAILURE" \in Final
      BY DEF Final
    <2>3. QED
      BY <1>5, <2>1, <2>2, CasThenBillBilling DEF Sweep
  <1>6. ASSUME NEW t \in Tasks, PollVideo(p, t)
        PROVE  CasBilling' /\ RowsAdvance
    <2>1. Takes(p, t, "poll")
      BY <1>6 DEF PollVideo
    <2>2. CASE CasThenBill(p, t, "FAILURE", -quota[t])
      <3>1. "FAILURE" \in Final /\ -quota[t] \in Int /\ -quota[t] >= -quota[t]
        BY DEF Final, TypeOK
      <3>2. QED
        BY <2>1, <2>2, <3>1, CasThenBillBilling
    <2>3. ASSUME NEW d \in Settlements(t), CasThenBill(p, t, "SUCCESS", d)
          PROVE  CasBilling' /\ RowsAdvance
      <3>1. "SUCCESS" \in Final
        BY DEF Final
      <3>2. d \in Int /\ d >= -quota[t]
        BY SettlementType
      <3>3. QED
        BY <2>1, <2>3, <3>1, <3>2, CasThenBillBilling
    <2>4. UNCHANGED <<seen, view, quota, submission, fund>> /\ t \in todo[p]
      BY <2>1 DEF Takes, billVars
    <2>5. \A q \in Pollers : todo'[q] \subseteq todo[q]
      BY <2>1 DEF Takes, TypeOK
    <2>6. ASSUME CasWins(t, seen[p][t].status), NEW st \in Answers, NEW done, Write(t, st, done),
                 UNCHANGED job
          PROVE  CasBilling' /\ RowsAdvance
      <3>1. status[t] \in Unfinished /\ status[t] # "none"
        BY <2>4, <2>6 DEF CasWins, CasBilling
      <3>2. st \in Unfinished
        BY TaskAssumption
      <3>3. status'[t] = st /\ \A u \in Tasks : u # t => status'[u] = status[u]
        BY <2>6 DEF Write, TypeOK
      <3>4. RowsAdvance
        BY <3>1, <3>2, <3>3 DEF RowsAdvance, Unfinished, Final
      <3>5. QED
        BY <2>4, <2>5, <2>6, <3>4, CopiesKept, RowsOnly
    <2>7. CASE KeepRows /\ UNCHANGED job
      <3>1. RowsAdvance
        BY <2>7 DEF KeepRows, RowsAdvance
      <3>2. QED
        BY <2>4, <2>5, <2>7, <3>1, CopiesKept, RowsOnly
    <2>8. QED
      BY <1>6, <2>2, <2>3, <2>6, <2>7 DEF PollVideo
  <1>7. ASSUME NEW t \in Tasks, PollSuno(p, t)
        PROVE  CasBilling' /\ RowsAdvance
    BY <1>7 DEF PollSuno, CasOnly
  <1>8. ASSUME NEW t \in Tasks, ChannelMissing(p, t)
        PROVE  CasBilling' /\ RowsAdvance
    <2>1. UNCHANGED <<seen, view, job, quota, submission, fund>>
      BY <1>8 DEF ChannelMissing, billVars
    <2>2. \A q \in Pollers : todo'[q] \subseteq todo[q]
      BY <1>8 DEF ChannelMissing, TypeOK
    <2>3. \A u \in Group(p, t) : status[u] # "none"
      BY <1>8 DEF ChannelMissing, CasBilling
    <2>4. \A u \in Tasks : status'[u] = IF u \in Group(p, t) THEN "FAILURE" ELSE status[u]
      BY <1>8 DEF ChannelMissing
    <2>5. RowsAdvance
      BY <2>3, <2>4 DEF RowsAdvance, Final
    <2>6. QED
      BY <2>1, <2>2, <2>5, CopiesKept, RowsOnly
  <1>9. CASE Crash(p)
    <2>1. RowsAdvance
      BY <1>9 DEF Crash, rowVars, RowsAdvance
    <2>2. QED
      BY <1>9, <2>1, CrashBilling
  <1>10. QED
    BY <1>1, <1>2, <1>3, <1>4, <1>5, <1>6, <1>7, <1>8, <1>9 DEF Works

\* The client's fetch never starts: it is for realtime tasks only.
LEMMA FetchBilling ==
    ASSUME TypeOK, CasBilling, CasOnly, NEW f \in Fetches, FetchLoad(f) \/ FetchApply(f)
    PROVE  FALSE
  BY DEF FetchLoad, FetchApply, CasBilling, CasOnly

\* What FinalIsFinal says of one step.
FinalStep == \A t \in Tasks : status[t] \in Final => status'[t] \in Final

\* Every step keeps the invariant, and no step takes a final status back.
LEMMA NextBilling ==
    ASSUME TypeOK, CasBilling, CasOnly, [Next]_vars
    PROVE  CasBilling' /\ FinalStep
  <1>1. CASE UNCHANGED vars
    <2>1. UNCHANGED <<job, quota, fund, submission, view, status, todo, seen>>
      BY <1>1 DEF vars
    <2>2. RowsAdvance
      BY <2>1 DEF RowsAdvance
    <2>3. CasBilling'
      BY <2>1, <2>2, CopiesKept, RowsOnly
    <2>4. QED
      BY <2>2, <2>3 DEF RowsAdvance, FinalStep
  <1>2. ASSUME NEW t \in Tasks, TaskStep(t)
        PROVE  CasBilling' /\ FinalStep
    <2>1. submission[t] # "inserted" => status[t] = "none"
      BY DEF CasBilling, Unbilled
    <2>2. FinalStep
      BY <1>2, <2>1 DEF TaskStep, Submit, Insert, Age, TypeOK, FinalStep, Final
    <2>3. QED
      BY <1>2, <2>2, TaskStepBilling
  <1>3. ASSUME NEW p \in Pollers, Works(p) \/ Crash(p)
        PROVE  CasBilling' /\ FinalStep
    <2>1. CasBilling' /\ RowsAdvance
      BY <1>3, WorksBilling
    <2>2. QED
      BY <2>1 DEF RowsAdvance, FinalStep
  <1>4. QED
    BY <1>1, <1>2, <1>3, FetchBilling DEF Next

\* However many masters poll the same video tasks, whenever they crash and
\* whichever statements fail, the inductive invariant of billing holds.
THEOREM CasBillingHolds == ASSUME CasOnly PROVE Spec => []CasBilling
  <1>1. TypeOK /\ CasBilling /\ [Next]_vars => CasBilling'
    BY NextBilling
  <1>2. QED
    BY <1>1, InitBilling, TypeCorrect, PTL DEF Spec

\* At most one process ever bills a video task at a time.
THEOREM OneBillerHolds == ASSUME CasOnly PROVE Spec => []OneBiller
  <1>1. CasBilling => OneBiller
    BY DEF CasBilling
  <1>2. QED
    BY <1>1, CasBillingHolds, PTL

\* A video task is never refunded more than it was charged.
THEOREM NeverOverRefundedHolds == ASSUME CasOnly PROVE Spec => []NeverOverRefunded
  <1>1. CasBilling => NeverOverRefunded
    BY DEF CasBilling
  <1>2. QED
    BY <1>1, CasBillingHolds, PTL

\* A video task that has succeeded or failed never becomes unfinished again.
THEOREM FinalIsFinalHolds == ASSUME CasOnly PROVE Spec => FinalIsFinal
  <1>1. TypeOK /\ CasBilling /\ [Next]_vars => [FinalStep]_vars
    BY NextBilling
  <1>2. Spec => [][FinalStep]_vars
    BY <1>1, CasBillingHolds, TypeCorrect, PTL DEF Spec
  <1>3. QED
    BY <1>2 DEF FinalIsFinal, FinalStep

(***************************************************************************)
(* The token follows the funding source: every platform, fault and crash.  *)
(***************************************************************************)

\* A submission is never undone.
LEMMA SubmittedStays ==
    ASSUME TypeOK, [Next]_vars, NEW t \in Tasks, Submitted(t)
    PROVE  Submitted(t)'
  <1>1. ASSUME NEW u \in Tasks, TaskStep(u) PROVE Submitted(t)'
    BY <1>1 DEF TaskStep, Submit, Insert, Age, Submitted, TypeOK
  <1>2. ASSUME NEW p \in Pollers, Works(p) \/ Crash(p) PROVE UNCHANGED submission
    BY <1>2 DEF Works, Crash, LoadTimedOut, LoadUnfinished, LoopEnds, BillFund, BillToken, SaveSuno,
                Sweep, PollVideo, PollSuno, ChannelMissing, Takes, rowVars
  <1>3. ASSUME NEW f \in Fetches, FetchLoad(f) \/ FetchApply(f) PROVE UNCHANGED submission
    BY <1>3 DEF FetchLoad, FetchApply, rowVars
  <1>4. CASE UNCHANGED vars
    BY <1>4 DEF vars, Submitted
  <1> QED
    BY <1>1, <1>2, <1>3, <1>4 DEF Next, Submitted

\* A step that writes rows, copies and jobs of submitted tasks only keeps
\* OnlySubmitted.
LEMMA OnlySubmittedStep ==
    ASSUME TypeOK, OnlySubmitted, [Next]_vars,
           \A t \in Tasks : status'[t] # "none" => status[t] # "none" \/ Submitted(t),
           \A p \in Pollers : \A t \in Tasks :
                /\ t \in todo'[p] => t \in todo[p] \/ Submitted(t)
                /\ seen'[p][t].status # "none" => seen[p][t].status # "none" \/ Submitted(t),
           \A p \in Pollers :
                \/ job'[p].at = "none"
                \/ job'[p].task \in Tasks /\ Submitted(job'[p].task)
                \/ job[p].at # "none" /\ job'[p].task = job[p].task,
           \A f \in Fetches :
                \/ view'[f].at # "loaded"
                \/ view'[f] = view[f]
                \/ view'[f].task \in Tasks /\ Submitted(view'[f].task)
    PROVE  OnlySubmitted'
  <1>0. \A t \in Tasks : Submitted(t) => Submitted(t)'
    BY SubmittedStays
  <1>1. \A t \in Tasks : status'[t] # "none" => Submitted(t)'
    BY <1>0 DEF OnlySubmitted
  <1>2. \A p \in Pollers : \A t \in Tasks :
            t \in todo'[p] \/ seen'[p][t].status # "none" => Submitted(t)'
    BY <1>0 DEF OnlySubmitted
  <1>3. ASSUME NEW p \in Pollers, job'[p].at # "none"
        PROVE  job'[p].task \in Tasks /\ submission'[job'[p].task] # "new"
    <2>1. job'[p].task \in Tasks /\ Submitted(job'[p].task)
      BY <1>3 DEF OnlySubmitted, Busy
    <2> QED
      BY <1>0, <2>1 DEF Submitted
  <1>4. ASSUME NEW f \in Fetches, view'[f].at = "loaded"
        PROVE  view'[f].task \in Tasks /\ submission'[view'[f].task] # "new"
    <2>1. CASE view'[f].task \in Tasks /\ Submitted(view'[f].task)
      BY <1>0, <2>1 DEF Submitted
    <2>2. CASE view'[f] = view[f]
      <3>1. view[f].task \in Tasks /\ Submitted(view[f].task)
        BY <1>4, <2>2 DEF OnlySubmitted
      <3> QED
        BY <1>0, <2>2, <3>1 DEF Submitted
    <2> QED
      BY <1>4, <2>1, <2>2
  <1> QED
    BY <1>1, <1>2, <1>3, <1>4 DEF OnlySubmitted, Submitted, Busy

\* What a process loads has been submitted.
LEMMA LoadSubmitted ==
    ASSUME TypeOK, OnlySubmitted, NEW p \in Pollers, NEW S \in SUBSET {t \in Tasks : Polled(t)},
           Load(p, S)
    PROVE  \A q \in Pollers : \A t \in Tasks :
                /\ t \in todo'[q] => t \in todo[q] \/ Submitted(t)
                /\ seen'[q][t].status # "none" => seen[q][t].status # "none" \/ Submitted(t)
  <1>1. \A t \in FirstRows(S) : t \in Tasks /\ Submitted(t)
    BY FirstRowsSubset DEF Polled, OnlySubmitted, Unfinished
  <1>2. todo' = [todo EXCEPT ![p] = FirstRows(S)]
    BY DEF Load
  <1>3. \A t \in Tasks : seen'[p][t].status # "none" => t \in FirstRows(S)
    BY DEF Load, NoCopy, TypeOK
  <1>4. \A q \in Pollers : q # p => seen'[q] = seen[q] /\ todo'[q] = todo[q]
    BY DEF Load, TypeOK
  <1>5. todo'[p] = FirstRows(S)
    BY <1>2 DEF TypeOK
  <1> QED
    BY <1>1, <1>3, <1>4, <1>5

\* Every step keeps OnlySubmitted.
LEMMA NextSubmitted ==
    ASSUME TypeOK, OnlySubmitted, [Next]_vars
    PROVE  OnlySubmitted'
  <1>1. CASE UNCHANGED vars
    BY <1>1, OnlySubmittedStep DEF vars
  <1>2. ASSUME NEW t \in Tasks, TaskStep(t) PROVE OnlySubmitted'
    <2>1. UNCHANGED <<todo, seen, job, view>>
      BY <1>2 DEF TaskStep, Submit, Insert, Age, pollVars
    <2>2. \A u \in Tasks : status'[u] # "none" => status[u] # "none" \/ Submitted(u)
      BY <1>2 DEF TaskStep, Submit, Insert, Age, Submitted, TypeOK
    <2> QED
      BY <2>1, <2>2, OnlySubmittedStep
  <1>3. ASSUME NEW f \in Fetches, FetchLoad(f) \/ FetchApply(f) PROVE OnlySubmitted'
    <2>1. UNCHANGED <<todo, seen, job>>
      BY <1>3 DEF FetchLoad, FetchApply, pollVars
    <2>2. CASE FetchLoad(f)
      <3>1. UNCHANGED status
        BY <2>2 DEF FetchLoad, rowVars
      <3>2. PICK t \in Tasks :
                /\ status[t] # "none"
                /\ view' = [view EXCEPT ![f] = [at |-> "loaded", task |-> t,
                                                status |-> status[t], complete |-> complete[t]]]
        BY <2>2 DEF FetchLoad
      <3>3. Submitted(t)
        BY <3>2 DEF OnlySubmitted
      <3>4. \A g \in Fetches : view'[g] = view[g] \/ view'[g].task = t
        BY <3>2 DEF TypeOK
      <3> QED
        BY <2>1, <3>1, <3>3, <3>4, OnlySubmittedStep
    <2>3. CASE FetchApply(f)
      <3>1. view[f].task \in Tasks /\ Submitted(view[f].task)
        BY <2>3 DEF FetchApply, OnlySubmitted
      <3>2. \A u \in Tasks : status'[u] # "none" => status[u] # "none" \/ Submitted(u)
        BY <2>3, <3>1 DEF FetchApply, Write, KeepRows, TypeOK
      <3>3. \A g \in Fetches : view'[g] = view[g] \/ view'[g].at # "loaded"
        BY <2>3 DEF FetchApply, NoView, TypeOK
      <3> QED
        BY <2>1, <3>2, <3>3, OnlySubmittedStep
    <2> QED
      BY <1>3, <2>2, <2>3
  <1>4. ASSUME NEW p \in Pollers, Works(p) \/ Crash(p) PROVE OnlySubmitted'
    <2>1. CASE LoadTimedOut(p) \/ LoadUnfinished(p)
      <3>1. PICK S \in SUBSET {t \in Tasks : Polled(t)} : Load(p, S)
        BY <2>1 DEF LoadTimedOut, LoadUnfinished
      <3>2. UNCHANGED <<status, job, view>>
        BY <2>1 DEF LoadTimedOut, LoadUnfinished, rowVars
      <3> QED
        BY <3>1, <3>2, LoadSubmitted, OnlySubmittedStep
    <2>2. CASE LoopEnds(p)
      <3>1. UNCHANGED <<status, todo, job, view>>
        BY <2>2 DEF LoopEnds, rowVars
      <3>2. \A q \in Pollers : seen'[q] = seen[q] \/ \A t \in Tasks : seen'[q][t].status = "none"
        BY <2>2 DEF LoopEnds, NoCopy, TypeOK
      <3> QED
        BY <3>1, <3>2, OnlySubmittedStep
    <2>3. CASE BillFund(p) \/ BillToken(p)
      <3>1. UNCHANGED <<status, todo, seen, view>>
        BY <2>3 DEF BillFund, BillToken, rowVars
      <3>2. job[p] \in Job /\ job[p].at # "none"
        BY <2>3 DEF BillFund, BillToken, TypeOK
      <3>3. PICK j : SetJob(p, j) /\ (j.at = "none" \/ j.task = job[p].task)
        <4>1. AfterBill(job[p]).at = "none" \/ AfterBill(job[p]).task = job[p].task
          BY <3>2 DEF AfterBill, NoJob, Job
        <4>2. [job[p] EXCEPT !.at = "token"].task = job[p].task
          BY <3>2 DEF Job
        <4> QED
          BY <2>3, <4>1, <4>2 DEF BillFund, BillToken
      <3>4. \A q \in Pollers : \/ job'[q] = job[q] \/ job'[q].at = "none"
                               \/ job[q].at # "none" /\ job'[q].task = job[q].task
        BY <3>2, <3>3 DEF SetJob, TypeOK
      <3>5. \A q \in Pollers :
                \/ job'[q].at = "none"
                \/ job'[q].task \in Tasks /\ Submitted(job'[q].task)
                \/ job[q].at # "none" /\ job'[q].task = job[q].task
        BY <3>4
      <3> QED
        BY <3>1, <3>5, OnlySubmittedStep
    <2>4. CASE SaveSuno(p)
      <3>1. UNCHANGED <<todo, seen, view>>
        BY <2>4 DEF SaveSuno
      <3>2. job[p].task \in Tasks /\ Submitted(job[p].task)
        BY <2>4 DEF SaveSuno, OnlySubmitted, Busy
      <3>3. \A u \in Tasks : status'[u] # "none" => status[u] # "none" \/ Submitted(u)
        BY <2>4, <3>2 DEF SaveSuno, Write, KeepRows, TypeOK
      <3>4. \A q \in Pollers : job'[q] = job[q] \/ job'[q].at = "none"
        BY <2>4 DEF SaveSuno, SetJob, NoJob, TypeOK
      <3>5. \A q \in Pollers :
                \/ job'[q].at = "none"
                \/ job'[q].task \in Tasks /\ Submitted(job'[q].task)
                \/ job[q].at # "none" /\ job'[q].task = job[q].task
        BY <3>4
      <3> QED
        BY <3>1, <3>3, <3>5, OnlySubmittedStep
    <2>5. ASSUME NEW t \in Tasks, Sweep(p, t) \/ PollVideo(p, t) \/ PollSuno(p, t)
          PROVE  OnlySubmitted'
      <3>1. UNCHANGED <<seen, view>> /\ t \in todo[p] /\ todo' = [todo EXCEPT ![p] = @ \ {t}]
        BY <2>5 DEF Sweep, PollVideo, PollSuno, Takes
      <3>2. Submitted(t)
        BY <3>1 DEF OnlySubmitted
      <3>3. \A u \in Tasks : status'[u] = status[u] \/ u = t
        BY <2>5 DEF Sweep, PollVideo, PollSuno, CasThenBill, Write, KeepRows, TypeOK
      <3>4. UNCHANGED job \/ \E j : SetJob(p, j) /\ (j.at = "none" \/ j.task = t)
        <4>1. ASSUME NEW d PROVE Bill(t, d).at = "none" \/ Bill(t, d).task = t
          BY DEF Bill, NoJob
        <4>2. ASSUME NEW st, NEW d, CasThenBill(p, t, st, d)
              PROVE  UNCHANGED job \/ \E j : SetJob(p, j) /\ (j.at = "none" \/ j.task = t)
          BY <4>1, <4>2 DEF CasThenBill
        <4>3. CASE Sweep(p, t) \/ PollVideo(p, t)
          BY <4>2, <4>3 DEF Sweep, PollVideo
        <4>4. CASE PollSuno(p, t)
          <5>1. UNCHANGED job \/ \E at, d, st, done :
                    SetJob(p, [at |-> at, task |-> t, delta |-> d, save |-> TRUE,
                               status |-> st, complete |-> done])
            BY <4>4, Zenon DEF PollSuno
          <5>2. ASSUME NEW at, NEW d, NEW st, NEW done,
                       SetJob(p, [at |-> at, task |-> t, delta |-> d, save |-> TRUE,
                                  status |-> st, complete |-> done])
                PROVE  \E j : SetJob(p, j) /\ j.task = t
            <6>1. [at |-> at, task |-> t, delta |-> d, save |-> TRUE,
                   status |-> st, complete |-> done].task = t
              OBVIOUS
            <6> QED
              BY <5>2, <6>1
          <5> QED
            BY <5>1, <5>2, Zenon
        <4> QED
          BY <2>5, <4>3, <4>4
      <3>5. \A q \in Pollers : \/ job'[q] = job[q] \/ job'[q].at = "none" \/ job'[q].task = t
        BY <3>4 DEF SetJob, TypeOK
      <3>6. \A q \in Pollers :
                \/ job'[q].at = "none"
                \/ job'[q].task \in Tasks /\ Submitted(job'[q].task)
                \/ job[q].at # "none" /\ job'[q].task = job[q].task
        BY <3>2, <3>5
      <3>7. \A q \in Pollers : todo'[q] \subseteq todo[q]
        BY <3>1 DEF TypeOK
      <3> QED
        BY <3>1, <3>2, <3>3, <3>6, <3>7, OnlySubmittedStep
    <2>6. ASSUME NEW t \in Tasks, ChannelMissing(p, t) PROVE OnlySubmitted'
      <3>1. UNCHANGED <<seen, view, job>>
        BY <2>6 DEF ChannelMissing
      <3>2. \A q \in Pollers : todo'[q] \subseteq todo[q]
        BY <2>6 DEF ChannelMissing, TypeOK
      <3>3. \A u \in Tasks : status'[u] = status[u] \/ Submitted(u)
        BY <2>6 DEF ChannelMissing, Group, OnlySubmitted
      <3> QED
        BY <3>1, <3>2, <3>3, OnlySubmittedStep
    <2>7. CASE Crash(p)
      <3>1. UNCHANGED <<status, view>>
        BY <2>7 DEF Crash, rowVars
      <3>2. \A q \in Pollers : /\ todo'[q] \subseteq todo[q]
                               /\ seen'[q] = seen[q] \/ \A t \in Tasks : seen'[q][t].status = "none"
                               /\ job'[q] = job[q] \/ job'[q].at = "none"
        BY <2>7 DEF Crash, SetJob, NoJob, NoCopy, TypeOK
      <3>3. \A q \in Pollers :
                \/ job'[q].at = "none"
                \/ job'[q].task \in Tasks /\ Submitted(job'[q].task)
                \/ job[q].at # "none" /\ job'[q].task = job[q].task
        BY <3>2
      <3> QED
        BY <3>1, <3>2, <3>3, OnlySubmittedStep
    <2> QED
      BY <1>4, <2>1, <2>2, <2>3, <2>4, <2>5, <2>6, <2>7 DEF Works
  <1> QED
    BY <1>1, <1>2, <1>3, <1>4 DEF Next

\* What the token of t lags behind by, and has not missed for good, moves with the
\* pending charge of p.
Follows(p, t) ==
    (fund'[t] - tok'[t] - missed'[t]) - (fund[t] - tok[t] - missed[t])
        = Pending(t)'[p] - Pending(t)[p]

\* The charges under way are integers.
LEMMA PendingType == ASSUME TypeOK, NEW t \in Tasks PROVE IntegerOn(Pending(t), Pollers)
  BY DEF TypeOK, Pending, IntegerOn, Job

\* When p alone takes a step that its pending charge follows, the token lags by
\* what is pending.
LEMMA LagStep ==
    ASSUME TypeOK, TypeOK', TokenLags, OnlySubmitted', NEW p \in Pollers,
           \A q \in Pollers : q # p => job'[q] = job[q],
           \A t \in Tasks : Follows(p, t)
    PROVE  TokenLags'
  <1>1. SUFFICES ASSUME NEW t \in Tasks
                 PROVE  tok'[t] + missed'[t] + SumFunctionOnSet(Pending(t)', Pollers) = fund'[t]
    BY DEF TokenLags
  <1>2. IntegerOn(Pending(t), Pollers)
    BY PendingType
  <1>3. IntegerOn(Pending(t)', Pollers)
    BY DEF TypeOK, Pending, IntegerOn, Job
  <1>4. SameOn(Pending(t), Pending(t)', Pollers \ {p})
    BY DEF SameOn, Pending
  <1>5. SumFunctionOnSet(Pending(t)', Pollers)
            = SumFunctionOnSet(Pending(t), Pollers) + (Pending(t)'[p] - Pending(t)[p])
    BY <1>2, <1>3, <1>4, SumChange, TaskAssumption
  <1>6. SumFunctionOnSet(Pending(t), Pollers) \in Int
    BY <1>2, SumType, TaskAssumption
  <1>7. Pending(t)'[p] \in Int /\ Pending(t)[p] \in Int
    BY <1>2, <1>3 DEF IntegerOn
  <1>8. /\ tok[t] \in Int /\ fund[t] \in Int /\ missed[t] \in Int
        /\ tok'[t] \in Int /\ fund'[t] \in Int /\ missed'[t] \in Int
    BY DEF TypeOK
  <1>9. tok[t] + missed[t] + SumFunctionOnSet(Pending(t), Pollers) = fund[t]
    BY DEF TokenLags
  <1>10. (fund'[t] - tok'[t] - missed'[t]) - (fund[t] - tok[t] - missed[t])
            = Pending(t)'[p] - Pending(t)[p]
    BY DEF Follows
  <1> QED
    BY <1>5, <1>6, <1>7, <1>8, <1>9, <1>10

\* A step that neither bills nor has a charge pending before or after it.
LEMMA NotBilling ==
    ASSUME TypeOK, NEW p \in Pollers, UNCHANGED <<fund, tok, missed>>,
           job'[p] = job[p] \/ (job[p].at # "token" /\ job'[p].at # "token")
    PROVE  \A t \in Tasks : Follows(p, t)
  <1>1. \A t \in Tasks : Pending(t)'[p] = Pending(t)[p]
    BY DEF Pending
  <1>2. \A t \in Tasks : /\ fund[t] \in Int /\ tok[t] \in Int /\ missed[t] \in Int
                         /\ Pending(t)[p] \in Int
    BY DEF TypeOK, Pending, Job
  <1> QED
    BY <1>1, <1>2 DEF Follows

\* A billing step of p: the pending charge appears with the funding statement
\* and goes with the token statement, charged or missed.
LEMMA BillFollows ==
    ASSUME TypeOK, OnlySubmitted, NEW p \in Pollers, BillFund(p) \/ BillToken(p), NEW t \in Tasks
    PROVE  Follows(p, t)
  <1> DEFINE share == IF t = job[p].task THEN job[p].delta ELSE 0
  <1>0. /\ job[p] \in Job /\ fund \in [Tasks -> Int] /\ tok \in [Tasks -> Int]
        /\ missed \in [Tasks -> Int] /\ job[p].delta \in Int /\ share \in Int
        /\ fund[t] \in Int /\ tok[t] \in Int /\ missed[t] \in Int
    BY DEF TypeOK, Job
  <1>1. job[p].task \in Tasks
    BY DEF OnlySubmitted, Busy, BillFund, BillToken
  <1>2. AfterBill(job[p]).at # "token"
    BY <1>0 DEF AfterBill, NoJob, Job
  <1>3. ASSUME NEW j, SetJob(p, j) PROVE job'[p] = j
    BY <1>3 DEF SetJob, TypeOK
  <1>4. CASE /\ BillFund(p) /\ fund' = [fund EXCEPT ![job[p].task] = @ + job[p].delta]
             /\ SetJob(p, [job[p] EXCEPT !.at = "token"])
    <2>1. UNCHANGED <<tok, missed>> /\ job[p].at = "fund"
      BY <1>4 DEF BillFund
    <2>2. job'[p].at = "token" /\ job'[p].task = job[p].task /\ job'[p].delta = job[p].delta
      BY <1>0, <1>3, <1>4 DEF Job
    <2>3. Pending(t)[p] = 0 /\ Pending(t)'[p] = share
      BY <2>1, <2>2 DEF Pending
    <2>4. fund'[t] = fund[t] + share
      BY <1>0, <1>4
    <2> HIDE DEF share
    <2> QED
      BY <1>0, <2>1, <2>3, <2>4 DEF Follows
  <1>5. CASE BillFund(p) /\ SetJob(p, AfterBill(job[p])) /\ UNCHANGED fund
    <2>1. UNCHANGED <<tok, missed>> /\ job[p].at = "fund"
      BY <1>5 DEF BillFund
    <2>2. Pending(t)[p] = 0 /\ Pending(t)'[p] = 0
      BY <1>2, <1>3, <1>5, <2>1 DEF Pending
    <2> QED
      BY <1>0, <1>5, <2>1, <2>2 DEF Follows
  <1>6. CASE BillToken(p)
    <2>1. UNCHANGED fund /\ job[p].at = "token"
      BY <1>6 DEF BillToken
    <2>2. Pending(t)'[p] = 0 /\ Pending(t)[p] = share
      BY <1>2, <1>3, <1>6, <2>1 DEF Pending, BillToken
    <2>3. \/ tok'[t] = tok[t] + share /\ missed'[t] = missed[t]
          \/ missed'[t] = missed[t] + share /\ tok'[t] = tok[t]
      BY <1>0, <1>6 DEF BillToken
    <2> HIDE DEF share
    <2> QED
      BY <1>0, <2>1, <2>2, <2>3 DEF Follows
  <1> QED
    BY <1>4, <1>5, <1>6 DEF BillFund

\* A crash between the two statements makes the token miss the charge.
LEMMA CrashFollows ==
    ASSUME TypeOK, OnlySubmitted, NEW p \in Pollers, Crash(p), NEW t \in Tasks
    PROVE  Follows(p, t)
  <1> DEFINE share == IF t = job[p].task THEN job[p].delta ELSE 0
  <1>0. /\ job[p] \in Job /\ missed \in [Tasks -> Int] /\ share \in Int
        /\ fund[t] \in Int /\ tok[t] \in Int /\ missed[t] \in Int
    BY DEF TypeOK, Job
  <1>1. UNCHANGED <<fund, tok>> /\ job'[p].at = "none"
    BY DEF Crash, SetJob, NoJob, TypeOK
  <1>2. CASE /\ job[p].at = "token"
             /\ missed' = [missed EXCEPT ![job[p].task] = @ + job[p].delta]
    <2>1. Pending(t)[p] = share /\ Pending(t)'[p] = 0
      BY <1>1, <1>2 DEF Pending
    <2>2. missed'[t] = missed[t] + share
      BY <1>0, <1>2
    <2> HIDE DEF share
    <2> QED
      BY <1>0, <1>1, <2>1, <2>2 DEF Follows
  <1>3. CASE job[p].at # "token" /\ UNCHANGED missed
    BY <1>1, <1>3, NotBilling
  <1> QED
    BY <1>2, <1>3 DEF Crash

\* Every step of a process keeps the lag.
LEMMA WorksLags ==
    ASSUME TypeOK, TypeOK', TokenLags, OnlySubmitted', NEW p \in Pollers, Works(p) \/ Crash(p)
    PROVE  TokenLags'
  <1>0. OnlySubmitted /\ job \in [Pollers -> Job]
    BY DEF TokenLags, TypeOK
  <1>1. CASE BillFund(p) \/ BillToken(p)
    <2>1. \A q \in Pollers : q # p => job'[q] = job[q]
      BY <1>0, <1>1 DEF BillFund, BillToken, SetJob
    <2> QED
      BY <1>0, <1>1, <2>1, BillFollows, LagStep
  <1>2. CASE Crash(p)
    <2>1. \A q \in Pollers : q # p => job'[q] = job[q]
      BY <1>0, <1>2 DEF Crash, SetJob
    <2> QED
      BY <1>0, <1>2, <2>1, CrashFollows, LagStep
  <1>3. CASE LoadTimedOut(p) \/ LoadUnfinished(p) \/ LoopEnds(p)
    <2>1. UNCHANGED <<job, fund, tok, missed>>
      BY <1>3 DEF LoadTimedOut, LoadUnfinished, LoopEnds, billVars
    <2> QED
      BY <2>1, NotBilling, LagStep
  <1>4. CASE SaveSuno(p)
    <2>1. UNCHANGED <<fund, tok, missed>> /\ job[p].at # "token" /\ job'[p].at # "token"
      BY <1>0, <1>4 DEF SaveSuno, SetJob, NoJob, billVars
    <2>2. \A q \in Pollers : q # p => job'[q] = job[q]
      BY <1>0, <1>4 DEF SaveSuno, SetJob
    <2> QED
      BY <2>1, <2>2, NotBilling, LagStep
  <1>5. ASSUME NEW t \in Tasks, Sweep(p, t) \/ PollVideo(p, t) \/ PollSuno(p, t)
        PROVE  TokenLags'
    <2>1. UNCHANGED <<fund, tok, missed>> /\ job[p].at # "token"
      BY <1>5 DEF Sweep, PollVideo, PollSuno, Takes, Busy, billVars
    <2>2. UNCHANGED job \/ \E j : SetJob(p, j) /\ j.at # "token"
      <3>1. ASSUME NEW st, NEW d, CasThenBill(p, t, st, d)
            PROVE  UNCHANGED job \/ \E j : SetJob(p, j) /\ j.at # "token"
        <4>1. Bill(t, d).at # "token"
          BY DEF Bill, NoJob
        <4> QED
          BY <3>1, <4>1 DEF CasThenBill
      <3>2. CASE Sweep(p, t) \/ PollVideo(p, t)
        BY <3>1, <3>2 DEF Sweep, PollVideo
      <3>3. CASE PollSuno(p, t)
        <4>1. UNCHANGED job \/ \E failed, d, st, done :
                    SetJob(p, [at |-> IF failed /\ quota[t] # 0 THEN "fund" ELSE "save",
                               task |-> t, delta |-> d, save |-> TRUE,
                               status |-> st, complete |-> done])
          BY <3>3, Zenon DEF PollSuno
        <4>2. ASSUME NEW failed, NEW d, NEW st, NEW done,
                     SetJob(p, [at |-> IF failed /\ quota[t] # 0 THEN "fund" ELSE "save",
                                task |-> t, delta |-> d, save |-> TRUE,
                                status |-> st, complete |-> done])
              PROVE  \E j : SetJob(p, j) /\ j.at # "token"
          <5>1. [at |-> IF failed /\ quota[t] # 0 THEN "fund" ELSE "save",
                 task |-> t, delta |-> d, save |-> TRUE,
                 status |-> st, complete |-> done].at # "token"
            OBVIOUS
          <5> QED
            BY <4>2, <5>1
        <4> QED
          BY <4>1, <4>2, Zenon
      <3> QED
        BY <1>5, <3>2, <3>3
    <2>3. /\ \A q \in Pollers : q # p => job'[q] = job[q]
          /\ job'[p] = job[p] \/ job'[p].at # "token"
      BY <1>0, <2>2 DEF SetJob
    <2> QED
      BY <2>1, <2>3, NotBilling, LagStep
  <1>6. ASSUME NEW t \in Tasks, ChannelMissing(p, t) PROVE TokenLags'
    <2>1. UNCHANGED <<job, fund, tok, missed>>
      BY <1>6 DEF ChannelMissing, billVars
    <2> QED
      BY <2>1, NotBilling, LagStep
  <1> QED
    BY <1>1, <1>2, <1>3, <1>4, <1>5, <1>6 DEF Works

\* Steps that leave the jobs and the bills alone keep the lag.
LEMMA BillsKept ==
    ASSUME TokenLags, OnlySubmitted', UNCHANGED <<job, fund, tok, missed>>
    PROVE  TokenLags'
  <1>1. \A t \in Tasks : Pending(t)' = Pending(t)
    BY DEF Pending
  <1> QED
    BY <1>1 DEF TokenLags

\* Nothing is pending for a task before its submission, whose settlement charges
\* both alike or makes the token miss the difference.
LEMMA SubmitLags ==
    ASSUME TypeOK, TokenLags, OnlySubmitted', NEW t \in Tasks, Submit(t)
    PROVE  TokenLags'
  <1>1. UNCHANGED job /\ ~Submitted(t)
    BY DEF Submit, pollVars, Submitted
  <1>2. PICK c \in Quotas, d \in Quotas :
            /\ fund' = [fund EXCEPT ![t] = c] /\ tok' = [tok EXCEPT ![t] = d]
            /\ missed' = [missed EXCEPT ![t] = c - d]
    BY SubmitCharges
  <1>3. \A u \in Tasks : Pending(u)' = Pending(u)
    BY <1>1 DEF Pending
  <1>4. SumFunctionOnSet(Pending(t), Pollers) = 0
    <2>1. \A p \in Pollers : Pending(t)[p] = 0
      BY <1>1 DEF Pending, TokenLags, OnlySubmitted, Busy
    <2> QED
      BY <2>1, SumZeros, TaskAssumption
  <1>5. tok'[t] + missed'[t] + SumFunctionOnSet(Pending(t)', Pollers) = fund'[t]
    <2>1. tok'[t] = d /\ missed'[t] = c - d /\ fund'[t] = c /\ c \in Int /\ d \in Int
      BY <1>2, TaskAssumption DEF TypeOK
    <2> QED
      BY <1>3, <1>4, <2>1
  <1>6. \A u \in Tasks : u # t => fund'[u] = fund[u] /\ tok'[u] = tok[u] /\ missed'[u] = missed[u]
    BY <1>2 DEF TypeOK
  <1>7. \A u \in Tasks :
            tok'[u] + missed'[u] + SumFunctionOnSet(Pending(u)', Pollers) = fund'[u]
    BY <1>3, <1>5, <1>6 DEF TokenLags
  <1> QED
    BY <1>7 DEF TokenLags

\* The token lags behind the funding source by what is pending, always.
LEMMA NextLags ==
    ASSUME TypeOK, TokenLags, [Next]_vars
    PROVE  TokenLags'
  <1>0. TypeOK' /\ OnlySubmitted'
    BY NextType, NextSubmitted DEF TokenLags
  <1>1. CASE UNCHANGED vars
    BY <1>0, <1>1, BillsKept DEF vars
  <1>2. ASSUME NEW t \in Tasks, TaskStep(t) PROVE TokenLags'
    <2>1. CASE Insert(t) \/ Age(t)
      <3>1. UNCHANGED <<job, fund, tok, missed>>
        BY <2>1 DEF Insert, Age, pollVars, billVars
      <3> QED
        BY <1>0, <3>1, BillsKept
    <2> QED
      BY <1>0, <1>2, <2>1, SubmitLags DEF TaskStep
  <1>3. ASSUME NEW f \in Fetches, FetchLoad(f) \/ FetchApply(f) PROVE TokenLags'
    <2>1. UNCHANGED <<job, fund, tok, missed>>
      BY <1>3 DEF FetchLoad, FetchApply, pollVars, billVars
    <2> QED
      BY <1>0, <2>1, BillsKept
  <1> QED
    BY <1>0, <1>1, <1>2, <1>3, WorksLags DEF Next

\* When no bill of a task is under way its token has been charged what its funding
\* source has, but for the token statements that failed or were not reached, the one
\* of the submission's settlement included: for every platform, any number of
\* processes billing the same task, every fault and every crash.
THEOREM TokenMirrorsFundingHolds == Spec => []TokenMirrorsFunding
  <1>1. Init => TokenLags
    <2> SUFFICES ASSUME Init PROVE TokenLags
      OBVIOUS
    <2>1. OnlySubmitted
      BY DEF Init, OnlySubmitted, Busy, NoJob, NoCopy, NoView
    <2>2. \A t \in Tasks : \A p \in Pollers : Pending(t)[p] = 0
      BY DEF Init, Pending, NoJob
    <2>3. \A t \in Tasks : SumFunctionOnSet(Pending(t), Pollers) = 0
      BY <2>2, SumZeros, TaskAssumption
    <2> QED
      BY <2>1, <2>3 DEF Init, TokenLags
  <1>2. TypeOK /\ TokenLags => TokenMirrorsFunding
    <2> SUFFICES ASSUME TypeOK, TokenLags, NEW t \in Tasks, Quiet(t)
                 PROVE  tok[t] + missed[t] = fund[t]
      BY DEF TokenMirrorsFunding
    <2>1. \A p \in Pollers : Pending(t)[p] = 0
      BY DEF Pending, Quiet, Bills, Busy
    <2>2. SumFunctionOnSet(Pending(t), Pollers) = 0
      BY <2>1, SumZeros, TaskAssumption
    <2> QED
      BY <2>2 DEF TokenLags, TypeOK
  <1>3. TypeOK /\ TokenLags /\ [Next]_vars => TokenLags'
    BY NextLags
  <1> QED
    BY <1>1, <1>2, <1>3, TypeCorrect, PTL DEF Spec

(***************************************************************************)
(* A video task is a reservation.                                          *)
(***************************************************************************)

AllAdjust == \A p \in Pollers : Adjusts(p)

\* What is left of a job adjusts the same bill by the same amount.
Continues(p) ==
    \/ ~Busy(p)'
    \/ Busy(p) /\ job'[p].task = job[p].task /\ job'[p].delta = job[p].delta

\* A job that goes on, with the quota it was made for.
LEMMA ContinuedAdjusts ==
    ASSUME NEW p \in Pollers, Adjusts(p), Continues(p),
           \A t \in Tasks : Bills(p, t) => quota'[t] = quota[t]
    PROVE  Adjusts(p)'
  <1>1. ASSUME NEW t \in Tasks, Bills(p, t)'
        PROVE  /\ job'[p].delta # 0
               /\ job'[p].delta = -quota'[t] \/ job'[p].delta \in Settlements(t)'
    <2>1. Bills(p, t) /\ job'[p].delta = job[p].delta
      BY <1>1 DEF Continues, Bills
    <2>2. quota'[t] = quota[t]
      BY <2>1
    <2>3. Settlements(t)' = Settlements(t)
      BY <2>2 DEF Settlements
    <2> QED
      BY <2>1, <2>2, <2>3 DEF Adjusts
  <1> QED
    BY <1>1 DEF Adjusts

\* The job that finishing a task starts.
LEMMA BillAdjusts ==
    ASSUME TypeOK, NEW p \in Pollers, NEW t \in Tasks, NEW st, NEW d \in Int,
           d = 0 \/ d = -quota[t] \/ d \in Settlements(t),
           CasThenBill(p, t, st, d), ~Busy(p), UNCHANGED quota
    PROVE  Adjusts(p)'
  <1>1. CASE UNCHANGED job
    BY <1>1 DEF Adjusts, Bills, Busy
  <1>2. CASE SetJob(p, Bill(t, d))
    <2>1. job'[p] = Bill(t, d)
      BY <1>2 DEF SetJob, TypeOK
    <2>2. \A u \in Tasks : Bills(p, u)' => d # 0 /\ u = t /\ job'[p].delta = d
      BY <2>1 DEF Busy, Bills, Bill, NoJob
    <2>3. Settlements(t)' = Settlements(t) /\ quota'[t] = quota[t]
      BY DEF Settlements
    <2> QED
      BY <2>2, <2>3 DEF Adjusts
  <1> QED
    BY <1>1, <1>2 DEF CasThenBill

\* A step of a process: it bills one task, or nobody.
LEMMA WorksAdjusts ==
    ASSUME TypeOK, CasBilling, CasOnly, AllAdjust, NEW p \in Pollers, Works(p) \/ Crash(p)
    PROVE  /\ AllAdjust'
           /\ UNCHANGED <<quota, submission>>
           /\ UNCHANGED fund \/ BillFund(p)
  <1>0. job \in [Pollers -> Job] /\ job[p] \in Job
    BY DEF TypeOK
  <1>1. UNCHANGED <<quota, submission>>
    BY DEF Works, Crash, LoadTimedOut, LoadUnfinished, LoopEnds, BillFund, BillToken, SaveSuno,
           Sweep, PollVideo, PollSuno, ChannelMissing, Takes, rowVars
  <1>2. UNCHANGED fund \/ BillFund(p)
    BY DEF Works, Crash, LoadTimedOut, LoadUnfinished, LoopEnds, BillToken, SaveSuno,
           Sweep, PollVideo, PollSuno, ChannelMissing, Takes, billVars
  <1>3. UNCHANGED job \/ \E j : SetJob(p, j)
    BY DEF Works, Crash, LoadTimedOut, LoadUnfinished, LoopEnds, BillFund, BillToken, SaveSuno,
           Sweep, PollVideo, PollSuno, ChannelMissing, CasThenBill
  <1>4. ASSUME NEW q \in Pollers, q # p PROVE Adjusts(q)'
    <2>1. job'[q] = job[q]
      BY <1>0, <1>3, <1>4 DEF SetJob
    <2>2. Continues(q)
      BY <2>1 DEF Continues, Busy
    <2> QED
      BY <1>1, <2>2, ContinuedAdjusts DEF AllAdjust
  <1>5. CASE UNCHANGED job
    <2>1. Continues(p)
      BY <1>5 DEF Continues, Busy
    <2> QED
      BY <1>1, <1>2, <1>4, <2>1, ContinuedAdjusts DEF AllAdjust
  <1>6. CASE BillFund(p) \/ BillToken(p) \/ Crash(p)
    <2>1. /\ job'[p] = NoJob \/ job'[p] = [job[p] EXCEPT !.at = "token"]
          /\ job'[p] # NoJob => Busy(p)
      <3>1. BillFund(p) \/ BillToken(p) => Busy(p) /\ ~job[p].save
        BY DEF CasBilling, BillsOnce, Busy, BillFund, BillToken
      <3> QED
        BY <1>0, <1>6, <3>1 DEF BillFund, BillToken, Crash, SetJob, AfterBill
    <2>2. Continues(p)
      BY <1>0, <2>1 DEF Continues, Busy, NoJob, Job
    <2> QED
      BY <1>1, <1>2, <1>4, <2>2, ContinuedAdjusts DEF AllAdjust
  <1>7. ASSUME NEW t \in Tasks, Sweep(p, t) PROVE Adjusts(p)'
    <2>1. PICK d \in Int : /\ d = 0 \/ d = -quota[t]
                           /\ CasThenBill(p, t, "FAILURE", d)
      BY <1>7 DEF Sweep, TypeOK
    <2>2. ~Busy(p)
      BY <1>7 DEF Sweep, Takes
    <2> QED
      BY <1>1, <2>1, <2>2, BillAdjusts
  <1>8. ASSUME NEW t \in Tasks, PollVideo(p, t) PROVE UNCHANGED job \/ Adjusts(p)'
    <2>1. ~Busy(p) /\ -quota[t] \in Int
      BY <1>8 DEF PollVideo, Takes, TypeOK
    <2>2. CASE CasThenBill(p, t, "FAILURE", -quota[t])
      BY <1>1, <2>1, <2>2, BillAdjusts
    <2>3. ASSUME NEW d \in Settlements(t), CasThenBill(p, t, "SUCCESS", d)
          PROVE  Adjusts(p)'
      <3>1. d \in Int
        BY SettlementType
      <3> QED
        BY <1>1, <2>1, <2>3, <3>1, BillAdjusts
    <2> QED
      BY <1>8, <2>2, <2>3 DEF PollVideo
  <1>9. ~SaveSuno(p)
    BY DEF SaveSuno, CasBilling, BillsOnce, Busy
  <1>10. ASSUME NEW t \in Tasks, PollSuno(p, t) PROVE FALSE
    BY <1>10 DEF PollSuno, CasOnly
  <1>11. ASSUME LoadTimedOut(p) \/ LoadUnfinished(p) \/ LoopEnds(p) PROVE UNCHANGED job
    BY <1>11 DEF LoadTimedOut, LoadUnfinished, LoopEnds
  <1>12. ASSUME NEW t \in Tasks, ChannelMissing(p, t) PROVE UNCHANGED job
    BY <1>12 DEF ChannelMissing
  <1>13. UNCHANGED job \/ Adjusts(p)' \/ BillFund(p) \/ BillToken(p) \/ Crash(p)
    BY <1>7, <1>8, <1>9, <1>10, <1>11, <1>12 DEF Works
  <1> QED
    BY <1>1, <1>2, <1>4, <1>5, <1>6, <1>13 DEF AllAdjust

\* A task step bills nobody; it may set the quota of a task that has no bill yet.
LEMMA TaskStepAdjusts ==
    ASSUME TypeOK, CasBilling, AllAdjust, NEW t \in Tasks, TaskStep(t)
    PROVE  AllAdjust'
  <1>1. UNCHANGED job /\ (Submit(t) \/ UNCHANGED quota)
    BY DEF TaskStep, Submit, Insert, Age, pollVars
  <1>2. ASSUME NEW u \in Tasks, NEW p \in Pollers, Bills(p, u)
        PROVE  quota'[u] = quota[u]
    <2>1. submission[u] # "new"
      <3>1. status[u] \in Final
        BY <1>2 DEF CasBilling, Unbilled, Quiet
      <3> QED
        BY <3>1 DEF CasBilling, Unbilled, Final
    <2> QED
      BY <1>1, <2>1 DEF Submit, TypeOK
  <1>3. \A p \in Pollers : Continues(p)
    BY <1>1 DEF Continues, Busy
  <1> QED
    BY <1>2, <1>3, ContinuedAdjusts DEF AllAdjust

\* Whichever step is taken, the bills that are then under way adjust a charge.
LEMMA NextAdjusts ==
    ASSUME TypeOK, CasBilling, CasOnly, AllAdjust, [Next]_vars
    PROVE  AllAdjust'
  <1>1. ASSUME NEW f \in Fetches, FetchLoad(f) \/ FetchApply(f) PROVE AllAdjust'
    <2>1. \A p \in Pollers : Continues(p)
      BY <1>1 DEF FetchLoad, FetchApply, pollVars, Continues, Busy
    <2>2. UNCHANGED quota
      BY <1>1 DEF FetchLoad, FetchApply, rowVars
    <2> QED
      BY <2>1, <2>2, ContinuedAdjusts DEF AllAdjust
  <1>2. CASE UNCHANGED vars
    <2>1. \A p \in Pollers : Continues(p)
      BY <1>2 DEF vars, Continues, Busy
    <2>2. UNCHANGED quota
      BY <1>2 DEF vars
    <2> QED
      BY <2>1, <2>2, ContinuedAdjusts DEF AllAdjust
  <1> QED
    BY <1>1, <1>2, TaskStepAdjusts, WorksAdjusts DEF Next

\* The reservation of a task whose columns do not change.
LEMMA ReservationKept ==
    ASSUME NEW t \in Tasks, fund'[t] = fund[t], quota'[t] = quota[t],
           submission'[t] = "new" <=> submission[t] = "new"
    PROVE  TaskReservation(t)' = TaskReservation(t)
  BY DEF TaskReservation, Submitted

\* The statement on the funding source releases the charge or captures it.
LEMMA BillFundReserves ==
    ASSUME TypeOK, CasBilling, AllAdjust, NEW p \in Pollers, BillFund(p), ~UNCHANGED fund,
           UNCHANGED <<quota, submission>>
    PROVE  \E t \in Tasks :
             /\ \E v \in Int : fund' = [fund EXCEPT ![t] = v]
             /\ TaskReservation(t) = "held"
             /\ \/ TaskReservation(t)' = "released" /\ fund'[t] = 0
                \/ TaskReservation(t)' = "captured" /\ fund'[t] \in Actuals
  <1>0. Busy(p) /\ job[p].task \in Tasks /\ job[p].delta \in Int
    BY DEF BillFund, Busy, CasBilling, BillsOnce, TypeOK, Job
  <1> PICK t \in Tasks, d \in Int : t = job[p].task /\ d = job[p].delta
    BY <1>0
  <1>1. fund[t] = quota[t] /\ fund[t] \in Int /\ quota[t] \in Nat
    BY <1>0 DEF BillFund, CasBilling, BillsOnce, TypeOK
  <1>2. fund' = [fund EXCEPT ![t] = fund[t] + d]
    BY DEF BillFund
  <1>3. /\ d # 0
        /\ d = -quota[t] \/ d \in Settlements(t)
    BY <1>0 DEF AllAdjust, Adjusts, Bills
  <1>4. submission[t] = "inserted"
    <2>1. status[t] \in Final
      BY <1>0 DEF CasBilling, Unbilled, Quiet, Bills
    <2> QED
      BY <2>1 DEF CasBilling, Unbilled, Final
  <1>5. fund'[t] = quota[t] + d /\ quota'[t] = quota[t] /\ submission'[t] = "inserted"
    BY <1>1, <1>2, <1>4 DEF TypeOK
  <1>6. fund[t] + d \in Int
    BY <1>1
  <1>7. TaskReservation(t) = "held"
    BY <1>1, <1>4 DEF TaskReservation, Submitted
  <1>8. CASE d = -quota[t]
    <2>1. fund'[t] = 0 /\ quota'[t] # 0
      BY <1>1, <1>3, <1>5, <1>8
    <2>2. TaskReservation(t)' = "released"
      BY <1>5, <2>1 DEF TaskReservation, Submitted
    <2> QED
      BY <1>1, <1>2, <1>6, <1>7, <2>1, <2>2
  <1>9. CASE d \in Settlements(t)
    <2>1. PICK a \in Actuals : a # 0 /\ d = a - quota[t]
      BY <1>3, <1>9 DEF Settlements
    <2>2. a \in Nat
      BY TaskAssumption
    <2>3. fund'[t] = a /\ fund'[t] # quota'[t]
      BY <1>1, <1>3, <1>5, <2>1, <2>2
    <2>4. TaskReservation(t)' = "captured"
      BY <1>5, <2>1, <2>3 DEF TaskReservation, Submitted
    <2> QED
      BY <1>1, <1>2, <1>6, <1>7, <2>3, <2>4
  <1> QED
    BY <1>3, <1>8, <1>9

\* A task that is billed through the compare-and-swap implements a reservation, for
\* any number of pollers and crashes: its funding source is debited when it is
\* submitted, and this debit is then captured at an actual quota or released in full,
\* once and for good.
THEOREM TaskReservationImplemented ==
    ASSUME CasOnly
    PROVE  Spec => ImplementsReservation
  <1> DEFINE reservation == [t \in Tasks |-> TaskReservation(t)]
  <1>1. Init => Reserved!Init
    BY DEF Init, Reserved!Init, TaskReservation, Submitted
  <1>2. ASSUME TypeOK, CasBilling, AllAdjust, [Next]_vars
        PROVE  [Reserved!Next]_(Reserved!vars)
    <2>0. fund \in [Tasks -> Int]
      BY <1>2 DEF TypeOK
    <2>1. CASE UNCHANGED <<fund, quota>> /\ \A t \in Tasks :
                    submission'[t] = "new" <=> submission[t] = "new"
      <3>1. reservation' = reservation
        BY <2>1, ReservationKept
      <3> QED
        BY <2>1, <3>1 DEF Reserved!vars
    <2>2. ASSUME NEW t \in Tasks, TaskStep(t)
          PROVE  [Reserved!Next]_(Reserved!vars)
      <3>1. CASE Submit(t)
        <4>1. PICK q \in Quotas : quota' = [quota EXCEPT ![t] = q] /\ fund' = [fund EXCEPT ![t] = q]
          BY <3>1, SubmitCharges DEF CasOnly, MayFail
        <4>2. /\ submission[t] = "new" /\ submission' = [submission EXCEPT ![t] = "settled"]
              /\ q \in Nat
          BY <3>1, TaskAssumption DEF Submit
        <4>3. /\ quota'[t] = q /\ fund'[t] = q /\ submission'[t] = "settled"
              /\ \A u \in Tasks \ {t} : /\ quota'[u] = quota[u] /\ fund'[u] = fund[u]
                                        /\ submission'[u] = submission[u]
          BY <1>2, <4>1, <4>2 DEF TypeOK
        <4>4. TaskReservation(t) = "idle" /\ TaskReservation(t)' = "held"
          BY <4>2, <4>3 DEF TaskReservation, Submitted
        <4>5. \A u \in Tasks \ {t} : TaskReservation(u)' = TaskReservation(u)
          BY <4>3, ReservationKept
        <4>6. reservation[t] = "idle" /\ reservation' = [reservation EXCEPT ![t] = "held"]
          BY <4>4, <4>5
        <4>7. fund' = [fund EXCEPT ![t] = fund'[t]] /\ fund'[t] \in Nat
          BY <4>1, <4>2, <4>3
        <4> QED
          BY <4>6, <4>7 DEF Reserved!Next, Reserved!Hold, Reserved!Move
      <3>2. CASE Insert(t) \/ Age(t)
        <4>1. UNCHANGED <<fund, quota>> /\ \A u \in Tasks :
                    submission'[u] = "new" <=> submission[u] = "new"
          BY <1>2, <3>2 DEF Insert, Age, billVars, TypeOK
        <4> QED
          BY <2>1, <4>1
      <3> QED
        BY <2>2, <3>1, <3>2 DEF TaskStep
    <2>3. ASSUME NEW p \in Pollers, Works(p) \/ Crash(p)
          PROVE  [Reserved!Next]_(Reserved!vars)
      <3>1. UNCHANGED <<quota, submission>> /\ (UNCHANGED fund \/ BillFund(p))
        BY <1>2, <2>3, WorksAdjusts
      <3>2. CASE UNCHANGED fund
        BY <2>1, <3>1, <3>2
      <3>3. CASE BillFund(p) /\ ~UNCHANGED fund
        <4>1. PICK t \in Tasks :
                /\ \E v \in Int : fund' = [fund EXCEPT ![t] = v]
                /\ TaskReservation(t) = "held"
                /\ \/ TaskReservation(t)' = "released" /\ fund'[t] = 0
                   \/ TaskReservation(t)' = "captured" /\ fund'[t] \in Actuals
          BY <1>2, <3>1, <3>3, BillFundReserves
        <4>2. fund' = [fund EXCEPT ![t] = fund'[t]] /\ \A u \in Tasks \ {t} : fund'[u] = fund[u]
          BY <2>0, <4>1
        <4>3. \A u \in Tasks \ {t} : TaskReservation(u)' = TaskReservation(u)
          BY <3>1, <4>2, ReservationKept
        <4>4. /\ reservation[t] = "held"
              /\ reservation' = [reservation EXCEPT ![t] = TaskReservation(t)']
          BY <4>1, <4>3
        <4> HIDE DEF reservation
        <4>5. CASE TaskReservation(t)' = "released" /\ fund'[t] = 0
          <5>1. Reserved!Release(t)
            BY <4>2, <4>4, <4>5 DEF reservation, Reserved!Release, Reserved!Move
          <5> QED
            BY <5>1 DEF Reserved!Next
        <4>6. CASE TaskReservation(t)' = "captured" /\ fund'[t] \in Actuals
          <5>1. Reserved!Capture(t)
            BY <4>2, <4>4, <4>6 DEF reservation, Reserved!Capture, Reserved!Move
          <5> QED
            BY <5>1 DEF Reserved!Next
        <4> QED
          BY <4>1, <4>5, <4>6
      <3> QED
        BY <3>1, <3>2, <3>3
    <2>4. ASSUME NEW f \in Fetches, FetchLoad(f) \/ FetchApply(f)
          PROVE  UNCHANGED <<fund, quota, submission>>
      BY <2>4 DEF FetchLoad, FetchApply, rowVars, billVars
    <2>5. UNCHANGED vars => UNCHANGED <<fund, quota, submission>>
      BY DEF vars
    <2> QED
      BY <1>2, <2>1, <2>2, <2>3, <2>4, <2>5 DEF Next
  <1>3. Init => AllAdjust
    BY DEF Init, AllAdjust, Adjusts, Bills, Busy, NoJob
  <1>4. TypeOK /\ CasBilling /\ AllAdjust /\ [Next]_vars => AllAdjust'
    BY NextAdjusts
  <1> QED
    BY <1>1, <1>2, <1>3, <1>4, TypeCorrect, CasBillingHolds, PTL
       DEF Spec, ImplementsReservation, Reserved!Spec
=============================================================================

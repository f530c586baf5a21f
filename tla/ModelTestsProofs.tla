-------------------------- MODULE ModelTestsProofs --------------------------
(***************************************************************************)
(* FlagHonest and SpinnerHonest for every number of channels, models and   *)
(* batches and every concurrencyLimit.  The flag is shared by all batches, *)
(* so the invariant behind it orders the calls: they are made one after    *)
(* the other, and the flag stands for the last of them.                    *)
(***************************************************************************)
EXTENDS ModelTests, TLAPS

Running == {"testing", "pausing", "settling"}

BatchRecord ==
    [at : Running \cup {"stopped", "counted"}, channel : Channels \cup {"none"},
     endpoint : EndpointTypes, len : Models, i : Nat, waiting : SUBSET Models]

TypeInv ==
    /\ dialog \in Channels \cup {"none"}
    /\ endpoint \in EndpointTypes
    /\ batch \in [Batches -> {NotCalled} \cup BatchRecord]

InOrder == \A b \in Batches : Called(b) => \A a \in Batches : a <= b => Called(a)

USE DEF Batches, Models

-----------------------------------------------------------------------------
(* Records of batches. *)

\* A group that has settled leaves the batch running or stopped.
LEMMA SettledAt ==
    ASSUME NEW s \in BatchRecord
    PROVE  /\ Settled(s) \in BatchRecord
           /\ Settled(s).at \in Running \cup {"stopped"}
  <1>1. CASE shouldStop
    <2>1. Settled(s) = [s EXCEPT !.at = "stopped"]
      BY <1>1 DEF Settled
    <2> QED
      BY <2>1 DEF BatchRecord
  <1>2. CASE ~shouldStop
    <2>1. \/ Settled(s) = [s EXCEPT !.at = "pausing"]
          \/ Settled(s) = [s EXCEPT !.at = "settling"]
      BY <1>2 DEF Settled
    <2> QED
      BY <2>1 DEF BatchRecord, Running
  <1> QED
    BY <1>1, <1>2

\* The first group, and the next ones.
LEMMA SentRecord ==
    ASSUME NEW c \in Channels \cup {"none"}, NEW e \in EndpointTypes, NEW len \in Models,
           NEW i \in Nat
    PROVE  /\ Sent(c, e, len, i) \in BatchRecord
           /\ Sent(c, e, len, i).at = "testing"
           /\ Sent(c, e, len, i).waiting = Group(i, len)
  BY DEF Sent, BatchRecord, Running, Group

LEMMA StoppedRecord ==
    ASSUME NEW s \in BatchRecord, NEW at \in Running \cup {"stopped", "counted"}
    PROVE  [s EXCEPT !.at = at] \in BatchRecord /\ [s EXCEPT !.at = at].at = at
  BY DEF BatchRecord

LEMMA CalledRecord ==
    ASSUME TypeInv, NEW b \in Batches
    PROVE  /\ Called(b) <=> batch[b] \in BatchRecord
           /\ ~Called(b) <=> batch[b] = NotCalled
  <1>1. batch[b] = NotCalled \/ batch[b] \in BatchRecord
    BY DEF TypeInv
  <1>2. NotCalled.at = "not called"
    BY DEF NotCalled
  <1>3. \A s \in BatchRecord : s.at # "not called"
    BY DEF BatchRecord, Running
  <1> QED
    BY <1>1, <1>2, <1>3 DEF Called

-----------------------------------------------------------------------------
(* What an answer does to the batches. *)

\* The batches that wait for the answer, and what becomes of them.
Waiting(c, m, e) ==
    {b \in Batches : m \in BatchTests(b) /\ batch[b].channel = c /\ batch[b].endpoint = e}

Less(b, m) == [batch[b] EXCEPT !.waiting = @ \ {m}]

AfterAnswer(b, m) == IF Less(b, m).waiting = {} THEN Settled(Less(b, m)) ELSE Less(b, m)

LEMMA LessRecord ==
    ASSUME TypeInv, NEW b \in Batches, NEW m, batch[b].at = "testing"
    PROVE  /\ Less(b, m) \in BatchRecord
           /\ Less(b, m).at = "testing"
           /\ Less(b, m).waiting = batch[b].waiting \ {m}
  <1>1. Called(b)
    BY DEF Called
  <1>2. batch[b] \in BatchRecord
    BY <1>1, CalledRecord
  <1> QED
    BY <1>2 DEF Less, BatchRecord

LEMMA AfterRecord ==
    ASSUME TypeInv, NEW b \in Batches, NEW m, batch[b].at = "testing"
    PROVE  /\ AfterAnswer(b, m) \in BatchRecord
           /\ AfterAnswer(b, m).at \in Running \cup {"stopped"}
           /\ \A k \in batch[b].waiting \ {m} :
                 AfterAnswer(b, m).at = "testing" /\ k \in AfterAnswer(b, m).waiting
  <1>1. /\ Less(b, m) \in BatchRecord
        /\ Less(b, m).at = "testing"
        /\ Less(b, m).waiting = batch[b].waiting \ {m}
    BY LessRecord
  <1>2. CASE Less(b, m).waiting = {}
    <2>1. AfterAnswer(b, m) = Settled(Less(b, m))
      BY <1>2 DEF AfterAnswer
    <2> QED
      BY <1>1, <1>2, <2>1, SettledAt
  <1>3. CASE Less(b, m).waiting # {}
    <2>1. AfterAnswer(b, m) = Less(b, m)
      BY <1>3 DEF AfterAnswer
    <2> QED
      BY <1>1, <2>1 DEF Running
  <1> QED
    BY <1>2, <1>3

\* A step of Answer, without its flags.
LEMMA AnswerBatches ==
    ASSUME NEW c \in Channels, NEW m \in Models, NEW e \in EndpointTypes,
           NEW fails \in BOOLEAN, Answer(c, m, e, fails)
    PROVE  /\ batch' = [b \in Batches |-> IF b \in Waiting(c, m, e) THEN AfterAnswer(b, m)
                                           ELSE batch[b]]
           /\ testingModels' = testingModels \ {m}
           /\ UNCHANGED <<dialog, endpoint>>
  BY Zenon DEF Answer, Waiting, AfterAnswer, Less

LEMMA AnswerFlag ==
    ASSUME NEW c \in Channels, NEW m \in Models, NEW e \in EndpointTypes,
           NEW fails \in BOOLEAN, Answer(c, m, e, fails), isBatchTesting'
    PROVE  isBatchTesting /\ \A b \in Waiting(c, m, e) : batch'[b].at # "stopped"
  BY Zenon DEF Answer, Waiting

LEMMA WaitingTests ==
    ASSUME NEW c, NEW m, NEW e, NEW b \in Waiting(c, m, e)
    PROVE  b \in Batches /\ batch[b].at = "testing" /\ m \in batch[b].waiting
  BY DEF Waiting, BatchTests

-----------------------------------------------------------------------------
(* The steps, by what they do to the batches. *)

\* One batch of the called ones changes.
LEMMA OneChanges ==
    ASSUME TypeInv, InOrder, NEW b \in Batches, Called(b), NEW s \in BatchRecord,
           batch' = [batch EXCEPT ![b] = s], UNCHANGED <<dialog, endpoint>>
    PROVE  /\ TypeInv' /\ InOrder'
           /\ \A a \in Batches : Called(a)' <=> Called(a)
           /\ batch'[b] = s
           /\ \A a \in Batches \ {b} : batch'[a] = batch[a]
  <1>1. TypeInv'
    BY DEF TypeInv
  <1>2. batch'[b] = s /\ \A a \in Batches \ {b} : batch'[a] = batch[a]
    BY DEF TypeInv
  <1>3. s.at # "not called"
    BY DEF BatchRecord, Running
  <1>4. \A a \in Batches : Called(a)' <=> Called(a)
    BY <1>2, <1>3 DEF Called
  <1>5. InOrder'
    BY <1>4 DEF InOrder
  <1> QED
    BY <1>1, <1>2, <1>4, <1>5

\* The pause ends in a stop or in the next group.
LEMMA PauseRecord ==
    ASSUME TypeInv, NEW b \in Batches, PauseEnds(b)
    PROVE  /\ Called(b) /\ batch[b].at = "pausing" /\ UNCHANGED <<dialog, endpoint>>
           /\ \/ /\ batch' = [batch EXCEPT ![b] = [batch[b] EXCEPT !.at = "stopped"]]
                 /\ ~isBatchTesting'
                 /\ UNCHANGED testingModels
              \/ \E s \in BatchRecord :
                    /\ batch' = [batch EXCEPT ![b] = s]
                    /\ s.at = "testing"
                    /\ testingModels' = testingModels \cup s.waiting
                    /\ isBatchTesting' = isBatchTesting
  <1>1. batch[b].at = "pausing" /\ UNCHANGED <<dialog, endpoint>>
    BY Zenon DEF PauseEnds
  <1>2. Called(b)
    BY <1>1 DEF Called
  <1>3. batch[b] \in BatchRecord
    BY <1>2, CalledRecord
  <1> DEFINE i == batch[b].i + concurrencyLimit
             s == Sent(batch[b].channel, batch[b].endpoint, batch[b].len, i)
  <1>4. /\ batch[b].channel \in Channels \cup {"none"} /\ batch[b].endpoint \in EndpointTypes
        /\ batch[b].len \in Models /\ i \in Nat
    BY <1>3, TestsAssumption DEF BatchRecord
  <1>5. s \in BatchRecord /\ s.at = "testing" /\ s.waiting = Group(i, batch[b].len)
    BY <1>4, SentRecord
  <1>6. \/ /\ batch' = [batch EXCEPT ![b] = [batch[b] EXCEPT !.at = "stopped"]]
           /\ ~isBatchTesting'
           /\ UNCHANGED testingModels
        \/ /\ batch' = [batch EXCEPT ![b] = s]
           /\ testingModels' = testingModels \cup Group(i, batch[b].len)
           /\ isBatchTesting' = isBatchTesting
    BY Zenon DEF PauseEnds
  <1> HIDE DEF s, i
  <1> QED
    BY <1>1, <1>2, <1>5, <1>6, Zenon

\* The call that starts a batch.
LEMMA StartRecord ==
    ASSUME TypeInv, InOrder, NEW b \in Batches, NEW len \in Models, BatchTestModels(b, len)
    PROVE  /\ TypeInv' /\ InOrder'
           /\ batch'[b].at = "testing"
           /\ batch'[b].waiting = Group(1, len)
           /\ \A a \in Batches \ {b} : batch'[a] = batch[a]
           /\ \A a \in Batches : Called(a)' => a <= b
           /\ testingModels' = testingModels \cup Group(1, len)
           /\ ~Called(b) /\ click' = click
  <1> DEFINE s == Sent(dialog, endpoint, len, 1)
  <1>1. /\ batch' = [batch EXCEPT ![b] = s] /\ UNCHANGED <<dialog, endpoint>> /\ click' = click
        /\ batch[b] = NotCalled /\ (b > 1 => batch[b - 1] # NotCalled)
        /\ testingModels' = testingModels \cup Group(1, len)
    BY Zenon DEF BatchTestModels
  <1>2. s \in BatchRecord /\ s.at = "testing" /\ s.waiting = Group(1, len)
    BY SentRecord DEF TypeInv
  <1> HIDE DEF s
  <1>3. TypeInv'
    BY <1>1, <1>2 DEF TypeInv
  <1>4. batch'[b] = s /\ \A a \in Batches \ {b} : batch'[a] = batch[a]
    BY <1>1 DEF TypeInv
  <1>5. ~Called(b) /\ (b > 1 => Called(b - 1))
    <2>1. b > 1 => b - 1 \in Batches
      BY TestsAssumption
    <2> QED
      BY <1>1, <2>1, CalledRecord
  <1>6. \A a \in Batches : Called(a) => a < b
    BY <1>5 DEF InOrder
  <1>7. \A a \in Batches : a < b => Called(a)
    <2> SUFFICES ASSUME NEW a \in Batches, a < b PROVE Called(a)
      OBVIOUS
    <2>1. b > 1 /\ b - 1 \in Batches /\ a <= b - 1
      BY TestsAssumption
    <2> QED
      BY <2>1, <1>5 DEF InOrder
  <1>8. \A a \in Batches : Called(a)' <=> (Called(a) \/ a = b)
    BY <1>2, <1>4 DEF Called
  <1>9. InOrder'
    BY <1>6, <1>7, <1>8 DEF InOrder
  <1> QED
    BY <1>1, <1>2, <1>3, <1>4, <1>5, <1>6, <1>8, <1>9

-----------------------------------------------------------------------------
(* The invariants. *)

TestsInv == TypeInv /\ InOrder /\ FlagHonest

\* The calls are ordered from the start.
LEMMA InitTests == Init => TestsInv /\ SpinnerHonest
  <1> SUFFICES ASSUME Init PROVE TestsInv /\ SpinnerHonest
    OBVIOUS
  <1>1. TypeInv
    BY TestsAssumption DEF Init, TypeInv
  <1>2. ASSUME NEW b \in Batches PROVE ~Called(b)
    BY <1>2 DEF Init, Called, NotCalled
  <1>3. InOrder
    BY <1>2 DEF InOrder
  <1>4. FlagHonest
    BY Zenon DEF Init, FlagHonest
  <1>5. SpinnerHonest
    BY DEF Init, SpinnerHonest
  <1> QED
    BY <1>1, <1>3, <1>4, <1>5 DEF TestsInv

\* Steps that leave the batches alone.
LEMMA SameBatches ==
    ASSUME TestsInv, UNCHANGED batch, isBatchTesting' => isBatchTesting,
           dialog' \in Channels \cup {"none"}, endpoint' \in EndpointTypes
    PROVE  TestsInv'
  <1>1. TypeInv'
    BY DEF TestsInv, TypeInv
  <1>2. InOrder'
    BY DEF TestsInv, InOrder, Called
  <1>3. FlagHonest'
    BY Zenon DEF TestsInv, FlagHonest, Alive, Called
  <1> QED
    BY <1>1, <1>2, <1>3 DEF TestsInv

\* The user's steps.
LEMMA UserTests ==
    ASSUME TestsInv,
           \/ \E c \in Channels : OpenDialog(c)
           \/ \E e \in EndpointTypes : SelectEndpoint(e)
           \/ HandleCloseModal
           \/ \E n \in Clicks, m \in Models : TestChannel(n, m)
    PROVE  TestsInv'
  <1>0. dialog \in Channels \cup {"none"} /\ endpoint \in EndpointTypes
    BY DEF TestsInv, TypeInv
  <1>1. ASSUME NEW c \in Channels, OpenDialog(c) PROVE TestsInv'
    <2>1. UNCHANGED <<batch, isBatchTesting, endpoint>> /\ dialog' = c
      BY <1>1, Zenon DEF OpenDialog
    <2> QED
      BY <1>0, <2>1, SameBatches, Zenon
  <1>2. ASSUME NEW e \in EndpointTypes, SelectEndpoint(e) PROVE TestsInv'
    <2>1. UNCHANGED <<batch, isBatchTesting, dialog>> /\ endpoint' = e
      BY <1>2, Zenon DEF SelectEndpoint
    <2> QED
      BY <1>0, <2>1, SameBatches, Zenon
  <1>3. CASE HandleCloseModal
    <2>1. UNCHANGED batch /\ ~isBatchTesting' /\ dialog' = "none" /\ endpoint' = auto
      BY <1>3, Zenon DEF HandleCloseModal
    <2>2. auto \in EndpointTypes
      BY TestsAssumption
    <2> QED
      BY <2>1, <2>2, SameBatches, Zenon
  <1>4. ASSUME NEW n \in Clicks, NEW m \in Models, TestChannel(n, m) PROVE TestsInv'
    <2>1. UNCHANGED <<batch, isBatchTesting, dialog, endpoint>>
      BY <1>4, Zenon DEF TestChannel
    <2> QED
      BY <1>0, <2>1, SameBatches, Zenon
  <1> QED
    BY <1>1, <1>2, <1>3, <1>4, Zenon

\* A batch starts: it is the last one, and it runs.
LEMMA StartTests ==
    ASSUME TestsInv, NEW b \in Batches, NEW len \in Models, BatchTestModels(b, len)
    PROVE  TestsInv'
  <1>1. /\ TypeInv' /\ InOrder' /\ batch'[b].at = "testing"
        /\ \A a \in Batches : Called(a)' => a <= b
    BY StartRecord DEF TestsInv
  <1>2. Alive(b)'
    BY <1>1 DEF Alive
  <1>3. FlagHonest'
    BY <1>1, <1>2, Zenon DEF FlagHonest
  <1> QED
    BY <1>1, <1>3 DEF TestsInv

\* An answer: the last batch runs on, or it has cleared the flag.
LEMMA AnswerTests ==
    ASSUME TestsInv, NEW c \in Channels, NEW m \in Models, NEW e \in EndpointTypes,
           NEW fails \in BOOLEAN, Answer(c, m, e, fails)
    PROVE  TestsInv'
  <1>1. /\ batch' = [b \in Batches |-> IF b \in Waiting(c, m, e) THEN AfterAnswer(b, m)
                                        ELSE batch[b]]
        /\ UNCHANGED <<dialog, endpoint>>
    BY AnswerBatches
  <1>2. TypeInv
    BY DEF TestsInv
  <1>3. ASSUME NEW b \in Waiting(c, m, e)
        PROVE  /\ b \in Batches /\ batch[b].at = "testing"
               /\ AfterAnswer(b, m) \in BatchRecord
               /\ AfterAnswer(b, m).at \in Running \cup {"stopped"}
    BY <1>2, WaitingTests, AfterRecord
  <1>4. TypeInv'
    BY <1>1, <1>2, <1>3 DEF TypeInv
  <1>5. ASSUME NEW b \in Batches PROVE Called(b)' <=> Called(b)
    <2>1. CASE b \in Waiting(c, m, e)
      BY <1>1, <1>3, <2>1 DEF Called, Running
    <2>2. CASE b \notin Waiting(c, m, e)
      BY <1>1, <2>2 DEF Called
    <2> QED
      BY <2>1, <2>2
  <1>6. InOrder'
    BY <1>5 DEF TestsInv, InOrder
  <1>7. FlagHonest'
    <2> SUFFICES ASSUME isBatchTesting'
                 PROVE  \E b \in Batches :
                            Alive(b)' /\ \A other \in Batches : Called(other)' => other <= b
      BY Zenon DEF FlagHonest
    <2>1. isBatchTesting /\ \A b \in Waiting(c, m, e) : batch'[b].at # "stopped"
      BY AnswerFlag
    <2>2. PICK b \in Batches : Alive(b) /\ \A other \in Batches : Called(other) => other <= b
      BY <2>1, Zenon DEF TestsInv, FlagHonest
    <2>3. Alive(b)'
      <3>1. CASE b \in Waiting(c, m, e)
        <4>1. batch'[b] = AfterAnswer(b, m)
          BY <1>1, <3>1
        <4>2. batch'[b].at # "stopped"
          BY <2>1, <3>1, Zenon
        <4> QED
          BY <4>1, <4>2, <1>3, <3>1 DEF Alive, Running
      <3>2. CASE b \notin Waiting(c, m, e)
        BY <1>1, <2>2, <3>2 DEF Alive
      <3> QED
        BY <3>1, <3>2
    <2> QED
      BY <1>5, <2>2, <2>3, Zenon
  <1> QED
    BY <1>4, <1>6, <1>7 DEF TestsInv

\* The pause is over.
LEMMA PauseTests ==
    ASSUME TestsInv, NEW b \in Batches, PauseEnds(b)
    PROVE  TestsInv'
  <1>0. TypeInv /\ InOrder
    BY DEF TestsInv
  <1>1. Called(b) /\ batch[b].at = "pausing" /\ UNCHANGED <<dialog, endpoint>>
    BY <1>0, PauseRecord
  <1>2. CASE /\ batch' = [batch EXCEPT ![b] = [batch[b] EXCEPT !.at = "stopped"]]
             /\ ~isBatchTesting'
    <2>1. [batch[b] EXCEPT !.at = "stopped"] \in BatchRecord
      BY <1>0, <1>1, CalledRecord, StoppedRecord
    <2>2. TypeInv' /\ InOrder'
      BY <1>0, <1>1, <1>2, <2>1, OneChanges
    <2>3. FlagHonest'
      BY <1>2, Zenon DEF FlagHonest
    <2> QED
      BY <2>2, <2>3 DEF TestsInv
  <1>3. ASSUME NEW s \in BatchRecord, batch' = [batch EXCEPT ![b] = s], s.at = "testing",
               isBatchTesting' = isBatchTesting
        PROVE  TestsInv'
    <2>1. /\ TypeInv' /\ InOrder' /\ batch'[b] = s
          /\ \A a \in Batches : Called(a)' <=> Called(a)
          /\ \A a \in Batches \ {b} : batch'[a] = batch[a]
      BY <1>0, <1>1, <1>3, OneChanges
    <2>2. \A a \in Batches : Alive(a) => Alive(a)'
      BY <2>1, <1>3 DEF Alive
    <2>3. FlagHonest'
      BY <1>3, <2>1, <2>2, Zenon DEF TestsInv, FlagHonest
    <2> QED
      BY <2>1, <2>3 DEF TestsInv
  <1> QED
    BY <1>0, <1>2, <1>3, PauseRecord, Zenon

\* The results are counted.
LEMMA CountTests ==
    ASSUME TestsInv, NEW b \in Batches, CountResults(b)
    PROVE  TestsInv'
  <1>0. TypeInv /\ InOrder
    BY DEF TestsInv
  <1>1. /\ batch[b].at = "settling" /\ UNCHANGED <<dialog, endpoint>>
        /\ batch' = [batch EXCEPT ![b] = [batch[b] EXCEPT !.at = "counted"]]
        /\ ~isBatchTesting'
    BY Zenon DEF CountResults
  <1>2. Called(b)
    BY <1>1 DEF Called
  <1>3. [batch[b] EXCEPT !.at = "counted"] \in BatchRecord
    BY <1>0, <1>2, CalledRecord, StoppedRecord
  <1>4. TypeInv' /\ InOrder'
    BY <1>0, <1>1, <1>2, <1>3, OneChanges
  <1>5. FlagHonest'
    BY <1>1, Zenon DEF FlagHonest
  <1> QED
    BY <1>4, <1>5 DEF TestsInv

LEMMA TestsStep ==
    ASSUME TestsInv, [Next]_vars
    PROVE  TestsInv'
  <1>1. CASE UNCHANGED vars
    <2>1. UNCHANGED <<batch, isBatchTesting, dialog, endpoint>>
      BY <1>1, Zenon DEF vars
    <2>2. dialog \in Channels \cup {"none"} /\ endpoint \in EndpointTypes
      BY DEF TestsInv, TypeInv
    <2> QED
      BY <2>1, <2>2, SameBatches, Zenon
  <1>2. CASE Next
    BY <1>2, UserTests, StartTests, AnswerTests, PauseTests, CountTests, Zenon
    DEF Next, Callback
  <1> QED
    BY <1>1, <1>2, Zenon

\* The flag that disables the button stands for the batch that was started last, whatever
\* earlier batches, resumed or stopped, do to it.
THEOREM TestsFlagHonest == Spec => []FlagHonest
  <1>1. Init => TestsInv
    BY InitTests, Zenon
  <1>2. TestsInv /\ [Next]_vars => TestsInv'
    BY TestsStep, Zenon
  <1>3. TestsInv => FlagHonest
    BY Zenon DEF TestsInv
  <1> QED
    BY <1>1, <1>2, <1>3, PTL DEF Spec

-----------------------------------------------------------------------------
(* Spinners. *)

\* The tests of rows that wait.
Clicked(m) == \E n \in Clicks : click[n].at = "testing" /\ click[n].model = m
Batched(m) == \E b \in Batches : batch[b].at = "testing" /\ m \in batch[b].waiting

ClickInv == DOMAIN click = Clicks

LEMMA PendingParts ==
    ASSUME NEW m PROVE Pending(m) <=> Batched(m) \/ Clicked(m)
  BY DEF Pending, BatchTests, Batched, Clicked

LEMMA PendingPartsNext ==
    ASSUME NEW m PROVE Pending(m)' <=> Batched(m)' \/ Clicked(m)'
  BY DEF Pending, BatchTests, Batched, Clicked

\* An answer ends the tests of its own model only.
LEMMA AnswerSpins ==
    ASSUME TypeInv, NEW c \in Channels, NEW m \in Models, NEW e \in EndpointTypes,
           NEW fails \in BOOLEAN, Answer(c, m, e, fails), SpinnerHonest
    PROVE  SpinnerHonest'
  <1>1. /\ batch' = [b \in Batches |-> IF b \in Waiting(c, m, e) THEN AfterAnswer(b, m)
                                        ELSE batch[b]]
        /\ testingModels' = testingModels \ {m}
    BY AnswerBatches
  <1>2. \A n \in Clicks : click'[n] = click[n] \/ click[n].model = m
    <2>1. PICK alone : /\ alone = {n \in Clicks : click[n].at = "testing" /\ click[n].channel = c
                                        /\ click[n].model = m /\ click[n].endpoint = e}
                       /\ click' = [n \in Clicks |-> IF n \in alone
                                        THEN [click[n] EXCEPT !.at = "settled"] ELSE click[n]]
      BY Zenon DEF Answer
    <2> QED
      BY <2>1
  <1>3. ASSUME NEW k \in testingModels' PROVE Pending(k)'
    <2>1. k \in testingModels /\ k # m
      BY <1>1
    <2>2. Batched(k) \/ Clicked(k)
      BY <2>1, PendingParts DEF SpinnerHonest
    <2>3. CASE Batched(k)
      <3>1. PICK b \in Batches : batch[b].at = "testing" /\ k \in batch[b].waiting
        BY <2>3 DEF Batched
      <3>2. batch'[b].at = "testing" /\ k \in batch'[b].waiting
        <4>1. CASE b \in Waiting(c, m, e)
          BY <1>1, <2>1, <3>1, <4>1, AfterRecord
        <4>2. CASE b \notin Waiting(c, m, e)
          BY <1>1, <3>1, <4>2
        <4> QED
          BY <4>1, <4>2
      <3> QED
        BY <3>2, PendingPartsNext DEF Batched
    <2>4. CASE Clicked(k)
      <3>1. PICK n \in Clicks : click[n].at = "testing" /\ click[n].model = k
        BY <2>4 DEF Clicked
      <3>2. click'[n] = click[n]
        BY <1>2, <2>1, <3>1
      <3> QED
        BY <3>1, <3>2, PendingPartsNext DEF Clicked
    <2> QED
      BY <2>2, <2>3, <2>4
  <1> QED
    BY <1>3 DEF SpinnerHonest

\* Any other step leaves the tests that wait alone, and marks the ones it starts.
LEMMA OthersSpin ==
    ASSUME SpinnerHonest, NEW more,
           testingModels' = testingModels \cup more,
           \A k \in more : Batched(k)' \/ Clicked(k)',
           \A k : Batched(k) => Batched(k)',
           \A k : Clicked(k) => Clicked(k)'
    PROVE  SpinnerHonest'
  BY PendingParts, PendingPartsNext DEF SpinnerHonest

\* Steps that change no test.
LEMMA NoTestSpins ==
    ASSUME SpinnerHonest, UNCHANGED <<batch, click>>, testingModels' \subseteq testingModels
    PROVE  SpinnerHonest'
  BY DEF SpinnerHonest, Pending, BatchTests

\* One batch that waits for nothing changes.
LEMMA BatchSpins ==
    ASSUME SpinnerHonest, TypeInv, NEW b \in Batches, batch[b].at # "testing", NEW s,
           batch' = [batch EXCEPT ![b] = s], UNCHANGED click, NEW more,
           testingModels' = testingModels \cup more,
           more = {} \/ (s.at = "testing" /\ more = s.waiting)
    PROVE  SpinnerHonest'
  <1>1. batch'[b] = s /\ \A a \in Batches \ {b} : batch'[a] = batch[a]
    BY DEF TypeInv
  <1>2. \A k : Batched(k) => Batched(k)'
    BY <1>1 DEF Batched
  <1>3. \A k : Clicked(k) => Clicked(k)'
    BY DEF Clicked
  <1>4. \A k \in more : Batched(k)'
    BY <1>1 DEF Batched
  <1> QED
    BY <1>2, <1>3, <1>4, OthersSpin

\* A test of one row.
LEMMA ClickSpins ==
    ASSUME SpinnerHonest, ClickInv, NEW n \in Clicks, NEW m \in Models, TestChannel(n, m)
    PROVE  SpinnerHonest'
  <1>1. PICK s : /\ click' = [click EXCEPT ![n] = s]
                 /\ s = [at |-> "testing", channel |-> dialog, model |-> m,
                         endpoint |-> endpoint, inBatch |-> isBatchTesting]
    BY Zenon DEF TestChannel
  <1>2. /\ UNCHANGED batch /\ click[n] = NotCalled
        /\ testingModels' = testingModels \cup {m}
    BY Zenon DEF TestChannel
  <1>3. s.at = "testing" /\ s.model = m
    BY <1>1, Zenon
  <1>4. click'[n] = s /\ \A k \in Clicks \ {n} : click'[k] = click[k]
    BY <1>1 DEF ClickInv
  <1>5. click[n].at # "testing"
    <2>1. NotCalled.at = "not called"
      BY Zenon DEF NotCalled
    <2>2. click[n].at = "not called"
      BY <1>2, <2>1, Zenon
    <2> QED
      BY <2>2
  <1>6. \A k : Clicked(k) => Clicked(k)'
    BY <1>4, <1>5 DEF Clicked
  <1>7. \A k : Batched(k) => Batched(k)'
    BY <1>2 DEF Batched
  <1>8. \A k \in {m} : Clicked(k)'
    BY <1>3, <1>4 DEF Clicked
  <1>9. PICK more : more = {m}
    OBVIOUS
  <1>10. testingModels' = testingModels \cup more
    BY <1>2, <1>9
  <1>11. \A k \in more : Batched(k)' \/ Clicked(k)'
    BY <1>8, <1>9
  <1> QED
    BY <1>6, <1>7, <1>10, <1>11, OthersSpin

LEMMA SpinStep ==
    ASSUME TestsInv, ClickInv, SpinnerHonest, [Next]_vars
    PROVE  SpinnerHonest'
  <1>0. TypeInv /\ InOrder
    BY DEF TestsInv
  <1>1. ASSUME \/ \E c \in Channels : OpenDialog(c)
               \/ \E e \in EndpointTypes : SelectEndpoint(e)
               \/ HandleCloseModal
               \/ UNCHANGED vars
        PROVE  SpinnerHonest'
    <2>1. UNCHANGED <<batch, click>> /\ (testingModels' = testingModels \/ testingModels' = {})
      BY <1>1, Zenon DEF OpenDialog, SelectEndpoint, HandleCloseModal, vars
    <2> QED
      BY <2>1, NoTestSpins
  <1>2. ASSUME NEW n \in Clicks, NEW m \in Models, TestChannel(n, m) PROVE SpinnerHonest'
    BY <1>2, ClickSpins
  <1>3. ASSUME NEW b \in Batches, NEW len \in Models, BatchTestModels(b, len)
        PROVE  SpinnerHonest'
    <2>1. /\ batch'[b].at = "testing" /\ batch'[b].waiting = Group(1, len)
          /\ testingModels' = testingModels \cup Group(1, len)
          /\ \A a \in Batches \ {b} : batch'[a] = batch[a]
          /\ ~Called(b) /\ click' = click
      BY <1>0, <1>3, StartRecord
    <2>2. batch[b].at # "testing"
      BY <2>1 DEF Called
    <2>3. \A k : Batched(k) => Batched(k)'
      BY <2>1, <2>2 DEF Batched
    <2>4. \A k : Clicked(k) => Clicked(k)'
      BY <2>1 DEF Clicked
    <2>5. \A k \in Group(1, len) : Batched(k)'
      BY <2>1 DEF Batched
    <2> QED
      BY <2>1, <2>3, <2>4, <2>5, OthersSpin
  <1>4. ASSUME NEW c \in Channels, NEW m \in Models, NEW e \in EndpointTypes,
               NEW fails \in BOOLEAN, Answer(c, m, e, fails)
        PROVE  SpinnerHonest'
    BY <1>0, <1>4, AnswerSpins
  <1>5. ASSUME NEW b \in Batches, PauseEnds(b) PROVE SpinnerHonest'
    <2>1. batch[b].at = "pausing" /\ UNCHANGED click
      BY <1>5, Zenon DEF PauseEnds
    <2>2. CASE /\ batch' = [batch EXCEPT ![b] = [batch[b] EXCEPT !.at = "stopped"]]
               /\ UNCHANGED testingModels
      <3>1. testingModels' = testingModels \cup {}
        BY <2>2
      <3> QED
        BY <1>0, <2>1, <2>2, <3>1, BatchSpins
    <2>3. ASSUME NEW s \in BatchRecord, batch' = [batch EXCEPT ![b] = s], s.at = "testing",
                 testingModels' = testingModels \cup s.waiting
          PROVE  SpinnerHonest'
      BY <1>0, <2>1, <2>3, BatchSpins
    <2> QED
      BY <1>0, <1>5, <2>2, <2>3, PauseRecord, Zenon
  <1>6. ASSUME NEW b \in Batches, CountResults(b) PROVE SpinnerHonest'
    <2>1. /\ batch[b].at = "settling" /\ UNCHANGED click /\ UNCHANGED testingModels
          /\ batch' = [batch EXCEPT ![b] = [batch[b] EXCEPT !.at = "counted"]]
      BY <1>6, Zenon DEF CountResults
    <2>2. testingModels' = testingModels \cup {}
      BY <2>1
    <2> QED
      BY <1>0, <2>1, <2>2, BatchSpins
  <1> QED
    BY <1>1, <1>2, <1>3, <1>4, <1>5, <1>6, Zenon DEF Next, Callback

LEMMA ClickStep ==
    ASSUME ClickInv, [Next]_vars
    PROVE  ClickInv'
  <1>1. ASSUME UNCHANGED click PROVE ClickInv'
    BY <1>1 DEF ClickInv
  <1>2. ASSUME NEW n \in Clicks, NEW m \in Models, TestChannel(n, m) PROVE ClickInv'
    <2>1. PICK s : click' = [click EXCEPT ![n] = s]
      BY <1>2, Zenon DEF TestChannel
    <2> QED
      BY <2>1 DEF ClickInv
  <1>3. ASSUME NEW c \in Channels, NEW m \in Models, NEW e \in EndpointTypes,
               NEW fails \in BOOLEAN, Answer(c, m, e, fails)
        PROVE  ClickInv'
    <2>1. PICK alone : click' = [n \in Clicks |-> IF n \in alone
                                   THEN [click[n] EXCEPT !.at = "settled"] ELSE click[n]]
      BY <1>3, Zenon DEF Answer
    <2> QED
      BY <2>1 DEF ClickInv
  <1>4. ASSUME \/ \E c \in Channels : OpenDialog(c)
               \/ \E e \in EndpointTypes : SelectEndpoint(e)
               \/ HandleCloseModal
               \/ \E b \in Batches, len \in Models : BatchTestModels(b, len)
               \/ \E b \in Batches : PauseEnds(b) \/ CountResults(b)
               \/ UNCHANGED vars
        PROVE  UNCHANGED click
    BY <1>4, Zenon DEF OpenDialog, SelectEndpoint, HandleCloseModal, BatchTestModels,
                       PauseEnds, CountResults, vars
  <1> QED
    BY <1>1, <1>2, <1>3, <1>4, Zenon DEF Next, Callback

\* A spinner stands for a test that waits, although the spinners are kept by model and the
\* tests by channel, model, endpoint type and batch.
THEOREM TestsSpinnerHonest == Spec => []SpinnerHonest
  <1>1. Init => TestsInv /\ ClickInv /\ SpinnerHonest
    BY InitTests DEF Init, ClickInv
  <1>2. TestsInv /\ ClickInv /\ SpinnerHonest /\ [Next]_vars
            => TestsInv' /\ ClickInv' /\ SpinnerHonest'
    BY TestsStep, ClickStep, SpinStep, Zenon
  <1> QED
    BY <1>1, <1>2, PTL DEF Spec

-----------------------------------------------------------------------------
(* The count. *)

\* What Counting says of one batch.
Counted(b) ==
    Alive(b) =>
        /\ \A m \in 1 .. batch[b].len :
              m < batch[b].i + concurrencyLimit /\ m \notin BatchTests(b) => Covered(b, m)
        /\ batch[b].at = "settling" => batch[b].len < batch[b].i + concurrencyLimit

LEMMA CountingParts == Counting <=> \A b \in Batches : Counted(b)
  BY Zenon DEF Counting, Counted

LEMMA CountingPartsNext == (\A b \in Batches : Counted(b)') => Counting'
  BY Zenon DEF Counting, Counted

\* A settled group waits for nothing, and the batch is done when no model is left.
LEMMA SettledFields ==
    ASSUME NEW s \in BatchRecord
    PROVE  /\ Settled(s).channel = s.channel /\ Settled(s).len = s.len /\ Settled(s).i = s.i
           /\ Settled(s).at # "testing"
           /\ Settled(s).at = "settling" => s.len < s.i + concurrencyLimit
  <1>1. CASE shouldStop
    <2>1. Settled(s) = [s EXCEPT !.at = "stopped"]
      BY <1>1 DEF Settled
    <2> QED
      BY <2>1 DEF BatchRecord
  <1>2. CASE ~shouldStop /\ s.i + concurrencyLimit <= s.len
    <2>1. Settled(s) = [s EXCEPT !.at = "pausing"]
      BY <1>2 DEF Settled
    <2> QED
      BY <2>1 DEF BatchRecord
  <1>3. CASE ~shouldStop /\ ~(s.i + concurrencyLimit <= s.len)
    <2>1. Settled(s) = [s EXCEPT !.at = "settling"]
      BY <1>3 DEF Settled
    <2>2. s.len < s.i + concurrencyLimit
      BY <1>3, TestsAssumption DEF BatchRecord
    <2> QED
      BY <2>1, <2>2 DEF BatchRecord
  <1> QED
    BY <1>1, <1>2, <1>3

\* An answer changes no more of a batch than what it waits for and where it is.
LEMMA AfterFields ==
    ASSUME TypeInv, NEW b \in Batches, NEW m, batch[b].at = "testing"
    PROVE  /\ AfterAnswer(b, m).channel = batch[b].channel
           /\ AfterAnswer(b, m).len = batch[b].len
           /\ AfterAnswer(b, m).i = batch[b].i
           /\ AfterAnswer(b, m).at = "settling"
                 => batch[b].len < batch[b].i + concurrencyLimit
  <1>1. batch[b] \in BatchRecord
    BY CalledRecord DEF Called
  <1>2. /\ Less(b, m) \in BatchRecord /\ Less(b, m).at = "testing"
        /\ Less(b, m).channel = batch[b].channel /\ Less(b, m).len = batch[b].len
        /\ Less(b, m).i = batch[b].i
    BY <1>1 DEF Less, BatchRecord
  <1>3. CASE Less(b, m).waiting = {}
    <2>1. AfterAnswer(b, m) = Settled(Less(b, m))
      BY <1>3 DEF AfterAnswer
    <2> QED
      BY <1>2, <2>1, SettledFields
  <1>4. CASE Less(b, m).waiting # {}
    <2>1. AfterAnswer(b, m) = Less(b, m)
      BY <1>4 DEF AfterAnswer
    <2> QED
      BY <1>2, <2>1
  <1> QED
    BY <1>3, <1>4

\* A model stays covered while no result is cleared.
LEMMA CoveredKept ==
    ASSUME results \subseteq results',
           \A a \in Batches : Called(a) => Called(a)' /\ batch'[a].channel = batch[a].channel,
           NEW b \in Batches, Called(b), NEW m, Covered(b, m)
    PROVE  Covered(b, m)'
  <1>1. CASE <<batch[b].channel, m>> \in results
    BY <1>1 DEF Covered
  <1>2. ASSUME NEW later \in Batches, later > b, Called(later),
               batch[later].channel = batch[b].channel
        PROVE  Covered(b, m)'
    <2>1. later > b /\ Called(later)' /\ batch'[later].channel = batch'[b].channel
      BY <1>2
    <2> QED
      BY <2>1, Zenon DEF Covered
  <1> QED
    BY <1>1, <1>2 DEF Covered

\* A batch that a step leaves alone.
LEMMA CountedKept ==
    ASSUME NEW b \in Batches, Counted(b), batch'[b] = batch[b],
           Called(b) => \A m \in 1 .. batch[b].len : Covered(b, m) => Covered(b, m)'
    PROVE  Counted(b)'
  <1> SUFFICES ASSUME Alive(b)'
               PROVE  /\ \A m \in 1 .. batch'[b].len :
                            /\ m < batch'[b].i + concurrencyLimit
                            /\ m \notin BatchTests(b)'
                            => Covered(b, m)'
                      /\ batch'[b].at = "settling" => batch'[b].len < batch'[b].i + concurrencyLimit
    BY Zenon DEF Counted
  <1>1. Alive(b) /\ Called(b) /\ BatchTests(b)' = BatchTests(b)
    BY DEF Alive, Called, BatchTests
  <1> QED
    BY <1>1 DEF Counted

\* A batch that is over.
LEMMA CountedOver ==
    ASSUME NEW b \in Batches, batch'[b].at \in {"stopped", "counted", "not called"}
    PROVE  Counted(b)'
  BY DEF Counted, Alive

\* Steps that change neither the batches nor the results.
LEMMA SameCount ==
    ASSUME Counting, UNCHANGED <<batch, results>>
    PROVE  Counting'
  BY DEF Counting, Alive, BatchTests, Covered, Called

\* The result that an answer to a batch leaves.
LEMMA AnswerResults ==
    ASSUME NEW c \in Channels, NEW m \in Models, NEW e \in EndpointTypes,
           NEW fails \in BOOLEAN, Answer(c, m, e, fails)
    PROVE  results \subseteq results' /\ (Waiting(c, m, e) # {} => <<c, m>> \in results')
  <1>1. \/ results' = results \cup {<<c, m>>}
        \/ results' = results /\ Waiting(c, m, e) = {}
    BY Zenon DEF Answer, Waiting
  <1> QED
    BY <1>1

\* An answer covers the model that the batches waited for.
LEMMA AnswerCounts ==
    ASSUME TypeInv, Counting, NEW c \in Channels, NEW m \in Models, NEW e \in EndpointTypes,
           NEW fails \in BOOLEAN, Answer(c, m, e, fails)
    PROVE  Counting'
  <1>1. batch' = [b \in Batches |-> IF b \in Waiting(c, m, e) THEN AfterAnswer(b, m)
                                     ELSE batch[b]]
    BY AnswerBatches
  <1>2. results \subseteq results' /\ (Waiting(c, m, e) # {} => <<c, m>> \in results')
    BY AnswerResults
  <1>3. ASSUME NEW b \in Waiting(c, m, e)
        PROVE  /\ b \in Batches /\ batch[b].at = "testing" /\ batch[b].channel = c
               /\ batch'[b] = AfterAnswer(b, m)
               /\ batch'[b].at \in Running \cup {"stopped"}
               /\ batch'[b].channel = batch[b].channel
               /\ batch'[b].len = batch[b].len /\ batch'[b].i = batch[b].i
               /\ batch'[b].at = "settling" => batch[b].len < batch[b].i + concurrencyLimit
               /\ batch[b].waiting \ {m} \subseteq BatchTests(b)'
    <2>1. b \in Batches /\ batch[b].at = "testing" /\ batch[b].channel = c
      BY <1>3 DEF Waiting, BatchTests
    <2>2. batch'[b] = AfterAnswer(b, m)
      BY <1>1, <2>1
    <2>3. \A k \in batch[b].waiting \ {m} :
             batch'[b].at = "testing" /\ k \in batch'[b].waiting
      BY <2>1, <2>2, AfterRecord
    <2>4. batch[b].waiting \ {m} \subseteq BatchTests(b)'
      BY <2>3 DEF BatchTests
    <2> QED
      BY <2>1, <2>2, <2>4, AfterRecord, AfterFields
  <1>4. \A a \in Batches : Called(a) => Called(a)' /\ batch'[a].channel = batch[a].channel
    <2> SUFFICES ASSUME NEW a \in Batches, Called(a)
                 PROVE  Called(a)' /\ batch'[a].channel = batch[a].channel
      OBVIOUS
    <2>1. CASE a \in Waiting(c, m, e)
      BY <1>3, <2>1 DEF Called, Running
    <2>2. CASE a \notin Waiting(c, m, e)
      BY <1>1, <2>2 DEF Called
    <2> QED
      BY <2>1, <2>2
  <1>5. ASSUME NEW b \in Batches, Called(b), NEW k, Covered(b, k) PROVE Covered(b, k)'
    BY <1>2, <1>4, <1>5, CoveredKept
  <1>6. ASSUME NEW b \in Batches, b \notin Waiting(c, m, e) PROVE Counted(b)'
    <2>1. batch'[b] = batch[b]
      BY <1>1, <1>6
    <2>2. Counted(b)
      BY CountingParts
    <2> QED
      BY <2>1, <2>2, <1>5, CountedKept
  <1>7. ASSUME NEW b \in Waiting(c, m, e) PROVE Counted(b)'
    <2>0. b \in Batches /\ batch[b].at = "testing" /\ Called(b) /\ Alive(b)
      BY <1>3 DEF Called, Alive
    <2>1. ASSUME NEW k \in 1 .. batch'[b].len, k < batch'[b].i + concurrencyLimit,
                 k \notin BatchTests(b)'
          PROVE  Covered(b, k)'
      <3>1. k \in 1 .. batch[b].len /\ k < batch[b].i + concurrencyLimit
        BY <1>3, <2>1
      <3>2. CASE k = m
        <4>1. <<batch'[b].channel, k>> \in results'
          BY <1>2, <1>3, <3>2
        <4> QED
          BY <4>1, Zenon DEF Covered
      <3>3. CASE k # m
        <4>1. k \notin BatchTests(b)
          BY <1>3, <2>0, <2>1, <3>3 DEF BatchTests
        <4>2. Covered(b, k)
          BY <2>0, <3>1, <4>1, CountingParts DEF Counted
        <4> QED
          BY <2>0, <4>2, <1>5
      <3> QED
        BY <3>2, <3>3
    <2>2. batch'[b].at = "settling" => batch'[b].len < batch'[b].i + concurrencyLimit
      BY <1>3
    <2> QED
      BY <2>1, <2>2, Zenon DEF Counted
  <1>8. \A b \in Batches : Counted(b)'
    BY <1>6, <1>7
  <1> QED
    BY <1>8, CountingPartsNext

\* A batch starts with its first group, and clears the results of its channel.
LEMMA StartCounts ==
    ASSUME TypeInv, InOrder, Counting, NEW b \in Batches, NEW len \in Models,
           BatchTestModels(b, len)
    PROVE  Counting'
  <1> DEFINE s == Sent(dialog, endpoint, len, 1)
  <1>1. /\ batch' = [batch EXCEPT ![b] = s]
        /\ results' = results \ {<<dialog, m>> : m \in 1 .. len}
    BY Zenon DEF BatchTestModels
  <1>2. /\ batch'[b].at = "testing" /\ batch'[b].waiting = Group(1, len)
        /\ \A a \in Batches \ {b} : batch'[a] = batch[a]
        /\ \A a \in Batches : Called(a)' => a <= b
        /\ ~Called(b)
    BY StartRecord
  <1>3. batch'[b] = s
    BY <1>1 DEF TypeInv
  <1>4. batch'[b].channel = dialog /\ batch'[b].len = len /\ batch'[b].i = 1
    BY <1>3 DEF Sent
  <1> HIDE DEF s
  <1>5. Called(b)'
    BY <1>2 DEF Called
  <1>6. ASSUME NEW a \in Batches \ {b} PROVE Counted(a)'
    <2>1. batch'[a] = batch[a]
      BY <1>2
    <2>2. ASSUME Called(a), NEW m \in 1 .. batch[a].len, Covered(a, m) PROVE Covered(a, m)'
      <3>1. b > a
        <4>1. Called(a)'
          BY <2>1, <2>2 DEF Called
        <4>2. a <= b /\ a # b
          BY <1>2, <4>1
        <4> QED
          BY <4>2, TestsAssumption
      <3>2. CASE batch[a].channel = dialog
        <4>1. b > a /\ Called(b)' /\ batch'[b].channel = batch'[a].channel
          BY <1>4, <1>5, <2>1, <3>1, <3>2
        <4> QED
          BY <4>1, Zenon DEF Covered
      <3>3. CASE batch[a].channel # dialog
        <4>1. CASE <<batch[a].channel, m>> \in results
          <5>1. <<batch'[a].channel, m>> \in results'
            BY <1>1, <2>1, <3>3, <4>1
          <5> QED
            BY <5>1, Zenon DEF Covered
        <4>2. ASSUME NEW later \in Batches, later > a, Called(later),
                     batch[later].channel = batch[a].channel
              PROVE  Covered(a, m)'
          <5>1. later # b
            BY <1>2, <4>2
          <5>2. later > a /\ Called(later)' /\ batch'[later].channel = batch'[a].channel
            BY <1>2, <2>1, <4>2, <5>1 DEF Called
          <5> QED
            BY <5>2, Zenon DEF Covered
        <4> QED
          BY <2>2, <4>1, <4>2 DEF Covered
      <3> QED
        BY <3>2, <3>3
    <2>3. Counted(a)
      BY CountingParts
    <2> QED
      BY <2>1, <2>2, <2>3, CountedKept
  <1>7. Counted(b)'
    <2>1. ASSUME NEW m \in 1 .. len, m < 1 + concurrencyLimit, m \notin BatchTests(b)'
          PROVE  FALSE
      <3>1. m \in Group(1, len)
        BY <2>1, TestsAssumption DEF Group
      <3> QED
        BY <1>2, <2>1, <3>1 DEF BatchTests
    <2> QED
      BY <1>2, <1>4, <2>1 DEF Counted
  <1>8. \A a \in Batches : Counted(a)'
    BY <1>6, <1>7
  <1> QED
    BY <1>8, CountingPartsNext

\* A batch that waits for nothing changes, and keeps its channel; no result is touched.
LEMMA OthersCount ==
    ASSUME TypeInv, InOrder, Counting, NEW b \in Batches, Called(b), NEW s \in BatchRecord,
           batch' = [batch EXCEPT ![b] = s], s.channel = batch[b].channel,
           UNCHANGED <<dialog, endpoint, results>>
    PROVE  /\ batch'[b] = s
           /\ \A a \in Batches \ {b} : Counted(a)'
           /\ \A m : Covered(b, m) => Covered(b, m)'
  <1>1. /\ \A a \in Batches : Called(a)' <=> Called(a)
        /\ batch'[b] = s
        /\ \A a \in Batches \ {b} : batch'[a] = batch[a]
    BY OneChanges
  <1>2. \A a \in Batches : Called(a) => Called(a)' /\ batch'[a].channel = batch[a].channel
    BY <1>1
  <1>3. ASSUME NEW a \in Batches, Called(a), NEW m, Covered(a, m) PROVE Covered(a, m)'
    BY <1>2, <1>3, CoveredKept
  <1>4. ASSUME NEW a \in Batches \ {b} PROVE Counted(a)'
    <2>1. Counted(a) /\ batch'[a] = batch[a]
      BY <1>1, CountingParts
    <2> QED
      BY <2>1, <1>3, CountedKept
  <1> QED
    BY <1>1, <1>3, <1>4

\* The next group begins where the models that are covered end.
LEMMA PauseCounts ==
    ASSUME TypeInv, InOrder, Counting, NEW b \in Batches, PauseEnds(b)
    PROVE  Counting'
  <1>1. /\ batch[b].at = "pausing" /\ UNCHANGED <<dialog, endpoint, results>>
    BY Zenon DEF PauseEnds
  <1>2. Called(b) /\ Alive(b) /\ BatchTests(b) = {}
    BY <1>1 DEF Called, Alive, BatchTests
  <1>3. batch[b] \in BatchRecord
    BY <1>2, CalledRecord
  <1>4. CASE batch' = [batch EXCEPT ![b] = [batch[b] EXCEPT !.at = "stopped"]]
    <2> DEFINE s == [batch[b] EXCEPT !.at = "stopped"]
    <2>1. s \in BatchRecord /\ s.at = "stopped" /\ s.channel = batch[b].channel
      BY <1>3 DEF BatchRecord
    <2>2. batch' = [batch EXCEPT ![b] = s]
      BY <1>4
    <2> HIDE DEF s
    <2>3. batch'[b] = s /\ \A a \in Batches \ {b} : Counted(a)'
      BY <1>1, <1>2, <2>1, <2>2, OthersCount
    <2>4. Counted(b)'
      BY <2>1, <2>3, CountedOver
    <2>5. \A a \in Batches : Counted(a)'
      BY <2>3, <2>4
    <2> QED
      BY <2>5, CountingPartsNext
  <1> DEFINE i == batch[b].i + concurrencyLimit
             t == Sent(batch[b].channel, batch[b].endpoint, batch[b].len, i)
  <1>5. CASE batch' = [batch EXCEPT ![b] = t]
    <2>1. /\ batch[b].channel \in Channels \cup {"none"} /\ batch[b].endpoint \in EndpointTypes
          /\ batch[b].len \in Models /\ i \in Nat
      BY <1>3, TestsAssumption DEF BatchRecord
    <2>2. t \in BatchRecord /\ t.at = "testing" /\ t.waiting = Group(i, batch[b].len)
      BY <2>1, SentRecord
    <2>3. t.channel = batch[b].channel /\ t.len = batch[b].len /\ t.i = i
      BY DEF Sent
    <2>4. i = batch[b].i + concurrencyLimit
      OBVIOUS
    <2> HIDE DEF t, i
    <2>5. /\ batch'[b] = t /\ \A a \in Batches \ {b} : Counted(a)'
          /\ \A m : Covered(b, m) => Covered(b, m)'
      BY <1>1, <1>2, <1>5, <2>2, <2>3, OthersCount
    <2>6. ASSUME NEW m \in 1 .. batch[b].len, m < i + concurrencyLimit,
                 m \notin Group(i, batch[b].len)
          PROVE  Covered(b, m)
      <3>1. m < i
        BY <2>1, <2>6, TestsAssumption DEF Group
      <3>2. m \notin BatchTests(b)
        BY <1>2
      <3> QED
        BY <1>2, <2>4, <3>1, <3>2, CountingParts DEF Counted
    <2>7. BatchTests(b)' = Group(i, batch[b].len)
      BY <2>2, <2>5 DEF BatchTests
    <2>8. Counted(b)'
      BY <2>2, <2>3, <2>5, <2>6, <2>7 DEF Counted
    <2>9. \A a \in Batches : Counted(a)'
      BY <2>5, <2>8
    <2> QED
      BY <2>9, CountingPartsNext
  <1>6. \/ batch' = [batch EXCEPT ![b] = [batch[b] EXCEPT !.at = "stopped"]]
        \/ batch' = [batch EXCEPT ![b] = t]
    BY Zenon DEF PauseEnds
  <1> QED
    BY <1>4, <1>5, <1>6

LEMMA CountCounts ==
    ASSUME TypeInv, InOrder, Counting, NEW b \in Batches, CountResults(b)
    PROVE  Counting'
  <1> DEFINE s == [batch[b] EXCEPT !.at = "counted"]
  <1>1. /\ batch[b].at = "settling" /\ UNCHANGED <<dialog, endpoint, results>>
        /\ batch' = [batch EXCEPT ![b] = s]
    BY Zenon DEF CountResults
  <1>2. Called(b)
    BY <1>1 DEF Called
  <1>3. s \in BatchRecord /\ s.at = "counted" /\ s.channel = batch[b].channel
    BY <1>2, CalledRecord DEF BatchRecord
  <1> HIDE DEF s
  <1>4. batch'[b] = s /\ \A a \in Batches \ {b} : Counted(a)'
    BY <1>1, <1>2, <1>3, OthersCount
  <1>5. \A a \in Batches : Counted(a)'
    BY <1>3, <1>4, CountedOver
  <1> QED
    BY <1>5, CountingPartsNext

LEMMA CountingStep ==
    ASSUME TestsInv, Counting, [Next]_vars
    PROVE  Counting'
  <1>0. TypeInv /\ InOrder
    BY DEF TestsInv
  <1>1. ASSUME \/ \E c \in Channels : OpenDialog(c)
               \/ \E e \in EndpointTypes : SelectEndpoint(e)
               \/ HandleCloseModal
               \/ \E n \in Clicks, m \in Models : TestChannel(n, m)
               \/ UNCHANGED vars
        PROVE  Counting'
    <2>1. UNCHANGED <<batch, results>>
      BY <1>1, Zenon DEF OpenDialog, SelectEndpoint, HandleCloseModal, TestChannel, vars
    <2> QED
      BY <2>1, SameCount
  <1> QED
    BY <1>0, <1>1, StartCounts, AnswerCounts, PauseCounts, CountCounts, Zenon
    DEF Next, Callback

\* A batch that counts its results has one for every model, however its groups, other
\* batches, closed dialogs and single tests interleave, and whatever the last group's size.
THEOREM TestsCountIsComplete == Spec => []CountIsComplete
  <1>1. Init => TestsInv /\ Counting
    <2> SUFFICES ASSUME Init PROVE Counting
      BY InitTests, Zenon
    <2>1. \A b \in Batches : batch[b].at = "not called"
      BY DEF Init, NotCalled
    <2> QED
      BY <2>1 DEF Counting, Alive
  <1>2. TestsInv /\ Counting /\ [Next]_vars => TestsInv' /\ Counting'
    BY TestsStep, CountingStep, Zenon
  <1>3. TestsInv /\ Counting => CountIsComplete
    <2> SUFFICES ASSUME TypeInv, Counting, NEW b \in Batches, batch[b].at = "settling",
                        NEW m \in 1 .. batch[b].len
                 PROVE  Covered(b, m)
      BY Zenon DEF TestsInv, CountIsComplete
    <2>1. Alive(b) /\ Called(b) /\ BatchTests(b) = {}
      BY DEF Alive, Called, BatchTests
    <2>2. batch[b].len \in Nat /\ batch[b].i \in Nat
      BY <2>1, CalledRecord, TestsAssumption DEF BatchRecord
    <2>3. batch[b].len < batch[b].i + concurrencyLimit
      BY <2>1 DEF Counting
    <2>4. m < batch[b].i + concurrencyLimit
      BY <2>2, <2>3, TestsAssumption
    <2> QED
      BY <2>1, <2>4 DEF Counting
  <1> QED
    BY <1>1, <1>2, <1>3, PTL DEF Spec
=============================================================================

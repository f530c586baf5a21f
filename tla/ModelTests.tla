----------------------------- MODULE ModelTests -----------------------------
(***************************************************************************)
(* The model tests of the channels page: a dialog from which the user      *)
(* tests one model of a channel, or all of them in groups of               *)
(* concurrencyLimit, and whose closing stops the batch.  A batch is an     *)
(* asynchronous function: it sends a group, waits until every test of it   *)
(* has settled, pauses, and goes on; the flag that stops it is shared by   *)
(* all batches.  Every action is one callback of the event loop, with the  *)
(* promises it settles.                                                    *)
(***************************************************************************)
EXTENDS Integers, FiniteSets

CONSTANTS
    Channels,          \* channels of the table
    EndpointTypes,     \* values of selectedEndpointType
    auto,              \* the one that the dialog starts with
    MaxModels,         \* bound on the models of a batch
    concurrencyLimit,  \* tests of a group
    MaxBatches,        \* bound on the batches that are started
    MaxClicks          \* bound on the tests that are started one by one

ASSUME TestsAssumption ==
    /\ auto \in EndpointTypes
    /\ {MaxModels, concurrencyLimit} \subseteq Nat \ {0}
    /\ MaxBatches \in Nat /\ MaxClicks \in Nat

Models == 1 .. MaxModels
Batches == 1 .. MaxBatches
Clicks == 1 .. MaxClicks

VARIABLES
    dialog,         \* the channel whose dialog is shown, or none
    endpoint,       \* selectedEndpointType
    isBatchTesting, \* the state of that name
    shouldStop,     \* shouldStopBatchTestingRef.current
    testingModels,  \* models whose row shows a spinner
    results,        \* keys of modelTestResults
    batch,          \* batch[b]: the b-th call of batchTestModels
    click           \* click[n]: the n-th call of testChannel from a row

vars == <<dialog, endpoint, isBatchTesting, shouldStop, testingModels, results, batch, click>>

NotCalled == [at |-> "not called"]

Init ==
    /\ dialog = "none"
    /\ endpoint = auto
    /\ isBatchTesting = FALSE
    /\ shouldStop = FALSE
    /\ testingModels = {}
    /\ results = {}
    /\ batch = [b \in Batches |-> NotCalled]
    /\ click = [n \in Clicks |-> NotCalled]

Called(b) == batch[b].at # "not called"
Alive(b) == batch[b].at \in {"testing", "pausing", "settling"}

\* The tests without an answer.
BatchTests(b) == IF batch[b].at = "testing" THEN batch[b].waiting ELSE {}
Pending(m) ==
    \/ \E b \in Batches : m \in BatchTests(b)
    \/ \E n \in Clicks : click[n].at = "testing" /\ click[n].model = m

-----------------------------------------------------------------------------
(* The dialog. *)

\* The menu of a row of the table.
OpenDialog(c) ==
    /\ dialog = "none"
    /\ dialog' = c
    /\ UNCHANGED <<endpoint, isBatchTesting, shouldStop, testingModels, results, batch, click>>

\* The endpoint type.  The switch for streaming is another part of the address of a test.
SelectEndpoint(e) ==
    /\ dialog # "none" /\ endpoint # e
    /\ endpoint' = e
    /\ UNCHANGED <<dialog, isBatchTesting, shouldStop, testingModels, results, batch, click>>

\* handleCloseModal, which is also the button that stops a batch.
HandleCloseModal ==
    /\ dialog # "none"
    /\ shouldStop' = (shouldStop \/ isBatchTesting)
    /\ dialog' = "none"
    /\ endpoint' = auto
    /\ isBatchTesting' = FALSE
    /\ testingModels' = {}
    /\ UNCHANGED <<results, batch, click>>

-----------------------------------------------------------------------------
(* Tests. *)

\* A row's button: its spinner disables it.  The call keeps the isBatchTesting of the
\* render it comes from.
TestChannel(n, m) ==
    /\ dialog # "none"
    /\ m \notin testingModels
    /\ click[n] = NotCalled /\ (n > 1 => click[n - 1] # NotCalled)
    /\ ~(shouldStop /\ isBatchTesting)
    /\ click' = [click EXCEPT ![n] =
                    [at |-> "testing", channel |-> dialog, model |-> m, endpoint |-> endpoint,
                     inBatch |-> isBatchTesting]]
    /\ testingModels' = testingModels \cup {m}
    /\ UNCHANGED <<dialog, endpoint, isBatchTesting, shouldStop, results, batch>>

\* Models i to i + concurrencyLimit - 1 of a list of length len.
Group(i, len) == {m \in Models : i <= m /\ m < i + concurrencyLimit /\ m <= len}

\* The group that starts at i is sent.  It is never empty, since the loop runs while
\* there is a model at i, and so the batch waits for an answer.
Sent(c, e, len, i) ==
    [at |-> "testing", channel |-> c, endpoint |-> e, len |-> len, i |-> i,
     waiting |-> Group(i, len)]

\* Mutant: every row shows a spinner from the start.
BatchTestModelsMarksAll(b, len) ==
    /\ dialog # "none" /\ ~isBatchTesting
    /\ batch[b] = NotCalled /\ (b > 1 => batch[b - 1] # NotCalled)
    /\ isBatchTesting' = TRUE
    /\ shouldStop' = FALSE
    /\ results' = results \ {<<dialog, m>> : m \in 1 .. len}
    /\ batch' = [batch EXCEPT ![b] = Sent(dialog, endpoint, len, 1)]
    /\ testingModels' = testingModels \cup 1 .. len
    /\ UNCHANGED <<dialog, endpoint, click>>

\* batchTestModels for the len models that the search keeps.  The button is disabled
\* while isBatchTesting; so the calls of testChannel keep isBatchTesting = FALSE and never
\* look at the flag.
BatchTestModels(b, len) ==
    /\ dialog # "none" /\ ~isBatchTesting
    /\ batch[b] = NotCalled /\ (b > 1 => batch[b - 1] # NotCalled)
    /\ isBatchTesting' = TRUE
    /\ shouldStop' = FALSE
    /\ results' = results \ {<<dialog, m>> : m \in 1 .. len}
    /\ batch' = [batch EXCEPT ![b] = Sent(dialog, endpoint, len, 1)]
    /\ testingModels' = testingModels \cup Group(1, len)
    /\ UNCHANGED <<dialog, endpoint, click>>

\* Mutant: the comparison counts from zero.
SettledEarly(s) ==
    IF shouldStop THEN [s EXCEPT !.at = "stopped"]
    ELSE IF s.i + concurrencyLimit < s.len THEN [s EXCEPT !.at = "pausing"]
    ELSE [s EXCEPT !.at = "settling"]

\* What a batch does once its group has settled.
Settled(s) ==
    IF shouldStop THEN [s EXCEPT !.at = "stopped"]
    ELSE IF s.i + concurrencyLimit <= s.len THEN [s EXCEPT !.at = "pausing"]
    ELSE [s EXCEPT !.at = "settling"]

\* An answer, or its failure.  Requests for the same address are one request, so it
\* settles every test of the model that waits for it.  A result is dropped by a test that
\* was started during a batch that has been stopped, unless the request failed.
Answer(c, m, e, fails) ==
    LET of == {b \in Batches : /\ m \in BatchTests(b)
                               /\ batch[b].channel = c /\ batch[b].endpoint = e}
        alone == {n \in Clicks : click[n].at = "testing" /\ click[n].channel = c
                                 /\ click[n].model = m /\ click[n].endpoint = e}
        After(b) == LET s == [batch[b] EXCEPT !.waiting = @ \ {m}]
                    IN  IF s.waiting = {} THEN Settled(s) ELSE s
    IN  /\ of # {} \/ alone # {}
        /\ batch' = [b \in Batches |-> IF b \in of THEN After(b) ELSE batch[b]]
        /\ click' = [n \in Clicks |-> IF n \in alone THEN [click[n] EXCEPT !.at = "settled"]
                                      ELSE click[n]]
        /\ results' = IF of # {} \/ fails \/ \E n \in alone : ~(shouldStop /\ click[n].inBatch)
                      THEN results \cup {<<c, m>>} ELSE results
        /\ testingModels' = testingModels \ {m}
        /\ isBatchTesting' = (isBatchTesting /\ \A b \in of : batch'[b].at # "stopped")
        /\ UNCHANGED <<dialog, endpoint, shouldStop>>

\* Mutant: the loop does not advance.
PauseEndsAgain(b) ==
    /\ batch[b].at = "pausing"
    /\ IF shouldStop
       THEN /\ batch' = [batch EXCEPT ![b].at = "stopped"]
            /\ isBatchTesting' = FALSE
            /\ UNCHANGED testingModels
       ELSE /\ batch' = [batch EXCEPT ![b] = Sent(@.channel, @.endpoint, @.len, @.i)]
            /\ testingModels' = testingModels \cup Group(batch[b].i, batch[b].len)
            /\ UNCHANGED isBatchTesting
    /\ UNCHANGED <<dialog, endpoint, shouldStop, results, click>>

\* The pause between two groups is over.
PauseEnds(b) ==
    /\ batch[b].at = "pausing"
    /\ IF shouldStop
       THEN /\ batch' = [batch EXCEPT ![b].at = "stopped"]
            /\ isBatchTesting' = FALSE
            /\ UNCHANGED testingModels
       ELSE LET i == batch[b].i + concurrencyLimit
            IN  /\ batch' = [batch EXCEPT ![b] = Sent(@.channel, @.endpoint, @.len, i)]
                /\ testingModels' = testingModels \cup Group(i, batch[b].len)
                /\ UNCHANGED isBatchTesting
    /\ UNCHANGED <<dialog, endpoint, shouldStop, results, click>>

\* Mutant: the flag outlives the batch.
CountResultsQuietly(b) ==
    /\ batch[b].at = "settling"
    /\ batch' = [batch EXCEPT ![b].at = "counted"]
    /\ UNCHANGED <<dialog, endpoint, isBatchTesting, shouldStop, testingModels, results, click>>

\* The results are counted, and the batch is over.
CountResults(b) ==
    /\ batch[b].at = "settling"
    /\ batch' = [batch EXCEPT ![b].at = "counted"]
    /\ isBatchTesting' = FALSE
    /\ UNCHANGED <<dialog, endpoint, shouldStop, testingModels, results, click>>

-----------------------------------------------------------------------------

Callback ==
    \/ \E c \in Channels, m \in Models, e \in EndpointTypes, fails \in BOOLEAN :
           Answer(c, m, e, fails)
    \/ \E b \in Batches : PauseEnds(b) \/ CountResults(b)

Next ==
    \/ \E c \in Channels : OpenDialog(c)
    \/ \E e \in EndpointTypes : SelectEndpoint(e)
    \/ HandleCloseModal
    \/ \E n \in Clicks, m \in Models : TestChannel(n, m)
    \/ \E b \in Batches, len \in Models : BatchTestModels(b, len)
    \/ Callback

Spec == Init /\ [][Next]_vars

\* Timers fire.  Nothing is assumed of the requests: they have no timeout.
Fairness == \A b \in Batches : WF_vars(PauseEnds(b) \/ CountResults(b))

FairSpec == Spec /\ Fairness

-----------------------------------------------------------------------------
(* Properties. *)

\* isBatchTesting, which disables the button and names the other one "stop", is set only
\* while the batch that was started last runs.
FlagHonest ==
    isBatchTesting =>
        \E b \in Batches : Alive(b) /\ \A other \in Batches : Called(other) => other <= b

\* A row that shows a spinner waits for an answer, although any test of the model, of
\* another batch or another channel, ends the spinner.
SpinnerHonest == \A m \in testingModels : Pending(m)

\* Model m of batch b has a result, unless a later batch of the channel has cleared it.
Covered(b, m) ==
    \/ <<batch[b].channel, m>> \in results
    \/ \E later \in Batches :
          later > b /\ Called(later) /\ batch[later].channel = batch[b].channel

\* When a batch counts its results, every model of it has one, unless a later batch of
\* the channel has cleared it: a missing result is counted as a failure.
CountIsComplete ==
    \A b \in Batches : batch[b].at = "settling" => \A m \in 1 .. batch[b].len : Covered(b, m)

\* Why: the models up to the end of the group are covered, but for those it waits for,
\* and a batch settles only when its group was the last one.
Counting ==
    \A b \in Batches : Alive(b) =>
        /\ \A m \in 1 .. batch[b].len :
              m < batch[b].i + concurrencyLimit /\ m \notin BatchTests(b) => Covered(b, m)
        /\ batch[b].at = "settling" => batch[b].len < batch[b].i + concurrencyLimit

\* A batch none of whose groups waits for ever ends, stopped or not, whatever the other
\* batches wait for; and when this is so of all of them, the button does not stay disabled.
Answered(b) == []<>(BatchTests(b) = {})
BatchesEnd ==
    /\ \A b \in Batches : Answered(b) => (Alive(b) ~> ~Alive(b))
    /\ (\A b \in Batches : Answered(b)) => (isBatchTesting ~> ~isBatchTesting)

\* Tests are sent by a batch only while the page shows that one runs: the comment of
\* handleCloseModal says that a running batch is stopped first.
NoHiddenBatch ==
    [][\A b \in Batches :
          batch[b].at = "pausing" /\ batch'[b].at = "testing" => isBatchTesting]_vars
=============================================================================

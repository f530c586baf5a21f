-------------------------- MODULE PlaygroundProofs --------------------------
(***************************************************************************)
(* Stored for every set of requests.  The storage lags behind the screen   *)
(* by the callbacks that wait, so the inductive invariant speaks of the    *)
(* list that will be stored in the end: the list of the last save that     *)
(* waits or, when none does, the stored one.  The proof does not need the  *)
(* types of the messages: a step either saves exactly the list it shows,   *)
(* or it shows nothing lasting that was not shown before.                  *)
(***************************************************************************)
EXTENDS Playground, TLAPS, SequenceTheorems

Covers(ms, list) ==
    \A i \in DOMAIN ms : Lasting(ms[i]) => \E j \in DOMAIN list : list[j] = ms[i]

NothingNew(ms, old) ==
    \A i \in DOMAIN ms : Lasting(ms[i]) => \E k \in DOMAIN old : old[k] = ms[i]

LastSaveCovers(ms, ts) ==
    \A n \in DOMAIN ts :
        ts[n].do = "save" /\ (\A k \in DOMAIN ts : k > n => ts[k].do # "save")
            => Covers(ms, ts[n].list)

StorageCovers(ms, ts, st) ==
    (\A n \in DOMAIN ts : ts[n].do # "save") /\ st.by = "page" => Covers(ms, st.list)

WillBeStored(ms, ts, st) == LastSaveCovers(ms, ts) /\ StorageCovers(ms, ts, st)

IsQueue(ts) == \E S : ts \in Seq(S)

\* The stored copy, unless a save has failed since it was written.
Kept == IF unsaved THEN Nothing ELSE saved

StoreInv == IsQueue(timers) /\ WillBeStored(message, timers, Kept)

-----------------------------------------------------------------------------
(* Queues of callbacks. *)

\* A callback more, as setTimeout leaves the queue.
LEMMA QueueAppend ==
    ASSUME NEW ts, IsQueue(ts), NEW x
    PROVE  /\ IsQueue(Append(ts, x))
           /\ DOMAIN Append(ts, x) = 1 .. Len(ts) + 1
           /\ DOMAIN ts = 1 .. Len(ts) /\ Len(ts) \in Nat
           /\ \A n \in DOMAIN ts : Append(ts, x)[n] = ts[n]
           /\ Append(ts, x)[Len(ts) + 1] = x
  <1>1. PICK S : ts \in Seq(S)
    BY DEF IsQueue
  <1> DEFINE T == S \cup {x}
  <1>2. ts \in Seq(T)
    BY <1>1, SeqMonotonic
  <1>3. x \in T
    OBVIOUS
  <1> HIDE DEF T
  <1>4. Append(ts, x) \in Seq(T)
    BY <1>2, <1>3
  <1>5. IsQueue(Append(ts, x))
    BY <1>4 DEF IsQueue
  <1> QED
    BY <1>2, <1>3, <1>5

\* The queue after its first callback has run.
LEMMA QueueTail ==
    ASSUME NEW ts, IsQueue(ts), ts # <<>>
    PROVE  /\ IsQueue(Tail(ts))
           /\ Len(ts) \in Nat \ {0} /\ DOMAIN ts = 1 .. Len(ts)
           /\ DOMAIN Tail(ts) = 1 .. Len(ts) - 1
           /\ \A n \in 1 .. Len(ts) - 1 : Tail(ts)[n] = ts[n + 1]
           /\ Head(ts) = ts[1]
  <1>1. PICK S : ts \in Seq(S)
    BY DEF IsQueue
  <1>2. Tail(ts) \in Seq(S)
    BY <1>1
  <1>3. IsQueue(Tail(ts))
    BY <1>2 DEF IsQueue
  <1> QED
    BY <1>1, <1>2, <1>3

\* A queue of one callback, and of none.
LEMMA QueueShort ==
    /\ IsQueue(<<>>)
    /\ \A x : IsQueue(<<x>>) /\ DOMAIN <<x>> = {1} /\ <<x>>[1] = x
  <1>1. <<>> \in Seq({})
    OBVIOUS
  <1>2. ASSUME NEW x
        PROVE  IsQueue(<<x>>) /\ DOMAIN <<x>> = {1} /\ <<x>>[1] = x
    <2>1. <<x>> \in Seq({x})
      OBVIOUS
    <2>2. IsQueue(<<x>>)
      BY <2>1 DEF IsQueue
    <2>3. DOMAIN <<x>> = {1} /\ <<x>>[1] = x
      BY <2>1
    <2> QED
      BY <2>2, <2>3
  <1> QED
    BY <1>1, <1>2 DEF IsQueue

-----------------------------------------------------------------------------
(* The shapes of a step. *)

\* Nothing lasting appears, and no callback is added.
LEMMA KeepsStored ==
    ASSUME NEW ms, NEW ts, NEW st, WillBeStored(ms, ts, st),
           NEW new, NothingNew(new, ms)
    PROVE  WillBeStored(new, ts, st)
  <1>1. ASSUME NEW list, Covers(ms, list) PROVE Covers(new, list)
    BY <1>1 DEF Covers, NothingNew
  <1>2. LastSaveCovers(new, ts)
    BY <1>1 DEF WillBeStored, LastSaveCovers
  <1>3. StorageCovers(new, ts, st)
    BY <1>1 DEF WillBeStored, StorageCovers
  <1> QED
    BY <1>2, <1>3 DEF WillBeStored

\* The list that is shown is the list that will be saved.
LEMMA SavesShown ==
    ASSUME NEW ts, IsQueue(ts), NEW st, NEW new
    PROVE  WillBeStored(new, Append(ts, Save(new)), st)
  <1> DEFINE later == Append(ts, Save(new))
  <1>1. /\ DOMAIN later = 1 .. Len(ts) + 1 /\ Len(ts) \in Nat
        /\ later[Len(ts) + 1] = Save(new)
    BY QueueAppend
  <1>2. Save(new).do = "save" /\ Save(new).list = new
    BY DEF Save
  <1>3. Covers(new, new)
    BY DEF Covers
  <1> HIDE DEF later
  <1>4. LastSaveCovers(new, later)
    <2> SUFFICES ASSUME NEW n \in DOMAIN later, 
                        \A k \in DOMAIN later : k > n => later[k].do # "save"
                 PROVE  Covers(new, later[n].list)
      BY DEF LastSaveCovers
    <2>1. Len(ts) + 1 \in DOMAIN later /\ later[Len(ts) + 1].do = "save"
      BY <1>1, <1>2
    <2>2. ~(Len(ts) + 1 > n)
      BY <2>1
    <2>3. n = Len(ts) + 1
      BY <2>2, <1>1
    <2> QED
      BY <2>3, <1>1, <1>2, <1>3
  <1>5. StorageCovers(new, later, st)
    <2>1. Len(ts) + 1 \in DOMAIN later /\ later[Len(ts) + 1].do = "save"
      BY <1>1, <1>2
    <2> QED
      BY <2>1 DEF StorageCovers
  <1> QED
    BY <1>4, <1>5 DEF WillBeStored, later

\* Messages that are not lasting need no storage.
LEMMA NothingLasting ==
    ASSUME NEW ms, \A i \in DOMAIN ms : ~Lasting(ms[i]), NEW ts, NEW st
    PROVE  WillBeStored(ms, ts, st)
  BY DEF WillBeStored, LastSaveCovers, StorageCovers, Covers

\* The default messages are not lasting.
LEMMA DefaultFleeting ==
    \A i \in DOMAIN Default : ~Lasting(Default[i])
  BY PlaygroundAssumption DEF Default, Lasting

\* The first callback saves.
LEMMA RunsSave ==
    ASSUME NEW ms, NEW ts, NEW st, WillBeStored(ms, ts, st), IsQueue(ts), ts # <<>>,
           Head(ts).do = "save"
    PROVE  WillBeStored(ms, Tail(ts), [by |-> "page", list |-> Head(ts).list])
  <1> DEFINE rest == Tail(ts)
             stored == [by |-> "page", list |-> Head(ts).list]
  <1>1. /\ Len(ts) \in Nat \ {0} /\ DOMAIN ts = 1 .. Len(ts)
        /\ DOMAIN rest = 1 .. Len(ts) - 1
        /\ \A n \in 1 .. Len(ts) - 1 : rest[n] = ts[n + 1]
        /\ Head(ts) = ts[1]
    BY QueueTail
  <1>2. stored.list = Head(ts).list
    OBVIOUS
  <1> HIDE DEF rest, stored
  <1>3. LastSaveCovers(ms, rest)
    <2> SUFFICES ASSUME NEW n \in DOMAIN rest, rest[n].do = "save",
                        \A k \in DOMAIN rest : k > n => rest[k].do # "save"
                 PROVE  Covers(ms, rest[n].list)
      BY DEF LastSaveCovers
    <2>1. n + 1 \in DOMAIN ts /\ ts[n + 1] = rest[n]
      BY <1>1
    <2>2. ASSUME NEW k \in DOMAIN ts, k > n + 1 PROVE ts[k].do # "save"
      <3>1. k - 1 \in DOMAIN rest /\ k - 1 > n /\ rest[k - 1] = ts[k]
        BY <1>1, <2>2
      <3> QED
        BY <3>1
    <2> QED
      BY <2>1, <2>2 DEF WillBeStored, LastSaveCovers
  <1>4. StorageCovers(ms, rest, stored)
    <2> SUFFICES ASSUME \A n \in DOMAIN rest : rest[n].do # "save"
                 PROVE  Covers(ms, stored.list)
      BY DEF StorageCovers
    <2>1. 1 \in DOMAIN ts /\ ts[1].do = "save"
      BY <1>1
    <2>2. ASSUME NEW k \in DOMAIN ts, k > 1 PROVE ts[k].do # "save"
      <3>1. k - 1 \in DOMAIN rest /\ rest[k - 1] = ts[k]
        BY <1>1, <2>2
      <3> QED
        BY <3>1
    <2>3. Covers(ms, ts[1].list)
      BY <2>1, <2>2 DEF WillBeStored, LastSaveCovers
    <2> QED
      BY <2>3, <1>1, <1>2
  <1> QED
    BY <1>3, <1>4 DEF WillBeStored, rest, stored

\* The first callback fails to save: a later save that waits still covers the list.
LEMMA RunsFailingSave ==
    ASSUME NEW ms, NEW ts, NEW st, WillBeStored(ms, ts, st), IsQueue(ts), ts # <<>>,
           Head(ts).do = "save", NEW old, old.by # "page"
    PROVE  WillBeStored(ms, Tail(ts), old)
  <1>1. WillBeStored(ms, Tail(ts), [by |-> "page", list |-> Head(ts).list])
    BY RunsSave
  <1> QED
    BY <1>1 DEF WillBeStored, StorageCovers

\* The first callback shows the default messages.
LEMMA RunsDefault ==
    ASSUME NEW ms, NEW ts, NEW st, WillBeStored(ms, ts, st), IsQueue(ts), ts # <<>>,
           Head(ts).do # "save"
    PROVE  WillBeStored(ms, Tail(ts), st)
  <1> DEFINE rest == Tail(ts)
  <1>1. /\ Len(ts) \in Nat \ {0} /\ DOMAIN ts = 1 .. Len(ts)
        /\ DOMAIN rest = 1 .. Len(ts) - 1
        /\ \A n \in 1 .. Len(ts) - 1 : rest[n] = ts[n + 1]
        /\ Head(ts) = ts[1]
    BY QueueTail
  <1> HIDE DEF rest
  <1>2. ASSUME NEW k \in DOMAIN ts, k # 1
        PROVE  k - 1 \in DOMAIN rest /\ rest[k - 1] = ts[k]
    BY <1>1, <1>2
  <1>3. ASSUME NEW n \in DOMAIN rest
        PROVE  n + 1 \in DOMAIN ts /\ ts[n + 1] = rest[n] /\ n \in Nat
    BY <1>1
  <1>4. LastSaveCovers(ms, rest)
    <2> SUFFICES ASSUME NEW n \in DOMAIN rest, rest[n].do = "save",
                        \A k \in DOMAIN rest : k > n => rest[k].do # "save"
                 PROVE  Covers(ms, rest[n].list)
      BY DEF LastSaveCovers
    <2>1. n + 1 \in DOMAIN ts /\ ts[n + 1] = rest[n] /\ n \in Nat
      BY <1>3
    <2>2. ASSUME NEW k \in DOMAIN ts, k > n + 1 PROVE ts[k].do # "save"
      <3>1. k # 1 /\ k - 1 > n
        BY <1>1, <2>1, <2>2
      <3>2. k - 1 \in DOMAIN rest /\ rest[k - 1] = ts[k]
        BY <1>2, <3>1
      <3> QED
        BY <3>1, <3>2
    <2> QED
      BY <2>1, <2>2 DEF WillBeStored, LastSaveCovers
  <1>5. StorageCovers(ms, rest, st)
    <2> SUFFICES ASSUME \A n \in DOMAIN rest : rest[n].do # "save", st.by = "page"
                 PROVE  Covers(ms, st.list)
      BY DEF StorageCovers
    <2>1. ASSUME NEW n \in DOMAIN ts PROVE ts[n].do # "save"
      <3>1. CASE n = 1
        BY <3>1, <1>1
      <3>2. CASE n # 1
        BY <3>2, <1>2
      <3> QED
        BY <3>1, <3>2
    <2> QED
      BY <2>1 DEF WillBeStored, StorageCovers
  <1> QED
    BY <1>4, <1>5 DEF WillBeStored, rest

\* The storage is rewritten by the settings: what waits to be saved still covers the list.
LEMMA SettingsWrite ==
    ASSUME NEW ms, NEW ts, NEW st, WillBeStored(ms, ts, st), NEW other, other.by # "page"
    PROVE  WillBeStored(ms, ts, other)
  BY DEF WillBeStored, StorageCovers

-----------------------------------------------------------------------------
(* The steps. *)

\* What a step owes the queue and the storage.
LEMMA StepSaves ==
    ASSUME StoreInv, Later(Save(message'))
    PROVE  StoreInv'
  BY QueueAppend, SavesShown DEF StoreInv, Later

\* A step that shows nothing lasting and new, and leaves the queue alone.
LEMMA StepKeeps ==
    ASSUME StoreInv, NothingNew(message', message), UNCHANGED timers,
           UNCHANGED storeVars \/ saved'.by # "page"
    PROVE  StoreInv'
  <1>1. WillBeStored(message', timers, Kept)
    BY KeepsStored DEF StoreInv
  <1>2. Kept' = Kept \/ Kept'.by # "page"
    BY DEF Kept, Nothing, storeVars
  <1>3. WillBeStored(message', timers, Kept')
    BY <1>1, <1>2, SettingsWrite
  <1> QED
    BY <1>3 DEF StoreInv

LEMMA SameList ==
    ASSUME NEW ms PROVE NothingNew(ms, ms)
  BY DEF NothingNew

\* streamMessageUpdate leaves a message that is being generated.
LEMMA UpdateFleeting ==
    ASSUME NEW ms, NEW r
    PROVE  NothingNew(StreamMessageUpdate(ms, r), ms)
  BY DEF NothingNew, StreamMessageUpdate, WithLast, Written, LastOf, Lasting, Final

\* completeMessage saves what it shows, or shows what there was.
LEMMA CompleteStores ==
    ASSUME StoreInv, NEW r, NEW status, UNCHANGED storeVars,
           CompleteMessage(StreamMessageUpdate(message, r), status)
    PROVE  StoreInv'
  <1> DEFINE ms == StreamMessageUpdate(message, r)
  <1>0. NothingNew(ms, message)
    BY UpdateFleeting
  <1> HIDE DEF ms
  <1>1. CASE ms = <<>>
    <2>1. message' = message /\ timers' = timers
      BY <1>1 DEF CompleteMessage, ms
    <2> QED
      BY <2>1, SameList, StepKeeps
  <1>2. CASE ms # <<>> /\ LastOf(ms).status \in Final
    <2>1. message' = ms /\ timers' = timers
      BY <1>2 DEF CompleteMessage, ms
    <2> QED
      BY <2>1, <1>0, StepKeeps
  <1>3. CASE ms # <<>> /\ LastOf(ms).status \notin Final
    <2>1. Later(Save(message'))
      BY <1>3 DEF CompleteMessage, ms
    <2> QED
      BY <2>1, StepSaves
  <1> QED
    BY <1>1, <1>2, <1>3

\* The same for [DONE], which writes no text.
LEMMA DoneStores ==
    ASSUME StoreInv, NEW status, UNCHANGED storeVars, CompleteMessage(message, status)
    PROVE  StoreInv'
  <1>1. CASE message = <<>> \/ LastOf(message).status \in Final
    <2>1. message' = message /\ timers' = timers
      BY <1>1 DEF CompleteMessage
    <2> QED
      BY <2>1, SameList, StepKeeps
  <1>2. CASE message # <<>> /\ LastOf(message).status \notin Final
    <2>1. Later(Save(message'))
      BY <1>2 DEF CompleteMessage
    <2> QED
      BY <2>1, StepSaves
  <1> QED
    BY <1>1, <1>2

\* An answer in one piece is not lasting, for it is not saved.
LEMMA FetchFleeting ==
    ASSUME NEW ms, NEW r \in Fetches, NEW status, NEW m
    PROVE  NothingNew(WithLast(ms, Written(m, status, {r})), ms)
  BY DEF NothingNew, WithLast, Written, Lasting

-----------------------------------------------------------------------------

\* The page starts with the default messages.
LEMMA InitStores == Init => StoreInv
  <1> SUFFICES ASSUME Init PROVE StoreInv
    OBVIOUS
  <1>1. WillBeStored(message, timers, Kept)
    BY DefaultFleeting, NothingLasting DEF Init
  <1>2. IsQueue(timers)
    BY QueueShort DEF Init
  <1> QED
    BY <1>1, <1>2 DEF StoreInv

\* Events of a request.
LEMMA NetworkStores ==
    ASSUME StoreInv, NEW r \in Requests, Network(r)
    PROVE  StoreInv'
  <1>1. CASE Chunk(r)
    BY <1>1, UpdateFleeting, StepKeeps DEF Chunk, laterVars
  <1>2. CASE Done(r)
    BY <1>2, DoneStores DEF Done
  <1>3. CASE ParseError(r)
    BY <1>3, CompleteStores DEF ParseError
  <1>4. CASE StreamError(r)
    BY <1>4, CompleteStores DEF StreamError
  <1>5. CASE StatusError(r)
    BY <1>5, CompleteStores DEF StatusError
  <1>6. CASE EndsSilently(r)
    BY <1>6, SameList, StepKeeps DEF EndsSilently, laterVars
  <1>7. ASSUME NEW status \in Final, FetchAnswered(r, status)
        PROVE  StoreInv'
    <2>1. UNCHANGED timers /\ UNCHANGED storeVars /\ r \in Fetches
      BY <1>7 DEF FetchAnswered, laterVars
    <2>2. NothingNew(message', message)
      BY <1>7, <2>1, FetchFleeting, SameList DEF FetchAnswered
    <2> QED
      BY <2>1, <2>2, StepKeeps
  <1> QED
    BY <1>1, <1>2, <1>3, <1>4, <1>5, <1>6, <1>7 DEF Network

\* Sending, at once or from a timer.
LEMMA SendStores ==
    ASSUME StoreInv, NEW r \in Requests, Send(r) \/ Resend(r) \/ Answer(r)
    PROVE  StoreInv'
  <1>1. CASE OnMessageSend(r)
    BY <1>1, StepSaves DEF OnMessageSend
  <1>2. CASE Answer(r)
    <2>1. NothingNew(message', message)
      BY <1>2 DEF Answer, Push, LoadingMessage, NothingNew, Lasting, Final
    <2> QED
      BY <1>2, <2>1, StepKeeps DEF Answer
  <1> QED
    BY <1>1, <1>2 DEF Send, Resend

\* Stopping, clearing, and the actions on one message.
LEMMA EditStores ==
    ASSUME StoreInv,
           \/ Stop \/ Clear \/ ConfirmDelete \/ EditCancel \/ EditSave
           \/ \E i \in DOMAIN message : Regenerate(i) \/ RoleToggle(i) \/ AskDelete(i) \/ Edit(i)
           \/ \E regenerate \in BOOLEAN : EditAnswer(regenerate)
    PROVE  StoreInv'
  <1>1. CASE Stop
    BY <1>1, StepSaves DEF Stop
  <1>2. CASE Clear
    BY <1>2, StepSaves DEF Clear
  <1>3. CASE ConfirmDelete
    <2>1. (UNCHANGED <<message, timers>> \/ Later(Save(message'))) /\ UNCHANGED storeVars
      BY <1>3 DEF ConfirmDelete
    <2> QED
      BY <2>1, SameList, StepKeeps, StepSaves
  <1>4. CASE EditCancel
    BY <1>4, SameList, StepKeeps DEF EditCancel, laterVars
  <1>5. CASE EditSave
    <2>1. (UNCHANGED <<message, timers>> \/ Later(Save(message'))) /\ UNCHANGED storeVars
      BY <1>5 DEF EditSave
    <2> QED
      BY <2>1, SameList, StepKeeps, StepSaves
  <1>6. ASSUME NEW i \in DOMAIN message, Regenerate(i)
        PROVE  StoreInv'
    <2>1. PICK j \in QuestionOf(i) : message' = Before(message, j)
      BY <1>6 DEF Regenerate
    <2>2. NothingNew(message', message)
      BY <2>1 DEF Before, NothingNew
    <2> QED
      BY <1>6, <2>2, StepKeeps DEF Regenerate
  <1>7. ASSUME NEW i \in DOMAIN message, RoleToggle(i)
        PROVE  StoreInv'
    <2>1. Later(Save(message')) /\ UNCHANGED storeVars
      BY <1>7 DEF RoleToggle
    <2> QED
      BY <2>1, StepSaves
  <1>8. ASSUME NEW i \in DOMAIN message, AskDelete(i) \/ Edit(i)
        PROVE  StoreInv'
    BY <1>8, SameList, StepKeeps DEF AskDelete, Edit, laterVars
  <1>9. ASSUME NEW regenerate \in BOOLEAN, EditAnswer(regenerate)
        PROVE  StoreInv'
    <2>1. Later(Save(message')) /\ UNCHANGED storeVars
      BY <1>9, Zenon DEF EditAnswer
    <2> QED
      BY <2>1, StepSaves
  <1> QED
    BY <1>1, <1>2, <1>3, <1>4, <1>5, <1>6, <1>7, <1>8, <1>9

\* The messages of a settings file are not lasting.
LEMMA FileFleeting ==
    ASSUME NEW list \in Files
    PROVE  \A i \in DOMAIN list : ~Lasting(list[i])
  BY DefaultFleeting, PlaygroundAssumption
     DEF Files, UserMessage, LoadingMessage, Lasting, Final

\* An import dialog offers the list of a file.
ImportInv == dialog.kind = "import" => dialog.list \in Files

LEMMA ImportStep ==
    ASSUME ImportInv, [Next]_vars
    PROVE  ImportInv'
  <1>1. ASSUME UNCHANGED dialog PROVE ImportInv'
    BY <1>1 DEF ImportInv
  <1>2. ASSUME dialog' = NoDialog PROVE ImportInv'
    BY <1>2 DEF ImportInv, NoDialog
  <1>3. ASSUME NEW r \in Requests, Network(r) \/ Send(r) \/ Resend(r) \/ Answer(r)
        PROVE  UNCHANGED dialog
    BY <1>3 DEF Network, Chunk, Done, ParseError, StreamError, StatusError, EndsSilently,
                FetchAnswered, Send, Resend, Answer, userVars
  <1>4. ASSUME NEW i \in DOMAIN message, Regenerate(i) \/ RoleToggle(i) \/ Edit(i)
        PROVE  UNCHANGED dialog
    BY <1>4 DEF Regenerate, RoleToggle, Edit, userVars
  <1>5. ASSUME NEW i \in DOMAIN message, AskDelete(i)
        PROVE  ImportInv'
    BY <1>5 DEF AskDelete, ImportInv
  <1>6. ASSUME Stop \/ Clear \/ EditCancel \/ LanguageChanges \/ RunTimer
        PROVE  UNCHANGED dialog
    BY <1>6 DEF Stop, Clear, EditCancel, LanguageChanges, RunTimer, userVars
  <1>7. ASSUME ConfirmDelete \/ ConfirmImport \/ Dismiss \/ Reload
        PROVE  dialog' = NoDialog
    BY <1>7 DEF ConfirmDelete, ConfirmImport, Dismiss, Reload
  <1>8. CASE EditSave
    <2>1. UNCHANGED dialog \/ dialog'.kind = "edit"
      BY <1>8 DEF EditSave
    <2> QED
      BY <2>1 DEF ImportInv
  <1>9. ASSUME NEW regenerate \in BOOLEAN, EditAnswer(regenerate)
        PROVE  dialog' = NoDialog
    BY <1>9, Zenon DEF EditAnswer
  <1>10. ASSUME NEW list \in Files, Import(list)
         PROVE  ImportInv'
    BY <1>10 DEF Import, ImportInv
  <1>11. ASSUME NEW resetMessages \in BOOLEAN, ConfigReset(resetMessages)
         PROVE  UNCHANGED dialog
    BY <1>11, Zenon DEF ConfigReset, userVars
  <1>12. CASE UNCHANGED vars
    BY <1>12 DEF ImportInv, vars
  <1> QED
    BY <1>1, <1>2, <1>3, <1>4, <1>5, <1>6, <1>7, <1>8, <1>9, <1>10, <1>11, <1>12, Zenon
    DEF Next

\* The page is loaded again.
LEMMA ReloadStores ==
    ASSUME StoreInv, Reload
    PROVE  StoreInv'
  <1> DEFINE loaded == IF saved = Nothing THEN Default ELSE saved.list
             repaired == WithLast(loaded, [LastOf(loaded) EXCEPT !.status = "complete"])
  <1>1. saved' = saved /\ Kept' = saved
    BY DEF Reload, Kept
  <1>2. CASE loaded # <<>> /\ IsGenerating(LastOf(loaded))
    <2>1. message' = repaired /\ timers' = <<Save(repaired)>>
      BY <1>2 DEF Reload
    <2> HIDE DEF repaired
    <2>2. Save(repaired).do = "save" /\ Save(repaired).list = repaired
      BY DEF Save
    <2>3. DOMAIN timers' = {1} /\ timers'[1] = Save(repaired) /\ IsQueue(timers')
      BY <2>1, QueueShort
    <2>4. Covers(message', repaired)
      BY <2>1 DEF Covers
    <2>5. LastSaveCovers(message', timers')
      BY <2>2, <2>3, <2>4 DEF LastSaveCovers
    <2>6. StorageCovers(message', timers', Kept')
      BY <2>2, <2>3 DEF StorageCovers
    <2> QED
      BY <2>3, <2>5, <2>6 DEF StoreInv, WillBeStored
  <1>3. CASE ~(loaded # <<>> /\ IsGenerating(LastOf(loaded)))
    <2>1. message' = loaded /\ timers' = <<>>
      BY <1>3 DEF Reload
    <2>2. IsQueue(timers')
      BY <2>1, QueueShort
    <2>3. DOMAIN timers' = {}
      BY <2>1
    <2>4. LastSaveCovers(message', timers')
      BY <2>3 DEF LastSaveCovers
    <2>5. CASE saved = Nothing
      BY <2>2, <2>4, <2>5, <1>1 DEF StorageCovers, Nothing, StoreInv, WillBeStored
    <2>6. CASE saved # Nothing
      BY <2>1, <2>2, <2>4, <2>6, <1>1 DEF StorageCovers, Covers, StoreInv, WillBeStored
    <2> QED
      BY <2>5, <2>6
  <1> QED
    BY <1>2, <1>3

\* The settings, the language and the timers.
LEMMA SettingsStores ==
    ASSUME StoreInv, ImportInv,
           \/ \E list \in Files : Import(list)
           \/ ConfirmImport \/ Dismiss
           \/ \E resetMessages \in BOOLEAN : ConfigReset(resetMessages)
           \/ LanguageChanges \/ RunTimer \/ Reload
    PROVE  StoreInv'
  <1>1. ASSUME NEW list \in Files, Import(list)
        PROVE  StoreInv'
    <2>1. /\ UNCHANGED message /\ UNCHANGED timers
          /\ UNCHANGED storeVars \/ saved'.by # "page"
      BY <1>1 DEF Import, laterVars
    <2> QED
      BY <2>1, SameList, StepKeeps
  <1>2. CASE ConfirmImport
    <2>1. \A i \in DOMAIN message' : ~Lasting(message'[i])
      BY <1>2, FileFleeting DEF ConfirmImport, ImportInv
    <2>2. UNCHANGED timers
      BY <1>2 DEF ConfirmImport, laterVars
    <2> QED
      BY <2>1, <2>2, NothingLasting DEF StoreInv
  <1>3. CASE Dismiss
    BY <1>3, SameList, StepKeeps DEF Dismiss, laterVars
  <1>4. ASSUME NEW resetMessages \in BOOLEAN, ConfigReset(resetMessages)
        PROVE  StoreInv'
    <2>1. saved' = Nothing
      BY <1>4, Zenon DEF ConfigReset
    <2>2. saved'.by # "page"
      BY <2>1 DEF Nothing
    <2>3. UNCHANGED <<message, timers>> \/ (message' = <<>> /\ Later(ShowDefault))
      BY <1>4, Zenon DEF ConfigReset
    <2>4. CASE UNCHANGED <<message, timers>>
      BY <2>2, <2>4, SameList, StepKeeps
    <2>5. CASE message' = <<>> /\ Later(ShowDefault)
      <3>1. IsQueue(timers')
        BY <2>5, QueueAppend DEF StoreInv, Later
      <3>2. WillBeStored(message', timers', Kept')
        BY <2>5, NothingLasting
      <3> QED
        BY <3>1, <3>2 DEF StoreInv
    <2> QED
      BY <2>3, <2>4, <2>5
  <1>5. CASE LanguageChanges
    <2>1. message' = Default /\ UNCHANGED timers
      BY <1>5 DEF LanguageChanges, laterVars
    <2> QED
      BY <2>1, DefaultFleeting, NothingLasting DEF StoreInv
  <1>6. CASE RunTimer
    <2>1. timers # <<>> /\ timers' = Tail(timers)
      BY <1>6 DEF RunTimer
    <2>2. IsQueue(timers')
      BY <2>1, QueueTail DEF StoreInv
    <2>3. CASE Head(timers).do = "save"
      <3>1. message' = message /\ SaveMessages(Head(timers).list)
        BY <1>6, <2>3, Zenon DEF RunTimer
      <3>2. CASE saved' = [by |-> "page", list |-> Head(timers).list] /\ unsaved' = FALSE
        <4>1. Kept' = [by |-> "page", list |-> Head(timers).list]
          BY <3>2 DEF Kept
        <4> QED
          BY <2>1, <2>2, <2>3, <3>1, <4>1, RunsSave DEF StoreInv
      <3>3. CASE UNCHANGED saved /\ unsaved' = (saved.by = "page")
        <4>1. Kept'.by # "page"
          BY <3>3 DEF Kept, Nothing
        <4>2. WillBeStored(message, Tail(timers), Kept')
          BY <2>1, <2>3, <4>1, RunsFailingSave DEF StoreInv
        <4> QED
          BY <2>1, <2>2, <3>1, <4>2 DEF StoreInv
      <3> QED
        BY <3>1, <3>2, <3>3 DEF SaveMessages
    <2>4. CASE Head(timers).do # "save"
      <3>1. Kept' = Kept /\ (message' = message \/ message' = Default)
        BY <1>6, <2>4, Zenon DEF RunTimer, storeVars, Kept
      <3>2. WillBeStored(message, timers', Kept')
        BY <2>1, <2>4, <3>1, RunsDefault DEF StoreInv
      <3> QED
        BY <2>2, <3>1, <3>2, DefaultFleeting, NothingLasting DEF StoreInv
    <2> QED
      BY <2>3, <2>4
  <1>7. CASE Reload
    BY <1>7, ReloadStores
  <1> QED
    BY <1>1, <1>2, <1>3, <1>4, <1>5, <1>6, <1>7

\* Every step keeps the list that will be stored ahead of the screen.
LEMMA StoreStep ==
    ASSUME StoreInv, ImportInv, [Next]_vars
    PROVE  StoreInv'
  <1>1. CASE UNCHANGED vars
    BY <1>1, SameList, StepKeeps DEF vars, storeVars
  <1>2. CASE Next
    BY <1>2, NetworkStores, SendStores, EditStores, SettingsStores DEF Next
  <1> QED
    BY <1>1, <1>2

\* When nothing waits, what will be stored is what is stored.
LEMMA StoreSuffices == StoreInv => Stored
  <1> SUFFICES ASSUME StoreInv, timers = <<>>, saved.by = "page", ~unsaved
               PROVE  Covers(message, saved.list)
    BY DEF Stored, Covers
  <1>1. \A n \in DOMAIN timers : timers[n].do # "save"
    OBVIOUS
  <1> QED
    BY <1>1 DEF StoreInv, WillBeStored, StorageCovers, Kept

\* Whatever the requests and the user do, and whichever saves fail before, once the timers
\* have run and the page's last save succeeded, unless the settings wrote the storage
\* since, every question and every streamed final answer on the screen is in localStorage
\* as it is shown.
THEOREM PlaygroundStored == Spec => []Stored
  <1>1. Init => StoreInv /\ ImportInv
    BY InitStores DEF Init, ImportInv, NoDialog
  <1>2. StoreInv /\ ImportInv /\ [Next]_vars => StoreInv' /\ ImportInv'
    BY StoreStep, ImportStep
  <1> QED
    BY <1>1, <1>2, StoreSuffices, PTL DEF Spec
=============================================================================

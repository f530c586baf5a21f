----------------------------- MODULE Playground -----------------------------
(***************************************************************************)
(* The chat page of the web front end: the list of messages, the requests  *)
(* that fill its last message (an event stream or a single answer), the    *)
(* copy of the list in localStorage, and the operations of the user: send, *)
(* stop, clear, regenerate, edit, delete, toggle a role, import or reset   *)
(* the settings, change the language, reload.                              *)
(*                                                                         *)
(* A message holds who wrote it, not what: `of` names the request it was   *)
(* made for and `text` the requests whose words it contains.  Every action *)
(* is one callback of the browser's event loop.                            *)
(***************************************************************************)
EXTENDS Integers, Sequences

CONSTANTS
    Streams,    \* requests sent with inputs.stream
    Fetches,    \* requests sent without it
    MaxOps,     \* bound on the user's operations other than send, stop and reload
    MaxReloads, \* bound on reloads of the page
    MaxTimers   \* bound on the callbacks of setTimeout(..., 0) that wait together

Requests == Streams \cup Fetches

ASSUME PlaygroundAssumption ==
    /\ Streams \cap Fetches = {}
    /\ MaxOps \in Nat /\ MaxReloads \in Nat /\ MaxTimers \in Nat
    /\ {"default", "file", "edited", "null"} \cap Requests = {}

VARIABLES
    message,        \* the list on the screen
    initial,        \* initialMessages is not null
    messageId,      \* the counter of generateMessageId
    request,        \* request[r]: unused, open or closed
    sseSourceRef,   \* the stream that Stop would close
    timers,         \* callbacks of setTimeout(..., 0), in their order
    resends,        \* callbacks of setTimeout(..., 100) that send a message
    answers,        \* callbacks of setTimeout(..., 100) that ask for an answer
    dialog,         \* the Modal.confirm on the screen
    editing,        \* editingMessageRef and editingMessageId
    saved,          \* playground_messages of localStorage
    unsaved,        \* a save has failed since the page wrote `saved`
    crashed,        \* an update threw, and React unmounted the page
    ops, reloads    \* counters for the bounds

netVars == <<request, sseSourceRef>>
laterVars == <<timers, resends, answers>>
userVars == <<dialog, editing>>
storeVars == <<saved, unsaved>>
boundVars == <<ops, reloads>>
vars == <<message, initial, messageId, request, sseSourceRef, timers, resends, answers,
          dialog, editing, saved, unsaved, crashed, ops, reloads>>

-----------------------------------------------------------------------------
(* Messages. *)

Generating == {"loading", "incomplete"}
Final == {"complete", "error"}

\* The two messages of getDefaultMessages.
Default ==
    <<[id |-> 2, role |-> "user", status |-> "none", of |-> "default", text |-> {}],
      [id |-> 3, role |-> "assistant", status |-> "none", of |-> "default", text |-> {}]>>

UserMessage(id, r) == [id |-> id, role |-> "user", status |-> "none", of |-> r, text |-> {}]

LoadingMessage(id, r) ==
    [id |-> id, role |-> "assistant", status |-> "loading", of |-> r, text |-> {}]

LastOf(ms) == ms[Len(ms)]
WithLast(ms, m) == [ms EXCEPT ![Len(ms)] = m]
Push(ms, m) == [k \in DOMAIN ms \cup {Len(ms) + 1} |-> IF k \in DOMAIN ms THEN ms[k] ELSE m]
Before(ms, j) == [k \in {k \in DOMAIN ms : k < j} |-> ms[k]]

Written(m, status, text) ==
    [id |-> m.id, role |-> m.role, status |-> status, of |-> m.of, text |-> text]

IsGenerating(m) == m.status \in Generating
AnyGenerating == \E i \in DOMAIN message : IsGenerating(message[i])

Save(ms) == [do |-> "save", list |-> ms]
ShowDefault == [do |-> "default", list |-> Default]
\* setTimeout(..., 0).
Later(callback) == Len(timers) < MaxTimers /\ timers' = Append(timers, callback)

\* The storage without the key; a stored list says who wrote it.
Nothing == [by |-> "nobody", list |-> <<>>]
NoDialog == [kind |-> "none"]
NotEditing == [id |-> 0]

Init ==
    /\ message = Default
    /\ initial = FALSE
    /\ messageId = 4
    /\ request = [r \in Requests |-> "unused"]
    /\ sseSourceRef = "null"
    /\ timers = <<>> /\ resends = 0 /\ answers = 0
    /\ dialog = NoDialog
    /\ editing = NotEditing
    /\ saved = Nothing /\ unsaved = FALSE
    /\ crashed = FALSE
    /\ ops = 0 /\ reloads = 0

-----------------------------------------------------------------------------
(* What a request does to the list. *)

\* streamMessageUpdate: only a generating assistant message at the end of the list
\* takes text.
StreamMessageUpdate(ms, r) ==
    IF ms # <<>> /\ LastOf(ms).role = "assistant" /\ IsGenerating(LastOf(ms))
    THEN WithLast(ms, Written(LastOf(ms), "incomplete", LastOf(ms).text \cup {r}))
    ELSE ms

\* Mutant: an error is shown and not saved.
CompleteMessageUnsaved(ms, status) ==
    IF ms = <<>>
    THEN crashed' = TRUE /\ UNCHANGED <<message, timers>>
    ELSE /\ UNCHANGED crashed
         /\ IF LastOf(ms).status \in Final
            THEN message' = ms /\ UNCHANGED timers
            ELSE LET updated == WithLast(ms, [LastOf(ms) EXCEPT !.status = status])
                 IN  /\ message' = updated
                     /\ IF status = "error" THEN UNCHANGED timers ELSE Later(Save(updated))

\* completeMessage: it reads the last message without asking whether there is one,
\* and marks it whatever its role.
CompleteMessage(ms, status) ==
    IF ms = <<>>
    THEN crashed' = TRUE /\ UNCHANGED <<message, timers>>
    ELSE /\ UNCHANGED crashed
         /\ IF LastOf(ms).status \in Final
            THEN message' = ms /\ UNCHANGED timers
            ELSE LET updated == WithLast(ms, [LastOf(ms) EXCEPT !.status = status])
                 IN  message' = updated /\ Later(Save(updated))

\* sendRequest: a stream becomes the one that Stop closes.
SendRequest(r) ==
    /\ request[r] = "unused"
    /\ request' = [request EXCEPT ![r] = "open"]
    /\ sseSourceRef' = IF r \in Streams THEN r ELSE sseSourceRef

Live(r) == ~crashed /\ request[r] = "open"

Close(r) == request' = [request EXCEPT ![r] = "closed"]

\* A 'message' event with a delta.
Chunk(r) ==
    /\ Live(r) /\ r \in Streams
    /\ message' = StreamMessageUpdate(message, r)
    /\ UNCHANGED <<initial, messageId, netVars, laterVars, userVars, storeVars, crashed,
                   boundVars>>

\* The 'message' event [DONE].
Done(r) ==
    /\ Live(r) /\ r \in Streams
    /\ Close(r)
    /\ sseSourceRef' = "null"
    /\ CompleteMessage(message, "complete")
    /\ UNCHANGED <<initial, messageId, resends, answers, userVars, storeVars, boundVars>>

\* A 'message' event that is not JSON: the stream stays open.
ParseError(r) ==
    /\ Live(r) /\ r \in Streams
    /\ CompleteMessage(StreamMessageUpdate(message, r), "error")
    /\ UNCHANGED <<initial, messageId, netVars, resends, answers, userVars, storeVars,
                   boundVars>>

\* The 'error' event of a stream.
StreamError(r) ==
    /\ Live(r) /\ r \in Streams
    /\ Close(r)
    /\ sseSourceRef' = "null"
    /\ CompleteMessage(StreamMessageUpdate(message, r), "error")
    /\ UNCHANGED <<initial, messageId, resends, answers, userVars, storeVars, boundVars>>

\* 'readystatechange' with a status other than 200: sseSourceRef keeps the closed stream.
StatusError(r) ==
    /\ Live(r) /\ r \in Streams
    /\ Close(r)
    /\ CompleteMessage(StreamMessageUpdate(message, r), "error")
    /\ UNCHANGED <<initial, messageId, sseSourceRef, resends, answers, userVars, storeVars,
                   boundVars>>

\* A request that ends without anything for the list: a stream that closes without
\* [DONE], an answer without choices.
EndsSilently(r) ==
    /\ Live(r)
    /\ Close(r)
    /\ UNCHANGED <<message, initial, messageId, sseSourceRef, laterVars, userVars,
                   storeVars, crashed, boundVars>>

\* handleNonStreamRequest writes into a message that is still loading, and does not save.
FetchAnswered(r, status) ==
    /\ Live(r) /\ r \in Fetches
    /\ Close(r)
    /\ message' = IF message # <<>> /\ LastOf(message).status = "loading"
                  THEN WithLast(message, Written(LastOf(message), status, {r}))
                  ELSE message
    /\ UNCHANGED <<initial, messageId, sseSourceRef, laterVars, userVars, storeVars,
                   crashed, boundVars>>

-----------------------------------------------------------------------------
(* Sending and stopping. *)

\* onMessageSend: the question and a loading message are appended, the request goes
\* out, and the list is saved from a timer.  Three ids are used up: the first is that of a
\* question which is made again, with its pictures, after the loading message.
OnMessageSend(r) ==
    /\ SendRequest(r)
    /\ LET asked == Push(Push(message, UserMessage(messageId + 2, r)),
                         LoadingMessage(messageId + 1, r))
       IN  /\ message' = asked
           /\ Later(Save(asked))
    /\ messageId' = messageId + 3
    /\ UNCHANGED <<initial, storeVars, crashed, boundVars>>

\* The controls of the page answer while no dialog covers them.
Idle == ~crashed /\ dialog = NoDialog

Operate == ops < MaxOps /\ ops' = ops + 1

\* The chat component sends only when the last message is not being generated.
Send(r) ==
    /\ Idle
    /\ message # <<>> => ~IsGenerating(LastOf(message))
    /\ OnMessageSend(r)
    /\ UNCHANGED <<resends, answers, userVars>>

\* onStopGenerator, offered while the last message is being generated.
Stop ==
    /\ Idle
    /\ message # <<>> /\ IsGenerating(LastOf(message))
    /\ request' = IF sseSourceRef = "null" THEN request
                  ELSE [request EXCEPT ![sseSourceRef] = "closed"]
    /\ sseSourceRef' = "null"
    /\ LET updated == WithLast(message, [LastOf(message) EXCEPT !.status = "complete"])
       IN  message' = updated /\ Later(Save(updated))
    /\ UNCHANGED <<initial, messageId, resends, answers, userVars, storeVars, crashed,
                   boundVars>>

\* handleClearMessages: the stream that feeds the list is not closed.
Clear ==
    /\ Idle /\ Operate
    /\ message' = <<>>
    /\ Later(Save(<<>>))
    /\ UNCHANGED <<initial, messageId, netVars, resends, answers, userVars, storeVars,
                   crashed, reloads>>

-----------------------------------------------------------------------------
(* The actions on one message, disabled while any message is being generated. *)

Touch(i) ==
    /\ Idle
    /\ i \in DOMAIN message
    /\ ~AnyGenerating
    /\ message[i].id # editing.id
    /\ Operate

\* The user message a regeneration starts from.
QuestionOf(i) ==
    IF message[i].role = "user" THEN {i}
    ELSE {j \in 1 .. i - 1 : /\ message[j].role = "user"
                             /\ \A k \in j + 1 .. i - 1 : message[k].role # "user"}

\* handleMessageReset: the list is cut before the question, which is sent again later.
Regenerate(i) ==
    /\ Touch(i)
    /\ \E j \in QuestionOf(i) : message' = Before(message, j)
    /\ resends' = resends + 1
    /\ UNCHANGED <<initial, messageId, netVars, timers, answers, userVars, storeVars,
                   crashed, reloads>>

\* Its timer: whatever the list holds by then, the question is appended to it.
Resend(r) ==
    /\ ~crashed
    /\ resends > 0
    /\ resends' = resends - 1
    /\ OnMessageSend(r)
    /\ UNCHANGED <<answers, userVars>>

\* handleRoleToggle: every assistant or system message with the id.
RoleToggle(i) ==
    /\ Touch(i)
    /\ message[i].role # "user"
    /\ LET role == IF message[i].role = "assistant" THEN "system" ELSE "assistant"
           updated == [j \in DOMAIN message |->
                          IF message[j].id = message[i].id /\ message[j].role # "user"
                          THEN [message[j] EXCEPT !.role = role] ELSE message[j]]
       IN  message' = updated /\ Later(Save(updated))
    /\ UNCHANGED <<initial, messageId, netVars, resends, answers, userVars, storeVars,
                   crashed, reloads>>

\* The first message equal to m, or else the first with the id.
Find(ms, m, id) ==
    LET same == {i \in DOMAIN ms : ms[i] = m}
        alike == {i \in DOMAIN ms : ms[i].id = id}
        found == IF same # {} THEN same ELSE alike
    IN  {i \in found : \A j \in found : i <= j}

\* handleMessageDelete asks first.
AskDelete(i) ==
    /\ Touch(i)
    /\ dialog' = [kind |-> "delete", target |-> message[i]]
    /\ UNCHANGED <<message, initial, messageId, netVars, laterVars, editing, storeVars,
                   crashed, reloads>>

\* A question goes with the reply that follows it; any other message goes by its id.
Deleted(i, m) ==
    IF m.role = "user" /\ i < Len(message) /\ message[i + 1].role = "assistant"
    THEN SubSeq(message, 1, i - 1) \o SubSeq(message, i + 2, Len(message))
    ELSE SelectSeq(message, LAMBDA each : each.id # m.id)

ConfirmDelete ==
    /\ ~crashed /\ dialog.kind = "delete"
    /\ dialog' = NoDialog
    /\ LET m == dialog.target
           at == Find(message, m, m.id)
       IN  IF at = {} THEN UNCHANGED <<message, timers>>
           ELSE \E i \in at : /\ message' = Deleted(i, m)
                              /\ Later(Save(message'))
    /\ UNCHANGED <<initial, messageId, netVars, resends, answers, editing, storeVars,
                   crashed, boundVars>>

\* handleMessageEdit opens the editor, handleEditCancel closes it.
Edit(i) ==
    /\ Touch(i)
    /\ editing' = [id |-> message[i].id, ref |-> message[i]]
    /\ UNCHANGED <<message, initial, messageId, netVars, laterVars, dialog, storeVars,
                   crashed, reloads>>

EditCancel ==
    /\ Idle /\ editing # NotEditing
    /\ editing' = NotEditing
    /\ UNCHANGED <<message, initial, messageId, netVars, laterVars, dialog, storeVars,
                   crashed, boundVars>>

Edited == [j \in DOMAIN message |->
              IF message[j].id = editing.id
              THEN [message[j] EXCEPT !.text = @ \cup {"edited"}] ELSE message[j]]

\* handleEditSave: an edited question with a reply asks whether to regenerate, and the
\* dialog keeps the lists of this moment.  The editor is part of the message it edits.
EditSave ==
    /\ Idle /\ editing # NotEditing
    /\ \E i \in Find(message, editing.ref, editing.id) :
           IF /\ message[i].role = "user"
              /\ i < Len(message) /\ message[i + 1].role = "assistant"
           THEN /\ dialog' = [kind |-> "edit", until |-> Before(Edited, i + 1), all |-> Edited]
                /\ UNCHANGED <<message, timers>>
           ELSE /\ message' = Edited
                /\ Later(Save(Edited))
                /\ UNCHANGED dialog
    /\ editing' = NotEditing
    /\ UNCHANGED <<initial, messageId, netVars, resends, answers, storeVars, crashed,
                   boundVars>>

\* The two answers to that dialog.
EditAnswer(regenerate) ==
    /\ ~crashed /\ dialog.kind = "edit"
    /\ LET list == IF regenerate THEN dialog.until ELSE dialog.all
       IN  message' = list /\ Later(Save(list))
    /\ answers' = answers + (IF regenerate THEN 1 ELSE 0)
    /\ dialog' = NoDialog
    /\ UNCHANGED <<initial, messageId, netVars, resends, editing, storeVars, crashed,
                   boundVars>>

\* The timer of a regeneration after an edit; this list is not saved.
Answer(r) ==
    /\ ~crashed
    /\ answers > 0
    /\ answers' = answers - 1
    /\ SendRequest(r)
    /\ message' = Push(message, LoadingMessage(messageId, r))
    /\ messageId' = messageId + 1
    /\ UNCHANGED <<initial, resends, timers, userVars, storeVars, crashed, boundVars>>

-----------------------------------------------------------------------------
(* The settings, the language, the copy in localStorage. *)

\* Lists that a settings file holds: the default messages, or a conversation exported in
\* the middle of an answer.
Files == {Default, <<UserMessage(6, "file"), LoadingMessage(5, "file")>>}

\* importConfig stores the list of the file before the user is asked; like every
\* saveMessages, it goes on when the storage refuses the list.
Import(list) ==
    /\ Idle
    /\ Operate
    /\ \/ saved' = [by |-> "settings", list |-> list] /\ unsaved' = FALSE
       \/ UNCHANGED storeVars
    /\ dialog' = [kind |-> "import", list |-> list]
    /\ UNCHANGED <<message, initial, messageId, netVars, laterVars, editing, crashed,
                   reloads>>

\* handleConfigImport.
ConfirmImport ==
    /\ ~crashed /\ dialog.kind = "import"
    /\ message' = dialog.list
    /\ dialog' = NoDialog
    /\ UNCHANGED <<initial, messageId, netVars, laterVars, editing, storeVars, crashed,
                   boundVars>>

\* The dialog of a deletion or of an import is dismissed.
Dismiss ==
    /\ ~crashed /\ dialog.kind \in {"delete", "import"}
    /\ dialog' = NoDialog
    /\ UNCHANGED <<message, initial, messageId, netVars, laterVars, editing, storeVars,
                   crashed, boundVars>>

\* clearConfig removes the messages from the storage whether or not the user keeps them.
ConfigReset(resetMessages) ==
    /\ Idle
    /\ Operate
    /\ saved' = Nothing /\ unsaved' = FALSE
    /\ IF resetMessages
       THEN message' = <<>> /\ Later(ShowDefault)
       ELSE UNCHANGED <<message, timers>>
    /\ UNCHANGED <<initial, messageId, netVars, resends, answers, userVars, crashed,
                   reloads>>

\* The effect on [t]: a page that found nothing stored shows the default messages again.
LanguageChanges ==
    /\ Idle /\ Operate
    /\ ~initial
    /\ message' = Default
    /\ UNCHANGED <<initial, messageId, netVars, laterVars, userVars, storeVars, crashed,
                   reloads>>

\* saveMessages writes the whole list.  setItem throws when the storage is full: the
\* error is logged and the old copy stays.
SaveMessages(list) ==
    \/ saved' = [by |-> "page", list |-> list] /\ unsaved' = FALSE
    \/ UNCHANGED saved /\ unsaved' = (saved.by = "page")

\* The first callback of the queue; it runs on a page that is gone, too.
RunTimer ==
    /\ timers # <<>>
    /\ timers' = Tail(timers)
    /\ IF Head(timers).do = "save"
       THEN SaveMessages(Head(timers).list) /\ UNCHANGED message
       ELSE message' = (IF crashed THEN message ELSE Default) /\ UNCHANGED storeVars
    /\ UNCHANGED <<initial, messageId, netVars, resends, answers, userVars, crashed,
                   boundVars>>

\* The page is loaded again: the stored list is shown, and its last message repaired
\* when it was being generated; the ids start over.
Reload ==
    /\ reloads < MaxReloads /\ reloads' = reloads + 1
    /\ initial' = (saved # Nothing)
    /\ LET loaded == IF saved = Nothing THEN Default ELSE saved.list
           repaired == WithLast(loaded, [LastOf(loaded) EXCEPT !.status = "complete"])
       IN  IF loaded # <<>> /\ IsGenerating(LastOf(loaded))
           THEN message' = repaired /\ timers' = <<Save(repaired)>>
           ELSE message' = loaded /\ timers' = <<>>
    /\ messageId' = 4
    /\ request' = [r \in Requests |-> IF request[r] = "open" THEN "closed" ELSE request[r]]
    /\ sseSourceRef' = "null"
    /\ resends' = 0 /\ answers' = 0
    /\ dialog' = NoDialog /\ editing' = NotEditing
    /\ crashed' = FALSE
    /\ unsaved' = FALSE
    /\ UNCHANGED <<saved, ops>>

-----------------------------------------------------------------------------

Network(r) ==
    \/ Chunk(r) \/ Done(r) \/ ParseError(r) \/ StreamError(r) \/ StatusError(r)
    \/ EndsSilently(r)
    \/ \E status \in Final : FetchAnswered(r, status)

Next ==
    \/ \E r \in Requests : Network(r) \/ Send(r) \/ Resend(r) \/ Answer(r)
    \/ Stop \/ Clear
    \/ \E i \in DOMAIN message : Regenerate(i) \/ RoleToggle(i) \/ AskDelete(i) \/ Edit(i)
    \/ ConfirmDelete \/ EditCancel \/ EditSave
    \/ \E regenerate \in BOOLEAN : EditAnswer(regenerate)
    \/ \E list \in Files : Import(list)
    \/ ConfirmImport \/ Dismiss
    \/ \E resetMessages \in BOOLEAN : ConfigReset(resetMessages)
    \/ LanguageChanges \/ RunTimer \/ Reload

Spec == Init /\ [][Next]_vars

-----------------------------------------------------------------------------
(* Properties. *)

\* What must outlive the page: the questions asked on it, and the streamed answers that
\* are final.  An answer that was fetched in one piece is not saved when it arrives, and
\* imported messages are stored by the import, before it is confirmed.
Lasting(m) ==
    /\ m.of \in Requests
    /\ m.role = "user" \/ m.status \in Final
    /\ m.text \cap Fetches = {}

\* When the timers have run, the page was the last to write the storage and its last
\* save did not fail, every lasting message on the screen is stored as it is shown, in
\* whatever order answers, errors, stops, edits, deletions and stale dialogs have changed
\* the list: a save that fails is made good by the next one, since each writes the whole
\* list.
Stored ==
    timers = <<>> /\ saved.by = "page" /\ ~unsaved =>
        \A i \in DOMAIN message :
            Lasting(message[i]) => \E j \in DOMAIN saved.list : saved.list[j] = message[i]

\* A message holds only the words of the request it was made for, and of the user.
OwnWords ==
    \A i \in DOMAIN message : message[i].text \subseteq {message[i].of, "edited"}

\* A confirmed deletion takes the message it was asked for and its reply, and no other:
\* the comment of handleMessageDelete says that duplicate ids cause no mismatch.
DeletesOne ==
    [][dialog.kind = "delete" /\ dialog' = NoDialog /\ reloads' = reloads =>
          \A i \in DOMAIN message :
              \/ \E j \in DOMAIN message' : message'[j] = message[i]
              \/ message[i] = dialog.target
              \/ i > 1 /\ message[i - 1] = dialog.target]_vars
=============================================================================

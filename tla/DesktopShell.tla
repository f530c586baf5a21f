---------------------------- MODULE DesktopShell ----------------------------
(***************************************************************************)
(* The desktop application, electron/main.js: it starts the server binary  *)
(* as a child process, probes its port, opens a window and a tray icon,    *)
(* tells the user when the server fails, and takes the server down with it *)
(* when it quits.  Every action is one callback of the event loop; the     *)
(* child process, the port and the user are its environment.               *)
(***************************************************************************)
EXTENDS Integers, FiniteSets

CONSTANTS
    Windows,     \* BrowserWindow objects
    maxRetries,  \* attempts after which checkServerAvailability gives up
    MaxQuits     \* bound on the requests to quit that wait for the server

ASSUME ShellAssumption ==
    /\ maxRetries \in Nat \ {0}
    /\ MaxQuits \in Nat \ {0}
    /\ "undefined" \notin Windows /\ "null" \notin Windows

VARIABLES
    isDev,          \* NODE_ENV is development
    serverProcess,  \* what the variable refers to: undefined, the child, or null
    server,         \* the child itself
    code,           \* how the child ended
    port,           \* another program answers on the probed port
    startup,        \* the promise of startServer
    attempt,        \* currentAttempt
    requests,       \* probes without an answer yet
    retries,        \* probes that setTimeout will start
    mainWindow,     \* the variable of that name
    win,            \* win[w]: the window w does not exist, is shown or is hidden
    tray,           \* createTray has run
    isQuitting,     \* app.isQuitting
    dialogs,        \* message boxes on the screen
    timers,         \* timers of before-quit that have not fired
    exited          \* the application is gone

processVars == <<serverProcess, server, code, port>>
probeVars == <<startup, attempt, requests, retries>>
windowVars == <<mainWindow, win, tray>>
quitVars == <<isQuitting, timers, exited>>
vars == <<isDev, serverProcess, server, code, port, startup, attempt, requests, retries,
          mainWindow, win, tray, isQuitting, dialogs, timers, exited>>

Running == {"starting", "listening"}

Init ==
    /\ isDev \in BOOLEAN
    /\ serverProcess = "undefined"
    /\ server = "none"
    /\ code = "none"
    /\ port \in BOOLEAN
    /\ startup = "not called"
    /\ attempt = 0 /\ requests = 0 /\ retries = 0
    /\ mainWindow = "undefined"
    /\ win = [w \in Windows |-> "none"]
    /\ tray = FALSE
    /\ isQuitting = FALSE
    /\ dialogs = {}
    /\ timers = 0
    /\ exited = FALSE

-----------------------------------------------------------------------------
(* Windows. *)

Open == {w \in Windows : win[w] # "none"}

\* createWindow: the variable is overwritten, whatever it referred to.
CreateWindow ==
    \E w \in Windows \ Open :
        /\ mainWindow' = w
        /\ win' = [win EXCEPT ![w] = "shown"]

\* The handlers of 'close' and 'closed': both name the variable, not the window
\* that is being closed.  A quitting application lets go of ws.
CloseHandler(ws, quitting) ==
    IF quitting
    THEN /\ win' = [w \in Windows |-> IF w \in ws THEN "none" ELSE win[w]]
         /\ mainWindow' = IF ws = {} THEN mainWindow ELSE "null"
    ELSE /\ win' = IF ws = {} THEN win ELSE [win EXCEPT ![mainWindow] = "hidden"]
         /\ UNCHANGED mainWindow

\* The user closes a window.
UserCloses(w) ==
    /\ win[w] = "shown"
    /\ CloseHandler({w}, isQuitting)
    /\ UNCHANGED <<isDev, processVars, probeVars, tray, quitVars, dialogs>>

\* 'Show' of the tray's menu.
TrayShow ==
    /\ tray
    /\ IF mainWindow = "null"
       THEN CreateWindow
       ELSE win' = [win EXCEPT ![mainWindow] = "shown"] /\ UNCHANGED mainWindow
    /\ UNCHANGED <<isDev, processVars, probeVars, tray, quitVars, dialogs>>

\* A click on the tray icon.
TrayClick ==
    /\ tray
    /\ IF mainWindow = "null"
       THEN CreateWindow
       ELSE /\ win' = [win EXCEPT ![mainWindow] = IF @ = "shown" THEN "hidden" ELSE "shown"]
            /\ UNCHANGED mainWindow
    /\ UNCHANGED <<isDev, processVars, probeVars, tray, quitVars, dialogs>>

\* 'activate', which a click on the dock icon emits also while the server starts.
Activate ==
    /\ startup # "not called"
    /\ Open = {}
    /\ CreateWindow
    /\ UNCHANGED <<isDev, processVars, probeVars, tray, quitVars, dialogs>>

-----------------------------------------------------------------------------
(* Starting, and the probes of checkServerAvailability. *)

\* whenReady calls startServer, which spawns the binary unless in development,
\* and sends the first probe.
Ready ==
    /\ startup = "not called"
    /\ startup' = "pending"
    /\ IF isDev
       THEN UNCHANGED <<serverProcess, server>>
       ELSE serverProcess' = "child" /\ server' \in {"starting", "failed"}
    /\ attempt' = 1 /\ requests' = 1
    /\ UNCHANGED <<isDev, code, port, retries, windowVars, quitVars, dialogs>>

\* The directory cannot be made, or spawn throws: the promise is rejected before there
\* is a child, and no probe is sent.
ReadyThrows ==
    /\ startup = "not called" /\ ~isDev
    /\ startup' = "rejected" /\ dialogs' = dialogs \cup {"startup"}
    /\ UNCHANGED <<isDev, processVars, attempt, requests, retries, windowVars, quitVars>>

\* The rest of whenReady, once the promise is settled.  It is settled once.
Resolve ==
    IF startup = "pending"
    THEN startup' = "resolved" /\ tray' = TRUE /\ CreateWindow /\ UNCHANGED dialogs
    ELSE UNCHANGED <<startup, windowVars, dialogs>>

Reject ==
    /\ IF startup = "pending"
       THEN startup' = "rejected" /\ dialogs' = dialogs \cup {"startup"}
       ELSE UNCHANGED <<startup, dialogs>>
    /\ UNCHANGED windowVars

Answering == port \/ server = "listening"

ProbeAnswered ==
    /\ requests > 0 /\ Answering
    /\ requests' = requests - 1
    /\ Resolve
    /\ UNCHANGED <<isDev, processVars, attempt, retries, quitVars>>

\* Mutant: the last attempt ends without rejecting.
RetryQuietly(n) ==
    /\ retries' = IF attempt >= maxRetries THEN retries ELSE retries + n
    /\ UNCHANGED <<startup, dialogs, windowVars>>

\* Mutant: the attempts are not compared with their limit.
RetryAlways(n) ==
    /\ attempt < 3 * maxRetries
    /\ retries' = retries + n
    /\ UNCHANGED <<startup, dialogs, windowVars>>

\* What the handlers of a failed probe do, n of them.
RetryOrReject(n) ==
    IF attempt >= maxRetries
    THEN Reject /\ UNCHANGED retries
    ELSE retries' = retries + n /\ UNCHANGED <<startup, dialogs, windowVars>>

ProbeRefused ==
    /\ requests > 0 /\ ~Answering
    /\ requests' = requests - 1
    /\ RetryOrReject(1)
    /\ UNCHANGED <<isDev, processVars, attempt, quitVars>>

\* The handler of 'timeout' destroys the request, which emits 'error' as well.
ProbeTimeout ==
    /\ requests > 0 /\ Answering
    /\ requests' = requests - 1
    /\ RetryOrReject(2)
    /\ UNCHANGED <<isDev, processVars, attempt, quitVars>>

TryConnect ==
    /\ retries > 0
    /\ retries' = retries - 1
    /\ attempt' = attempt + 1
    /\ requests' = requests + 1
    /\ UNCHANGED <<isDev, processVars, startup, windowVars, quitVars, dialogs>>

-----------------------------------------------------------------------------
(* The child process and the port. *)

ServerListens ==
    /\ server = "starting" /\ ~port
    /\ server' = "listening"
    /\ UNCHANGED <<isDev, serverProcess, code, port, probeVars, windowVars, quitVars, dialogs>>

\* Another program takes the port; in development it is the frontend's server.
PortTaken ==
    /\ ~port /\ server # "listening"
    /\ port' = TRUE
    /\ UNCHANGED <<isDev, serverProcess, server, code, probeVars, windowVars, quitVars, dialogs>>

\* The child ends by itself, by an error, or by a signal (code null).
ServerDies ==
    /\ server \in Running
    /\ server' = "dead"
    /\ code' \in {"zero", "nonzero", "null"}
    /\ UNCHANGED <<isDev, serverProcess, port, probeVars, windowVars, quitVars, dialogs>>

\* The binary could not be spawned: 'error', and then 'close' with a negative code.
SpawnError ==
    /\ server = "failed"
    /\ server' = "dead" /\ code' = "nonzero"
    /\ Reject
    /\ UNCHANGED <<isDev, serverProcess, port, attempt, requests, retries, quitVars>>

\* Mutant: the handler also clears mainWindow.
ServerClosedForgets ==
    /\ server = "dead" /\ ~exited
    /\ server' = "closed"
    /\ IF code = "nonzero"
       THEN dialogs' = dialogs \cup {"crash"} /\ UNCHANGED <<mainWindow, win>>
       ELSE mainWindow' = "null" /\ UNCHANGED <<win, dialogs>>
    /\ IF timers > 0
       THEN serverProcess' = "null" /\ exited' = TRUE
       ELSE UNCHANGED <<serverProcess, exited>>
    /\ UNCHANGED <<isDev, code, port, probeVars, tray, isQuitting, timers>>

\* 'close': the handler of startServer, and then those of before-quit, if any.
ServerClosed ==
    /\ server = "dead" /\ ~exited
    /\ server' = "closed"
    /\ IF code = "nonzero"
       THEN dialogs' = dialogs \cup {"crash"} /\ UNCHANGED <<mainWindow, win>>
       ELSE /\ CloseHandler({mainWindow} \cap Windows, isQuitting)
            /\ UNCHANGED dialogs
    /\ IF timers > 0
       THEN serverProcess' = "null" /\ exited' = TRUE
       ELSE UNCHANGED <<serverProcess, exited>>
    /\ UNCHANGED <<isDev, code, port, probeVars, tray, isQuitting, timers>>

-----------------------------------------------------------------------------
(* Quitting. *)

\* Mutant: before-quit waits for the child without a timer.
QuitUntimed(quitting) ==
    IF serverProcess = "child"
    THEN /\ timers < MaxQuits
         /\ UNCHANGED <<timers, exited, mainWindow, win>>
    ELSE /\ CloseHandler(Open, quitting)
         /\ exited' = (quitting \/ Open = {})
         /\ UNCHANGED timers

\* app.quit: before-quit holds it back while there is a child, asks that to
\* terminate and sets a timer; otherwise the windows are closed, and the
\* application ends unless one of them refuses.
Quit(quitting) ==
    IF serverProcess = "child"
    THEN /\ timers < MaxQuits
         /\ timers' = timers + 1
         /\ UNCHANGED <<exited, mainWindow, win>>
    ELSE /\ CloseHandler(Open, quitting)
         /\ exited' = (quitting \/ Open = {})
         /\ UNCHANGED timers

\* Mutant: the application leaves without killing the child.
ShutdownTimerGentle ==
    /\ timers > 0
    /\ timers' = timers - 1
    /\ exited' = TRUE
    /\ UNCHANGED <<isDev, processVars, probeVars, windowVars, isQuitting, dialogs>>

\* Mutant: the application leaves only if there was a child to kill.
ShutdownTimerIfRunning ==
    /\ timers > 0
    /\ timers' = timers - 1
    /\ IF serverProcess = "child" /\ server \in Running
       THEN server' = "dead" /\ code' = "null" /\ exited' = TRUE
       ELSE UNCHANGED <<server, code, exited>>
    /\ UNCHANGED <<isDev, serverProcess, port, probeVars, windowVars, isQuitting, dialogs>>

\* Five seconds after before-quit.
ShutdownTimer ==
    /\ timers > 0
    /\ timers' = timers - 1
    /\ IF serverProcess = "child" /\ server \in Running
       THEN server' = "dead" /\ code' = "null"
       ELSE UNCHANGED <<server, code>>
    /\ exited' = TRUE
    /\ UNCHANGED <<isDev, serverProcess, port, probeVars, windowVars, isQuitting, dialogs>>

\* 'Quit' of the tray's menu.
TrayQuit ==
    /\ tray
    /\ isQuitting' = TRUE
    /\ Quit(TRUE)
    /\ UNCHANGED <<isDev, processVars, probeVars, tray, dialogs>>

\* Any other way to quit: the application menu, the session ends.
SystemQuit ==
    /\ startup # "not called"
    /\ Quit(isQuitting)
    /\ UNCHANGED <<isDev, processVars, probeVars, tray, isQuitting, dialogs>>

\* The user asks for the log in one of the two message boxes.
ReadLog(d, log) ==
    /\ d \in dialogs
    /\ dialogs' = (dialogs \ {d}) \cup {log}
    /\ UNCHANGED <<isDev, processVars, probeVars, windowVars, quitVars>>

\* The user leaves a message box about a crash, or the one after it.
LeaveCrash(d) ==
    /\ d \in dialogs
    /\ dialogs' = dialogs \ {d}
    /\ isQuitting' = TRUE
    /\ Quit(TRUE)
    /\ UNCHANGED <<isDev, processVars, probeVars, tray>>

\* The same for a failed start, which does not set app.isQuitting.
LeaveStartup(d) ==
    /\ d \in dialogs
    /\ dialogs' = dialogs \ {d}
    /\ Quit(isQuitting)
    /\ UNCHANGED <<isDev, processVars, probeVars, tray, isQuitting>>

-----------------------------------------------------------------------------
\* Callbacks that the event loop is bound to run.
Probe == ProbeAnswered \/ ProbeRefused \/ ProbeTimeout

User ==
    \/ \E w \in Windows : UserCloses(w)
    \/ TrayShow \/ TrayClick \/ Activate \/ TrayQuit \/ SystemQuit
    \/ ReadLog("crash", "crashLog") \/ ReadLog("startup", "startupLog")
    \/ \E d \in {"crash", "crashLog"} : LeaveCrash(d)
    \/ \E d \in {"startup", "startupLog"} : LeaveStartup(d)

Loop == Ready \/ ReadyThrows \/ Probe \/ TryConnect \/ SpawnError \/ ServerClosed \/ ShutdownTimer
        \/ User

\* The child and the port go on after the application is gone.
Next == (~exited /\ Loop) \/ ServerListens \/ PortTaken \/ ServerDies

Spec == Init /\ [][Next]_vars

\* Requests are answered or time out, and timers fire.
Fairness ==
    /\ WF_vars(~exited /\ Ready)
    /\ WF_vars(~exited /\ Probe)
    /\ WF_vars(~exited /\ TryConnect)
    /\ WF_vars(~exited /\ ShutdownTimer)

FairSpec == Spec /\ Fairness

-----------------------------------------------------------------------------
(* Properties. *)

TypeOK ==
    /\ isDev \in BOOLEAN
    /\ serverProcess \in {"undefined", "child", "null"}
    /\ server \in {"none", "failed", "starting", "listening", "dead", "closed"}
    /\ code \in {"none", "zero", "nonzero", "null"}
    /\ port \in BOOLEAN
    /\ startup \in {"not called", "pending", "resolved", "rejected"}
    /\ attempt \in Nat /\ requests \in Nat /\ retries \in Nat
    /\ mainWindow \in Windows \cup {"undefined", "null"}
    /\ win \in [Windows -> {"none", "shown", "hidden"}]
    /\ tray \in BOOLEAN
    /\ isQuitting \in BOOLEAN
    /\ dialogs \subseteq {"crash", "crashLog", "startup", "startupLog"}
    /\ timers \in 0 .. MaxQuits
    /\ exited \in BOOLEAN

\* The application never leaves its server behind: once it is gone the child has
\* ended or was killed, whichever of the timer, the child's end and a second
\* request to quit came first (before-quit).
NoOrphan == exited => server \notin Running

\* Every timed-out probe schedules two more, and still no more than
\* 2 * maxRetries - 1 attempts are made (the counter that the handlers share).
AttemptsBounded == attempt + retries <= 2 * maxRetries - 1

\* The application is not left running with nothing to be seen of it: it probes, has its
\* tray icon, shows a message box, or is about to exit.  The exception is a start without
\* a child to wait for, in development or because spawn threw: a window that the dock icon
\* opened meanwhile refuses to close when the message box quits, and is hidden.
NeverStranded ==
    ~exited /\ startup # "not called" =>
        \/ startup = "pending" /\ requests + retries > 0
        \/ tray \/ dialogs # {} \/ timers > 0
        \/ serverProcess = "undefined" /\ Open # {}

\* The same for the application as it is installed, without the exception.
InstalledNeverStranded ==
    ~isDev /\ ~exited /\ startup # "not called" =>
        \/ startup = "pending" /\ requests + retries > 0
        \/ tray \/ dialogs # {} \/ timers > 0

\* While it is not quitting, the handlers find a window in mainWindow when there
\* is any, so that hide() has an object.
HandlersSafe ==
    /\ Open # {} /\ ~isQuitting => mainWindow \in Open
    /\ tray => mainWindow # "undefined"

\* A request to quit through the tray or a crash, and any other one that waits
\* for the server, ends the application, although the server may ignore SIGTERM
\* or have ended long before.
QuitEnds == isQuitting \/ timers > 0 ~> exited

\* The user is not kept waiting for ever: the start succeeds or is given up.
StartupSettles == startup = "pending" ~> startup # "pending" \/ exited

\* "Close to tray": a window that the user closes disappears from the screen.
CloseToTray ==
    [][\A w \in Windows : UserCloses(w) => win'[w] # "shown"]_vars
=============================================================================

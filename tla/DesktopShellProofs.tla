------------------------- MODULE DesktopShellProofs -------------------------
(***************************************************************************)
(* Theorems about DesktopShell, for every limit of the probes, any number  *)
(* of windows and of requests to quit.                                     *)
(***************************************************************************)
EXTENDS DesktopShell, TLAPS

\* The variable serverProcess tells whether there is a child to take down.
Child ==
    /\ serverProcess = "undefined" => server = "none"
    /\ serverProcess = "null" => exited /\ server = "closed"
    /\ startup = "not called" => serverProcess = "undefined" /\ ~tray /\ ~exited
    /\ startup = "not called" => timers = 0 /\ dialogs = {}

\* Every probe in flight pays for the two that it may schedule.
Paid == retries + 2 * requests <= attempt + 1

Visible ==
    \/ dialogs # {} \/ timers > 0 \/ exited
    \/ serverProcess = "undefined" /\ Open # {}

\* Without a child only the tray quits in earnest.
Childless ==
    /\ tray => startup = "resolved"
    /\ serverProcess = "undefined" /\ isQuitting => startup = "resolved"
    /\ serverProcess = "undefined" => "crash" \notin dialogs /\ "crashLog" \notin dialogs

\* As long as nothing was decided a probe is under way, and what was decided
\* can be seen.
Seen ==
    /\ startup = "pending" => requests + retries > 0
    /\ startup = "resolved" => tray
    /\ startup = "rejected" => Visible

\* mainWindow refers to a window until the application quits.
Main ==
    /\ mainWindow = "null" => isQuitting
    /\ mainWindow = "undefined" => Open = {} /\ ~tray
    /\ mainWindow \in Windows /\ ~isQuitting => win[mainWindow] # "none"

LEMMA Numbers == maxRetries \in Nat /\ maxRetries > 0 /\ MaxQuits \in Nat /\ MaxQuits > 0
BY ShellAssumption

LEMMA Names == "undefined" \notin Windows /\ "null" \notin Windows
BY ShellAssumption

-----------------------------------------------------------------------------
\* The parts of the type: the flags, the counters, and everything else.
Flags ==
    /\ isDev \in BOOLEAN /\ port \in BOOLEAN /\ tray \in BOOLEAN
    /\ isQuitting \in BOOLEAN /\ exited \in BOOLEAN

Types ==
    /\ serverProcess \in {"undefined", "child", "null"}
    /\ server \in {"none", "failed", "starting", "listening", "dead", "closed"}
    /\ code \in {"none", "zero", "nonzero", "null"}
    /\ startup \in {"not called", "pending", "resolved", "rejected"}
    /\ mainWindow \in Windows \cup {"undefined", "null"}
    /\ win \in [Windows -> {"none", "shown", "hidden"}]
    /\ dialogs \subseteq {"crash", "crashLog", "startup", "startupLog"}

Counters ==
    /\ attempt \in Nat /\ requests \in Nat /\ retries \in Nat
    /\ timers \in 0 .. MaxQuits

LEMMA TypeParts == TypeOK <=> Flags /\ Types /\ Counters
BY Zenon DEF TypeOK, Flags, Types, Counters

LEMMA TypeInit == Init => Flags /\ Types /\ Counters
<1>1. Init => Flags
  BY Zenon DEF Init, Flags
<1>2. Init => Types
  BY DEF Init, Types
<1>3. Init => Counters
  <2>1. Init => attempt = 0 /\ requests = 0 /\ retries = 0 /\ timers = 0
    BY Zenon DEF Init
  <2> QED BY <2>1, Numbers DEF Counters
<1> QED BY <1>1, <1>2, <1>3

LEMMA FlagsNext == ASSUME Flags, [Next]_vars PROVE Flags'
<1> USE DEF Flags, processVars, probeVars, windowVars, quitVars
<1>1. CASE Ready BY <1>1, Zenon DEF Ready
<1>2. CASE ProbeAnswered BY <1>2, Zenon DEF ProbeAnswered, Resolve
<1>3. CASE ProbeRefused BY <1>3, Zenon DEF ProbeRefused, RetryOrReject, Reject
<1>4. CASE ProbeTimeout BY <1>4, Zenon DEF ProbeTimeout, RetryOrReject, Reject
<1>5. CASE TryConnect BY <1>5, Zenon DEF TryConnect
<1>6. CASE SpawnError BY <1>6, Zenon DEF SpawnError, Reject
<1>7. CASE ServerClosed BY <1>7, Zenon DEF ServerClosed
<1>8. CASE ShutdownTimer BY <1>8, Zenon DEF ShutdownTimer
<1>9. CASE \E w \in Windows : UserCloses(w) BY <1>9, Zenon DEF UserCloses
<1>10. CASE TrayShow BY <1>10, Zenon DEF TrayShow
<1>11. CASE TrayClick BY <1>11, Zenon DEF TrayClick
<1>12. CASE Activate BY <1>12, Zenon DEF Activate
<1>13. CASE TrayQuit BY <1>13, Zenon DEF TrayQuit, Quit
<1>14. CASE SystemQuit BY <1>14, Zenon DEF SystemQuit, Quit
<1>15. CASE ReadLog("crash", "crashLog") \/ ReadLog("startup", "startupLog")
  BY <1>15, Zenon DEF ReadLog
<1>16. CASE \E d \in {"crash", "crashLog"} : LeaveCrash(d)
  BY <1>16, Zenon DEF LeaveCrash, Quit
<1>17. CASE \E d \in {"startup", "startupLog"} : LeaveStartup(d)
  BY <1>17, Zenon DEF LeaveStartup, Quit
<1>18. CASE ServerListens BY <1>18, Zenon DEF ServerListens
<1>19. CASE PortTaken BY <1>19, Zenon DEF PortTaken
<1>20. CASE ServerDies BY <1>20, Zenon DEF ServerDies
<1>21. CASE UNCHANGED vars BY <1>21, Zenon DEF vars
<1>22. CASE ReadyThrows BY <1>22, Zenon DEF ReadyThrows
<1> QED
  BY <1>1, <1>2, <1>3, <1>4, <1>5, <1>6, <1>7, <1>8, <1>9, <1>10, <1>11, <1>12, <1>13, <1>14,
     <1>15, <1>16, <1>17, <1>18, <1>19, <1>20, <1>21, <1>22 DEF Next, Loop, Probe, User

LEMMA TypesNext == ASSUME Types, [Next]_vars PROVE Types'
<1> USE DEF Types, processVars, probeVars, windowVars, quitVars
<1>1. CASE Ready BY <1>1 DEF Ready
<1>2. CASE ProbeAnswered BY <1>2 DEF ProbeAnswered, Resolve, CreateWindow, Open
<1>3. CASE ProbeRefused BY <1>3 DEF ProbeRefused, RetryOrReject, Reject
<1>4. CASE ProbeTimeout BY <1>4 DEF ProbeTimeout, RetryOrReject, Reject
<1>5. CASE TryConnect BY <1>5 DEF TryConnect
<1>6. CASE SpawnError BY <1>6 DEF SpawnError, Reject
<1>7. CASE ServerClosed BY <1>7 DEF ServerClosed, CloseHandler
<1>8. CASE ShutdownTimer BY <1>8 DEF ShutdownTimer
<1>9. CASE \E w \in Windows : UserCloses(w) BY <1>9 DEF UserCloses, CloseHandler
<1>10. CASE TrayShow BY <1>10 DEF TrayShow, CreateWindow, Open
<1>11. CASE TrayClick BY <1>11 DEF TrayClick, CreateWindow, Open
<1>12. CASE Activate BY <1>12 DEF Activate, CreateWindow, Open
<1>13. CASE TrayQuit BY <1>13 DEF TrayQuit, Quit, CloseHandler, Open
<1>14. CASE SystemQuit BY <1>14 DEF SystemQuit, Quit, CloseHandler, Open
<1>15. CASE ReadLog("crash", "crashLog") \/ ReadLog("startup", "startupLog")
  BY <1>15 DEF ReadLog
<1>16. CASE \E d \in {"crash", "crashLog"} : LeaveCrash(d)
  BY <1>16 DEF LeaveCrash, Quit, CloseHandler, Open
<1>17. CASE \E d \in {"startup", "startupLog"} : LeaveStartup(d)
  BY <1>17 DEF LeaveStartup, Quit, CloseHandler, Open
<1>18. CASE ServerListens BY <1>18 DEF ServerListens
<1>19. CASE PortTaken BY <1>19 DEF PortTaken
<1>20. CASE ServerDies BY <1>20 DEF ServerDies
<1>21. CASE UNCHANGED vars BY <1>21 DEF vars
<1>22. CASE ReadyThrows BY <1>22 DEF ReadyThrows
<1> QED
  BY <1>1, <1>2, <1>3, <1>4, <1>5, <1>6, <1>7, <1>8, <1>9, <1>10, <1>11, <1>12, <1>13, <1>14,
     <1>15, <1>16, <1>17, <1>18, <1>19, <1>20, <1>21, <1>22 DEF Next, Loop, Probe, User

LEMMA Timed ==
    ASSUME NEW q, Quit(q)
    PROVE  timers' = timers \/ (timers < MaxQuits /\ timers' = timers + 1)
BY Zenon DEF Quit

LEMMA CountersNext == ASSUME Counters, [Next]_vars PROVE Counters'
<1> USE Numbers DEF Counters, processVars, probeVars, windowVars, quitVars
<1>1. CASE Ready BY <1>1 DEF Ready
<1>2. CASE ProbeAnswered BY <1>2 DEF ProbeAnswered, Resolve
<1>3. CASE ProbeRefused BY <1>3 DEF ProbeRefused, RetryOrReject, Reject
<1>4. CASE ProbeTimeout BY <1>4 DEF ProbeTimeout, RetryOrReject, Reject
<1>5. CASE TryConnect BY <1>5 DEF TryConnect
<1>6. CASE SpawnError BY <1>6 DEF SpawnError, Reject
<1>7. CASE ServerClosed BY <1>7 DEF ServerClosed
<1>8. CASE ShutdownTimer BY <1>8 DEF ShutdownTimer
<1>9. CASE \E w \in Windows : UserCloses(w) BY <1>9 DEF UserCloses
<1>10. CASE TrayShow BY <1>10 DEF TrayShow
<1>11. CASE TrayClick BY <1>11 DEF TrayClick
<1>12. CASE Activate BY <1>12 DEF Activate
<1>13. CASE TrayQuit
  <2>1. UNCHANGED <<attempt, requests, retries>> /\ \E q : Quit(q)
    BY <1>13, Zenon DEF TrayQuit
  <2> QED BY <2>1, Timed
<1>14. CASE SystemQuit
  <2>1. UNCHANGED <<attempt, requests, retries>> /\ \E q : Quit(q)
    BY <1>14, Zenon DEF SystemQuit
  <2> QED BY <2>1, Timed
<1>15. CASE ReadLog("crash", "crashLog") \/ ReadLog("startup", "startupLog")
  BY <1>15 DEF ReadLog
<1>16. CASE \E d \in {"crash", "crashLog"} : LeaveCrash(d)
  <2>1. UNCHANGED <<attempt, requests, retries>> /\ \E q : Quit(q)
    BY <1>16, Zenon DEF LeaveCrash
  <2> QED BY <2>1, Timed
<1>17. CASE \E d \in {"startup", "startupLog"} : LeaveStartup(d)
  <2>1. UNCHANGED <<attempt, requests, retries>> /\ \E q : Quit(q)
    BY <1>17, Zenon DEF LeaveStartup
  <2> QED BY <2>1, Timed
<1>18. CASE ServerListens BY <1>18 DEF ServerListens
<1>19. CASE PortTaken BY <1>19 DEF PortTaken
<1>20. CASE ServerDies BY <1>20 DEF ServerDies
<1>21. CASE UNCHANGED vars BY <1>21 DEF vars
<1>22. CASE ReadyThrows BY <1>22 DEF ReadyThrows
<1> QED
  BY <1>1, <1>2, <1>3, <1>4, <1>5, <1>6, <1>7, <1>8, <1>9, <1>10, <1>11, <1>12, <1>13, <1>14,
     <1>15, <1>16, <1>17, <1>18, <1>19, <1>20, <1>21, <1>22 DEF Next, Loop, Probe, User

\* Every variable of the shell keeps its type, and before-quit never sets more
\* timers than it is called.
THEOREM ShellType == Spec => []TypeOK
<1>1. Init => TypeOK
  BY TypeInit, TypeParts
<1>2. TypeOK /\ [Next]_vars => TypeOK'
  <2> SUFFICES ASSUME Flags, Types, Counters, [Next]_vars PROVE TypeOK'
    BY TypeParts
  <2>1. Flags' /\ Types' /\ Counters'
    BY FlagsNext, TypesNext, CountersNext
  <2> QED BY <2>1, Zenon DEF TypeOK, Flags, Types, Counters
<1> QED BY <1>1, <1>2, PTL DEF Spec

-----------------------------------------------------------------------------
LEMMA Positive == ASSUME timers > 0 PROVE timers # 0
OBVIOUS

LEMMA ChildNext == ASSUME Types, Child, NoOrphan, [Next]_vars PROVE Child' /\ NoOrphan'
<1> USE DEF Child, NoOrphan, Running, processVars, probeVars, windowVars, quitVars
<1>1. CASE Ready BY <1>1, Zenon DEF Ready
<1>2. CASE ProbeAnswered BY <1>2, Zenon DEF ProbeAnswered, Resolve
<1>3. CASE ProbeRefused BY <1>3, Zenon DEF ProbeRefused, RetryOrReject, Reject
<1>4. CASE ProbeTimeout BY <1>4, Zenon DEF ProbeTimeout, RetryOrReject, Reject
<1>5. CASE TryConnect BY <1>5, Zenon DEF TryConnect
<1>6. CASE SpawnError BY <1>6, Zenon DEF SpawnError, Reject
<1>7. CASE ServerClosed BY <1>7, Zenon DEF ServerClosed
<1>8. CASE ShutdownTimer /\ ~exited
  <2>1. timers > 0 /\ (startup = "not called" => timers = 0)
    BY <1>8, Zenon DEF ShutdownTimer
  <2>2. startup # "not called"
    BY <2>1, Positive, Zenon
  <2>3. serverProcess' = serverProcess /\ startup' = startup /\ isDev' = isDev /\ exited'
    BY <1>8, Zenon DEF ShutdownTimer
  <2>4. server' = "dead" \/ (server' = server /\ ~(serverProcess = "child" /\ server \in Running))
    BY <1>8, Zenon DEF ShutdownTimer
  <2>5. serverProcess \in {"undefined", "child"} /\ (serverProcess = "undefined" => server = "none")
    BY <1>8, Zenon DEF Types
  <2>6. server' \notin Running /\ (serverProcess = "undefined" => server' = "none" \/ server' = "dead")
    BY <2>4, <2>5
  <2>7. serverProcess = "undefined" => server' = server
    BY <1>8, Zenon DEF ShutdownTimer
  <2> QED BY <2>2, <2>3, <2>5, <2>6, <2>7, Zenon
<1>9. ASSUME NEW w \in Windows, UserCloses(w) PROVE Child' /\ NoOrphan'
  BY <1>9, Zenon DEF UserCloses
<1>10. CASE TrayShow BY <1>10, Zenon DEF TrayShow
<1>11. CASE TrayClick BY <1>11, Zenon DEF TrayClick
<1>12. CASE Activate BY <1>12, Zenon DEF Activate
<1>13. CASE TrayQuit /\ ~exited BY <1>13, Zenon DEF TrayQuit, Quit, Types
<1>14. CASE SystemQuit /\ ~exited BY <1>14, Zenon DEF SystemQuit, Quit, Types
<1>15. ASSUME NEW d, NEW log, ReadLog(d, log) PROVE Child' /\ NoOrphan'
  BY <1>15, Zenon DEF ReadLog
<1>16. ASSUME NEW d, ~exited, LeaveCrash(d) PROVE Child' /\ NoOrphan'
  BY <1>16, Zenon DEF LeaveCrash, Quit, Types
<1>17. ASSUME NEW d, ~exited, LeaveStartup(d) PROVE Child' /\ NoOrphan'
  BY <1>17, Zenon DEF LeaveStartup, Quit, Types
<1>18. CASE ServerListens BY <1>18, Zenon DEF ServerListens
<1>19. CASE PortTaken BY <1>19, Zenon DEF PortTaken
<1>20. CASE ServerDies BY <1>20, Zenon DEF ServerDies
<1>21. CASE UNCHANGED vars BY <1>21, Zenon DEF vars
<1>22. CASE ReadyThrows BY <1>22, Zenon DEF ReadyThrows
<1> QED
  BY <1>1, <1>2, <1>3, <1>4, <1>5, <1>6, <1>7, <1>8, <1>9, <1>10, <1>11, <1>12, <1>13, <1>14,
     <1>15, <1>16, <1>17, <1>18, <1>19, <1>20, <1>21, <1>22 DEF Next, Loop, Probe, User

\* Once the application is gone its server has ended or was killed.
THEOREM ShellNoOrphan == Spec => []NoOrphan
<1> DEFINE IInv == Types /\ Child /\ NoOrphan
<1>1. Init => IInv
  BY TypeInit DEF Init, Child, NoOrphan, Running
<1>2. IInv /\ [Next]_vars => IInv'
  BY TypesNext, ChildNext
<1> QED BY <1>1, <1>2, PTL DEF Spec

-----------------------------------------------------------------------------
(* The attempts. *)

\* What a step does to the counters of the probes.
Step ==
    \/ UNCHANGED <<attempt, requests, retries>>
    \/ /\ attempt = 0 /\ requests = 0 /\ retries = 0
       /\ attempt' = 1 /\ requests' = 1 /\ retries' = retries
    \/ /\ requests > 0 /\ requests' = requests - 1 /\ attempt' = attempt
       /\ \/ retries' = retries
          \/ ~(attempt >= maxRetries) /\ (retries' = retries + 1 \/ retries' = retries + 2)
    \/ retries > 0 /\ retries' = retries - 1 /\ attempt' = attempt + 1 /\ requests' = requests + 1

Unstarted == startup = "not called" => attempt = 0 /\ requests = 0 /\ retries = 0

LEMMA Probing ==
    ASSUME Unstarted
    PROVE  /\ requests > 0 => startup # "not called"
           /\ retries > 0 => startup # "not called"
<1>1. ~(0 > 0)
  OBVIOUS
<1> QED BY <1>1, Zenon DEF Unstarted

LEMMA StepNext == ASSUME Unstarted, [Next]_vars PROVE Step /\ Unstarted'
<1> USE Probing DEF Unstarted, Step, processVars, probeVars, windowVars, quitVars
<1>1. CASE Ready BY <1>1, Zenon DEF Ready
<1>2. CASE ProbeAnswered BY <1>2, Zenon DEF ProbeAnswered, Resolve
<1>3. CASE ProbeRefused BY <1>3, Zenon DEF ProbeRefused, RetryOrReject, Reject
<1>4. CASE ProbeTimeout BY <1>4, Zenon DEF ProbeTimeout, RetryOrReject, Reject
<1>5. CASE TryConnect BY <1>5, Zenon DEF TryConnect
<1>6. CASE SpawnError BY <1>6, Zenon DEF SpawnError, Reject
<1>7. CASE ServerClosed BY <1>7, Zenon DEF ServerClosed
<1>8. CASE ShutdownTimer BY <1>8, Zenon DEF ShutdownTimer
<1>9. ASSUME NEW w \in Windows, UserCloses(w) PROVE Step /\ Unstarted'
  BY <1>9, Zenon DEF UserCloses
<1>10. CASE TrayShow BY <1>10, Zenon DEF TrayShow
<1>11. CASE TrayClick BY <1>11, Zenon DEF TrayClick
<1>12. CASE Activate BY <1>12, Zenon DEF Activate
<1>13. CASE TrayQuit BY <1>13, Zenon DEF TrayQuit
<1>14. CASE SystemQuit BY <1>14, Zenon DEF SystemQuit
<1>15. ASSUME NEW d, NEW log, ReadLog(d, log) PROVE Step /\ Unstarted'
  BY <1>15, Zenon DEF ReadLog
<1>16. ASSUME NEW d, LeaveCrash(d) PROVE Step /\ Unstarted'
  BY <1>16, Zenon DEF LeaveCrash
<1>17. ASSUME NEW d, LeaveStartup(d) PROVE Step /\ Unstarted'
  BY <1>17, Zenon DEF LeaveStartup
<1>18. CASE ServerListens BY <1>18, Zenon DEF ServerListens
<1>19. CASE PortTaken BY <1>19, Zenon DEF PortTaken
<1>20. CASE ServerDies BY <1>20, Zenon DEF ServerDies
<1>21. CASE UNCHANGED vars BY <1>21, Zenon DEF vars
<1>22. CASE ReadyThrows BY <1>22, Zenon DEF ReadyThrows
<1> QED
  BY <1>1, <1>2, <1>3, <1>4, <1>5, <1>6, <1>7, <1>8, <1>9, <1>10, <1>11, <1>12, <1>13, <1>14,
     <1>15, <1>16, <1>17, <1>18, <1>19, <1>20, <1>21, <1>22 DEF Next, Loop, Probe, User

LEMMA PaidNext ==
    ASSUME Counters, Paid, AttemptsBounded, Step
    PROVE  Paid' /\ AttemptsBounded'
BY Numbers DEF Counters, Paid, AttemptsBounded, Step

\* No more than 2 * maxRetries - 1 attempts, for every limit: each probe in
\* flight has paid for the two that it may schedule.
THEOREM ShellAttemptsBounded == Spec => []AttemptsBounded
<1> DEFINE IInv == Counters /\ Unstarted /\ Paid /\ AttemptsBounded
<1>1. Init => IInv
  <2>1. Init => Unstarted /\ attempt = 0 /\ requests = 0 /\ retries = 0
    BY Zenon DEF Init, Unstarted
  <2>2. Init => Paid /\ AttemptsBounded
    BY <2>1, Numbers DEF Paid, AttemptsBounded
  <2> QED BY <2>1, <2>2, TypeInit
<1>2. IInv /\ [Next]_vars => IInv'
  BY CountersNext, StepNext, PaidNext
<1> QED BY <1>1, <1>2, PTL DEF Spec

-----------------------------------------------------------------------------
(* What the user sees. *)

\* How a promise that is still pending after a step got there.
Kept ==
    \/ startup = "pending" /\ UNCHANGED <<requests, retries>>
    \/ requests' = 1 \/ requests' = requests + 1
    \/ retries' = retries + 1 \/ retries' = retries + 2

LEMMA KeptNext == ASSUME [Next]_vars, startup' = "pending" PROVE Kept
<1> USE DEF Kept, processVars, probeVars, windowVars, quitVars
<1>1. CASE Ready BY <1>1, Zenon DEF Ready
<1>2. CASE ProbeAnswered BY <1>2, Zenon DEF ProbeAnswered, Resolve
<1>3. CASE ProbeRefused BY <1>3, Zenon DEF ProbeRefused, RetryOrReject, Reject
<1>4. CASE ProbeTimeout BY <1>4, Zenon DEF ProbeTimeout, RetryOrReject, Reject
<1>5. CASE TryConnect BY <1>5, Zenon DEF TryConnect
<1>6. CASE SpawnError BY <1>6, Zenon DEF SpawnError, Reject
<1>7. CASE ServerClosed BY <1>7, Zenon DEF ServerClosed
<1>8. CASE ShutdownTimer BY <1>8, Zenon DEF ShutdownTimer
<1>9. ASSUME NEW w \in Windows, UserCloses(w) PROVE Kept
  BY <1>9, Zenon DEF UserCloses
<1>10. CASE TrayShow BY <1>10, Zenon DEF TrayShow
<1>11. CASE TrayClick BY <1>11, Zenon DEF TrayClick
<1>12. CASE Activate BY <1>12, Zenon DEF Activate
<1>13. CASE TrayQuit BY <1>13, Zenon DEF TrayQuit
<1>14. CASE SystemQuit BY <1>14, Zenon DEF SystemQuit
<1>15. ASSUME NEW d, NEW log, ReadLog(d, log) PROVE Kept
  BY <1>15, Zenon DEF ReadLog
<1>16. ASSUME NEW d, LeaveCrash(d) PROVE Kept
  BY <1>16, Zenon DEF LeaveCrash
<1>17. ASSUME NEW d, LeaveStartup(d) PROVE Kept
  BY <1>17, Zenon DEF LeaveStartup
<1>18. CASE ServerListens BY <1>18, Zenon DEF ServerListens
<1>19. CASE PortTaken BY <1>19, Zenon DEF PortTaken
<1>20. CASE ServerDies BY <1>20, Zenon DEF ServerDies
<1>21. CASE UNCHANGED vars BY <1>21, Zenon DEF vars
<1>22. CASE ReadyThrows BY <1>22, Zenon DEF ReadyThrows
<1> QED
  BY <1>1, <1>2, <1>3, <1>4, <1>5, <1>6, <1>7, <1>8, <1>9, <1>10, <1>11, <1>12, <1>13, <1>14,
     <1>15, <1>16, <1>17, <1>18, <1>19, <1>20, <1>21, <1>22 DEF Next, Loop, Probe, User

LEMMA Sum ==
    ASSUME NEW a \in Nat, NEW b \in Nat, NEW c \in Nat, NEW d \in Nat,
           (a + b > 0 /\ c = a /\ d = b) \/ c = 1 \/ c = a + 1 \/ d = b + 1 \/ d = b + 2
    PROVE  c + d > 0
OBVIOUS

LEMMA PendingNext ==
    ASSUME Counters, Counters', startup = "pending" => requests + retries > 0, [Next]_vars
    PROVE  startup' = "pending" => requests' + retries' > 0
<1> SUFFICES ASSUME startup' = "pending" PROVE requests' + retries' > 0
  OBVIOUS
<1>1. Kept
  BY KeptNext
<1>2. (requests + retries > 0 /\ UNCHANGED <<requests, retries>>) \/ requests' = 1
      \/ requests' = requests + 1 \/ retries' = retries + 1 \/ retries' = retries + 2
  BY <1>1, Zenon DEF Kept
<1>3. requests \in Nat /\ retries \in Nat /\ requests' \in Nat /\ retries' \in Nat
  BY Zenon DEF Counters
<1> QED BY <1>2, <1>3, Sum, Zenon

LEMMA QuitSeen ==
    ASSUME Counters, serverProcess = "child", NEW q, Quit(q)
    PROVE  timers' > 0
<1>1. timers' = timers + 1
  BY Zenon DEF Quit
<1> QED BY <1>1, Numbers DEF Counters

LEMMA ResolvedNext ==
    ASSUME startup = "resolved" => tray, [Next]_vars
    PROVE  startup' = "resolved" => tray'
<1> USE DEF processVars, probeVars, windowVars, quitVars
<1>1. CASE Ready BY <1>1, Zenon DEF Ready
<1>2. CASE ProbeAnswered BY <1>2, Zenon DEF ProbeAnswered, Resolve
<1>3. CASE ProbeRefused BY <1>3, Zenon DEF ProbeRefused, RetryOrReject, Reject
<1>4. CASE ProbeTimeout BY <1>4, Zenon DEF ProbeTimeout, RetryOrReject, Reject
<1>5. CASE TryConnect BY <1>5, Zenon DEF TryConnect
<1>6. CASE SpawnError BY <1>6, Zenon DEF SpawnError, Reject
<1>7. CASE ServerClosed BY <1>7, Zenon DEF ServerClosed
<1>8. CASE ShutdownTimer BY <1>8, Zenon DEF ShutdownTimer
<1>9. ASSUME NEW w \in Windows, UserCloses(w) PROVE startup' = "resolved" => tray'
  BY <1>9, Zenon DEF UserCloses
<1>10. CASE TrayShow BY <1>10, Zenon DEF TrayShow
<1>11. CASE TrayClick BY <1>11, Zenon DEF TrayClick
<1>12. CASE Activate BY <1>12, Zenon DEF Activate
<1>13. CASE TrayQuit BY <1>13, Zenon DEF TrayQuit
<1>14. CASE SystemQuit BY <1>14, Zenon DEF SystemQuit
<1>15. ASSUME NEW d, NEW log, ReadLog(d, log) PROVE startup' = "resolved" => tray'
  BY <1>15, Zenon DEF ReadLog
<1>16. ASSUME NEW d, LeaveCrash(d) PROVE startup' = "resolved" => tray'
  BY <1>16, Zenon DEF LeaveCrash
<1>17. ASSUME NEW d, LeaveStartup(d) PROVE startup' = "resolved" => tray'
  BY <1>17, Zenon DEF LeaveStartup
<1>18. CASE ServerListens BY <1>18, Zenon DEF ServerListens
<1>19. CASE PortTaken BY <1>19, Zenon DEF PortTaken
<1>20. CASE ServerDies BY <1>20, Zenon DEF ServerDies
<1>21. CASE UNCHANGED vars BY <1>21, Zenon DEF vars
<1>22. CASE ReadyThrows BY <1>22, Zenon DEF ReadyThrows
<1> QED
  BY <1>1, <1>2, <1>3, <1>4, <1>5, <1>6, <1>7, <1>8, <1>9, <1>10, <1>11, <1>12, <1>13, <1>14,
     <1>15, <1>16, <1>17, <1>18, <1>19, <1>20, <1>21, <1>22 DEF Next, Loop, Probe, User

LEMMA ChildlessNext ==
    ASSUME Types, Child, Childless, [Next]_vars
    PROVE  Childless'
<1> USE DEF Childless, processVars, probeVars, windowVars, quitVars
<1>1. CASE Ready BY <1>1 DEF Ready, Types
<1>2. CASE ProbeAnswered BY <1>2 DEF ProbeAnswered, Resolve
<1>3. CASE ProbeRefused BY <1>3 DEF ProbeRefused, RetryOrReject, Reject
<1>4. CASE ProbeTimeout BY <1>4 DEF ProbeTimeout, RetryOrReject, Reject
<1>5. CASE TryConnect BY <1>5 DEF TryConnect
<1>6. CASE SpawnError BY <1>6 DEF SpawnError, Reject
<1>7. CASE ServerClosed
  <2>1. serverProcess # "undefined" /\ startup' = startup /\ tray' = tray /\ isQuitting' = isQuitting
        /\ serverProcess' \in {serverProcess, "null"}
    BY <1>7, Zenon DEF ServerClosed, Child
  <2> QED BY <2>1
<1>8. CASE ShutdownTimer BY <1>8 DEF ShutdownTimer
<1>9. ASSUME NEW w \in Windows, UserCloses(w) PROVE Childless'
  BY <1>9 DEF UserCloses
<1>10. CASE TrayShow BY <1>10 DEF TrayShow
<1>11. CASE TrayClick BY <1>11 DEF TrayClick
<1>12. CASE Activate BY <1>12 DEF Activate
<1>13. CASE TrayQuit BY <1>13 DEF TrayQuit
<1>14. CASE SystemQuit BY <1>14 DEF SystemQuit
<1>15. CASE ReadLog("crash", "crashLog") \/ ReadLog("startup", "startupLog")
  BY <1>15 DEF ReadLog
<1>16. ASSUME NEW d \in {"crash", "crashLog"}, LeaveCrash(d) PROVE Childless'
  BY <1>16 DEF LeaveCrash
<1>17. ASSUME NEW d \in {"startup", "startupLog"}, LeaveStartup(d) PROVE Childless'
  BY <1>17 DEF LeaveStartup
<1>18. CASE ServerListens BY <1>18 DEF ServerListens
<1>19. CASE PortTaken BY <1>19 DEF PortTaken
<1>20. CASE ServerDies BY <1>20 DEF ServerDies
<1>21. CASE UNCHANGED vars BY <1>21 DEF vars
<1>22. CASE ReadyThrows BY <1>22 DEF ReadyThrows, Child
<1> QED
  BY <1>1, <1>2, <1>3, <1>4, <1>5, <1>6, <1>7, <1>8, <1>9, <1>10, <1>11, <1>12, <1>13, <1>14,
     <1>15, <1>16, <1>17, <1>18, <1>19, <1>20, <1>21, <1>22 DEF Next, Loop, Probe, User

\* Windows that refuse to close stay open.
LEMMA Refused ==
    ASSUME NEW ws, CloseHandler(ws, FALSE), win \in [Windows -> {"none", "shown", "hidden"}]
    PROVE  Open \subseteq Open'
BY DEF CloseHandler, Open

LEMMA QuitRefused ==
    ASSUME Types, serverProcess = "undefined", NEW q, ~q, Quit(q)
    PROVE  exited' \/ Open' # {}
<1>1. CloseHandler(Open, FALSE) /\ (Open = {} => exited')
  BY DEF Quit, CloseHandler
<1> QED BY <1>1, Refused DEF Types

\* A window that is opened, hidden or shown leaves the others open.
LEMMA Opened ==
    ASSUME Types, CreateWindow
    PROVE  Open' # {}
BY DEF Types, CreateWindow, Open

LEMMA StillOpen ==
    ASSUME Types, NEW w, NEW v \in {"shown", "hidden"}, win' = [win EXCEPT ![w] = v]
    PROVE  Open \subseteq Open'
BY DEF Types, Open

LEMMA RejectedNext ==
    ASSUME Types, Counters, Child, Childless, startup = "rejected" => Visible, [Next]_vars
    PROVE  startup' = "rejected" => Visible'
<1>c. startup = "rejected" /\ ~exited /\ serverProcess # "child" =>
         serverProcess = "undefined" /\ ~isQuitting /\ ~tray
  BY DEF Child, Childless, Types
<1>n. ASSUME UNCHANGED <<startup, dialogs, timers, exited, serverProcess>>,
             Open # {} => Open' # {}
      PROVE  startup' = "rejected" => Visible'
  BY <1>n DEF Visible
<1>o. ASSUME win' = win PROVE Open' = Open
  BY <1>o DEF Open
<1>q. ASSUME NEW q, Quit(q), ~exited, UNCHANGED <<startup, serverProcess>>,
             serverProcess = "undefined" /\ startup = "rejected" => ~q
      PROVE  startup' = "rejected" => Visible'
  <2>1. CASE serverProcess = "child" /\ startup = "rejected"
    BY <1>q, <2>1, QuitSeen DEF Visible
  <2>2. CASE serverProcess # "child" /\ startup = "rejected"
    BY <1>q, <1>c, <2>2, QuitRefused DEF Visible
  <2> QED BY <1>q, <2>1, <2>2
<1> USE DEF processVars, probeVars, windowVars, quitVars
<1>1. CASE Ready BY <1>1 DEF Ready
<1>2. CASE ProbeAnswered
  BY <1>2, <1>n, <1>o DEF ProbeAnswered, Resolve
<1>r. ASSUME Reject, UNCHANGED <<timers, exited, serverProcess>>
      PROVE  startup' = "rejected" => Visible'
  <2>1. CASE startup = "pending"
    BY <1>r, <2>1 DEF Reject, Visible
  <2>2. CASE startup # "pending"
    BY <1>r, <1>n, <1>o, <2>2 DEF Reject
  <2> QED BY <2>1, <2>2
<1>3. CASE ProbeRefused
  BY <1>3, <1>n, <1>o, <1>r DEF ProbeRefused, RetryOrReject
<1>4. CASE ProbeTimeout
  BY <1>4, <1>n, <1>o, <1>r DEF ProbeTimeout, RetryOrReject
<1>5. CASE TryConnect BY <1>5, <1>n, <1>o DEF TryConnect
<1>6. CASE SpawnError
  BY <1>6, <1>r DEF SpawnError
<1>7. CASE ServerClosed
  <2>1. serverProcess # "undefined" /\ startup' = startup /\ timers' = timers
    BY <1>7, Zenon DEF ServerClosed, Child
  <2>2. dialogs # {} => dialogs' # {}
    BY <1>7 DEF ServerClosed
  <2>3. exited => exited'
    BY <1>7, Zenon DEF ServerClosed
  <2> QED BY <2>1, <2>2, <2>3 DEF Visible
<1>8. CASE ShutdownTimer BY <1>8, Zenon DEF ShutdownTimer, Visible
<1>9. ASSUME NEW w \in Windows, ~exited, UserCloses(w) PROVE startup' = "rejected" => Visible'
  <2>1. UNCHANGED <<startup, dialogs, timers, exited, serverProcess>>
    BY <1>9, Zenon DEF UserCloses
  <2>2. CASE serverProcess = "undefined" /\ startup = "rejected"
    <3>1. CloseHandler({w}, FALSE)
      BY <1>9, <1>c, <2>2 DEF UserCloses, CloseHandler
    <3> QED BY <2>1, <3>1, <1>n, Refused DEF Types
  <2>3. CASE ~(serverProcess = "undefined" /\ startup = "rejected")
    BY <2>1, <2>3, Zenon DEF Visible
  <2> QED BY <2>2, <2>3
<1>10. CASE TrayShow /\ ~exited
  <2>1. tray /\ UNCHANGED <<startup, dialogs, timers, exited, serverProcess>>
    BY <1>10, Zenon DEF TrayShow
  <2> QED BY <2>1, Zenon DEF Childless
<1>11. CASE TrayClick /\ ~exited
  <2>1. tray /\ UNCHANGED <<startup, dialogs, timers, exited, serverProcess>>
    BY <1>11, Zenon DEF TrayClick
  <2> QED BY <2>1, Zenon DEF Childless
<1>12. CASE Activate
  BY <1>12, <1>n, Opened DEF Activate
<1>13. CASE TrayQuit /\ ~exited
  <2>1. tray /\ startup' = startup
    BY <1>13, Zenon DEF TrayQuit
  <2> QED BY <2>1 DEF Childless
<1>14. CASE SystemQuit /\ ~exited
  BY <1>14, <1>q, <1>c DEF SystemQuit
<1>15. CASE ReadLog("crash", "crashLog") \/ ReadLog("startup", "startupLog")
  BY <1>15 DEF ReadLog, Visible
<1>16. ASSUME NEW d \in {"crash", "crashLog"}, ~exited, LeaveCrash(d)
       PROVE  startup' = "rejected" => Visible'
  <2>1. serverProcess # "undefined"
    BY <1>16 DEF LeaveCrash, Childless
  <2> QED BY <1>16, <2>1, <1>q DEF LeaveCrash
<1>17. ASSUME NEW d \in {"startup", "startupLog"}, ~exited, LeaveStartup(d)
       PROVE  startup' = "rejected" => Visible'
  BY <1>17, <1>q, <1>c DEF LeaveStartup
<1>18. CASE ServerListens BY <1>18, <1>n, <1>o DEF ServerListens
<1>19. CASE PortTaken BY <1>19, <1>n, <1>o DEF PortTaken
<1>20. CASE ServerDies BY <1>20, <1>n, <1>o DEF ServerDies
<1>21. CASE UNCHANGED vars BY <1>21, <1>n, <1>o DEF vars
<1>22. CASE ReadyThrows BY <1>22 DEF ReadyThrows, Visible
<1> QED
  BY <1>1, <1>2, <1>3, <1>4, <1>5, <1>6, <1>7, <1>8, <1>9, <1>10, <1>11, <1>12, <1>13, <1>14,
     <1>15, <1>16, <1>17, <1>18, <1>19, <1>20, <1>21, <1>22 DEF Next, Loop, Probe, User

LEMMA MainNext ==
    ASSUME Types, Main, [Next]_vars
    PROVE  Main'
<1> USE Names DEF Types, Main, Open, processVars, probeVars, windowVars, quitVars
<1>1. CASE Ready BY <1>1, Zenon DEF Ready
<1>2. CASE ProbeAnswered BY <1>2, Zenon DEF ProbeAnswered, Resolve, CreateWindow
<1>3. CASE ProbeRefused BY <1>3, Zenon DEF ProbeRefused, RetryOrReject, Reject
<1>4. CASE ProbeTimeout BY <1>4, Zenon DEF ProbeTimeout, RetryOrReject, Reject
<1>5. CASE TryConnect BY <1>5, Zenon DEF TryConnect
<1>6. CASE SpawnError BY <1>6, Zenon DEF SpawnError, Reject
<1>7. CASE ServerClosed BY <1>7, Zenon DEF ServerClosed, CloseHandler
<1>8. CASE ShutdownTimer BY <1>8, Zenon DEF ShutdownTimer
<1>9. ASSUME NEW w \in Windows, UserCloses(w) PROVE Main'
  BY <1>9, Zenon DEF UserCloses, CloseHandler
<1>10. CASE TrayShow BY <1>10, Zenon DEF TrayShow, CreateWindow
<1>11. CASE TrayClick BY <1>11, Zenon DEF TrayClick, CreateWindow
<1>12. CASE Activate BY <1>12, Zenon DEF Activate, CreateWindow
<1>13. CASE TrayQuit BY <1>13, Zenon DEF TrayQuit, Quit, CloseHandler
<1>14. CASE SystemQuit BY <1>14, Zenon DEF SystemQuit, Quit, CloseHandler
<1>15. ASSUME NEW d, NEW log, ReadLog(d, log) PROVE Main'
  BY <1>15, Zenon DEF ReadLog
<1>16. ASSUME NEW d, LeaveCrash(d) PROVE Main'
  BY <1>16, Zenon DEF LeaveCrash, Quit, CloseHandler
<1>17. ASSUME NEW d, LeaveStartup(d) PROVE Main'
  BY <1>17, Zenon DEF LeaveStartup, Quit, CloseHandler
<1>18. CASE ServerListens BY <1>18, Zenon DEF ServerListens
<1>19. CASE PortTaken BY <1>19, Zenon DEF PortTaken
<1>20. CASE ServerDies BY <1>20, Zenon DEF ServerDies
<1>21. CASE UNCHANGED vars BY <1>21, Zenon DEF vars
<1>22. CASE ReadyThrows BY <1>22, Zenon DEF ReadyThrows
<1> QED
  BY <1>1, <1>2, <1>3, <1>4, <1>5, <1>6, <1>7, <1>8, <1>9, <1>10, <1>11, <1>12, <1>13, <1>14,
     <1>15, <1>16, <1>17, <1>18, <1>19, <1>20, <1>21, <1>22 DEF Next, Loop, Probe, User

\* An application that runs shows or does something, unless it has no child and a window
\* that was opened during the start: for every limit of the probes and number of windows.
THEOREM ShellNeverStranded == Spec => []NeverStranded
<1> DEFINE IInv == Types /\ Counters /\ Child /\ Childless /\ NoOrphan /\ Seen
<1>1. Init => IInv
  BY TypeInit, Zenon DEF Init, Child, Childless, NoOrphan, Running, Seen
<1>2. IInv /\ [Next]_vars => IInv'
  <2> SUFFICES ASSUME IInv, [Next]_vars PROVE IInv'
    OBVIOUS
  <2>1. Types' /\ Counters' /\ Child' /\ Childless' /\ NoOrphan'
    BY TypesNext, CountersNext, ChildNext, ChildlessNext
  <2>2. startup' = "pending" => requests' + retries' > 0
    BY <2>1, PendingNext, Zenon DEF Seen
  <2>3. startup' = "resolved" => tray'
    BY ResolvedNext, Zenon DEF Seen
  <2>4. startup' = "rejected" => Visible'
    BY RejectedNext, Zenon DEF Seen
  <2> QED BY <2>1, <2>2, <2>3, <2>4, Zenon DEF Seen
<1>3. IInv => NeverStranded
  BY Zenon DEF Types, Seen, Visible, NeverStranded
<1> QED BY <1>1, <1>2, <1>3, PTL DEF Spec

\* hide() and show() always find a window.
THEOREM ShellHandlersSafe == Spec => []HandlersSafe
<1> DEFINE IInv == Types /\ Main
<1>1. Init => IInv
  BY TypeInit, Names, Zenon DEF Init, Main, Open
<1>2. IInv /\ [Next]_vars => IInv'
  BY TypesNext, MainNext
<1>3. IInv => HandlersSafe
  BY Names, Zenon DEF Types, Main, HandlersSafe, Open
<1> QED BY <1>1, <1>2, <1>3, PTL DEF Spec

=============================================================================

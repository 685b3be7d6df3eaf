---------------------------- MODULE ScheduledTasks ----------------------------
(***************************************************************************)
(* The schedule engine (Engine/SScheduleEngine.cpp) and its tasks          *)
(* (Engine/SScheduledTask.cpp).  The engine's constructor starts the tasks *)
(* and then the thread that runs the io_service; that thread runs the      *)
(* handlers of the tasks' timers, Tick, one at a time.  The engine's       *)
(* destructor, on another thread, ends each task by Exit, with a last run  *)
(* if the task wants one, and deletes it.                                  *)
(*                                                                         *)
(* The repository defines no task: what Process does is a step that        *)
(* returns or throws.  Exit and Tick share mIsRunning and the timer        *)
(* without a lock; their steps interleave here, each whole.  Using a       *)
(* deleted task or io_service is undefined, and an exception on the io     *)
(* thread ends the program: the model stops there.                         *)
(***************************************************************************)
EXTENDS Naturals, Sequences

CONSTANTS TaskCount,    \* the tasks of mTaskList are 1 .. TaskCount
          RefreshTime,  \* of each task, in tenths of a second
          RunAtExit,    \* the tasks with mRunAtExit
          MaxTime       \* bound on the clock, in seconds

Task == 1 .. TaskCount

ASSUME ScheduledTasksAssumption ==
    /\ TaskCount \in Nat
    /\ RefreshTime \in [Task -> Nat]
    /\ RunAtExit \subseteq Task
    /\ MaxTime \in Nat

VARIABLES now,          \* the clock
          expiry,       \* when each task's timer expires
          armed,        \* tasks whose timer has a wait outstanding
          cancelled,    \* tasks whose wait was cancelled, its handler still to run
          mIsRunning,   \* the tasks whose mIsRunning is set
          deleted,      \* the tasks that were deleted
          io,           \* the io thread: where it is, and with which task
          main,         \* the other thread: where in the constructor or destructor
          i,            \* its iterator over mTaskList
          alive,        \* FALSE when the program ended or is undefined
          ticks,        \* history: how often Tick has run each task's Process
          lastRuns      \* history: how often Exit has

clock == <<now, expiry>>
waits == <<armed, cancelled>>
history == <<ticks, lastRuns>>
vars == <<clock, waits, mIsRunning, deleted, io, main, i, alive, history>>

(* posix_time::seconds takes whole seconds: the fraction is cut off, and a *)
(* task of less than a second would run without pause.                     *)
Period(t) == RefreshTime[t] \div 10

Idle == [at |-> "run", task |-> 0]

Init ==
    /\ now = 0
    /\ expiry = [t \in Task |-> Period(t)]
    /\ armed = {}
    /\ cancelled = {}
    /\ mIsRunning = {}
    /\ deleted = {}
    /\ io = [at |-> "none", task |-> 0]
    /\ main = "start"
    /\ i = 1
    /\ alive = TRUE
    /\ ticks = [t \in Task |-> 0]
    /\ lastRuns = [t \in Task |-> 0]

TimePasses ==
    /\ alive
    /\ now < MaxTime
    /\ now' = now + 1
    /\ UNCHANGED <<expiry, waits, mIsRunning, deleted, io, main, i, alive, history>>

-------------------------------------------------------------------------------
(* Mutant: the time of the next run is counted from this one. *)
FromNow(t) == [expiry EXCEPT ![t] = now + Period(t)]

(* expires_at(expires_at() + refresh time). *)
MovedOn(t) == [expiry EXCEPT ![t] = @ + Period(t)]

(* Mutant: the timer waits for nothing. *)
NotArmed(t) == armed

Armed(t) == armed \cup {t}

-------------------------------------------------------------------------------
(* The constructor of the engine. *)

Start ==
    /\ alive /\ main = "start" /\ i \in Task
    /\ mIsRunning' = mIsRunning \cup {i}
    /\ expiry' = MovedOn(i)
    /\ armed' = Armed(i)
    /\ i' = i + 1
    /\ UNCHANGED <<now, cancelled, deleted, io, main, alive, history>>

(* The thread of io_service::run. *)
LaunchIO ==
    /\ alive /\ main = "start" /\ i \notin Task
    /\ io' = Idle
    /\ main' = "run"
    /\ UNCHANGED <<clock, waits, mIsRunning, deleted, i, alive, history>>

-------------------------------------------------------------------------------
(* The io thread. *)

Undefined ==
    /\ alive' = FALSE
    /\ UNCHANGED <<clock, waits, mIsRunning, deleted, io, main, i, history>>

Expired(t) == t \in cancelled \/ (t \in armed /\ now >= expiry[t])

(* The handler of t's timer, for a wait that expired or was cancelled: the *)
(* error code that would tell them apart is not bound to Tick.             *)
Tick(t) ==
    /\ alive /\ io = Idle
    /\ Expired(t)
    /\ \/ t \in deleted /\ Undefined
       \/ /\ t \notin deleted
          /\ armed' = armed \ {t}
          /\ cancelled' = cancelled \ {t}
          /\ io' = IF t \in mIsRunning THEN [at |-> "process", task |-> t] ELSE io
          /\ UNCHANGED <<clock, mIsRunning, deleted, main, i, alive, history>>

ProcessReturns(t) ==
    /\ alive /\ io = [at |-> "process", task |-> t]
    /\ ticks' = [ticks EXCEPT ![t] = @ + 1]
    /\ io' = [at |-> "refresh", task |-> t]
    /\ UNCHANGED <<clock, waits, mIsRunning, deleted, main, i, alive, lastRuns>>

(* Nothing catches it on this thread. *)
ProcessThrows(t) ==
    /\ alive /\ io = [at |-> "process", task |-> t]
    /\ Undefined

RefreshTimer(t) ==
    /\ alive /\ io = [at |-> "refresh", task |-> t]
    /\ \/ t \in deleted /\ Undefined
       \/ /\ t \notin deleted
          /\ expiry' = MovedOn(t)
          /\ armed' = Armed(t)
          /\ io' = Idle
          /\ UNCHANGED <<now, cancelled, mIsRunning, deleted, main, i, alive, history>>

(* run() returns when it has nothing to wait for, or was stopped. *)
IOEnds ==
    /\ alive /\ io = Idle
    /\ armed \cup cancelled = {} \/ main = "stopped"
    /\ io' = [at |-> "ended", task |-> 0]
    /\ UNCHANGED <<clock, waits, mIsRunning, deleted, main, i, alive, history>>

-------------------------------------------------------------------------------
(* The destructor of the engine. *)

Destroy ==
    /\ alive /\ main = "run"
    /\ main' = "exit"
    /\ i' = 1
    /\ UNCHANGED <<clock, waits, mIsRunning, deleted, io, alive, history>>

(* Exit: nothing for a task that is not running. *)
Exit ==
    /\ alive /\ main = "exit" /\ i \in Task
    /\ mIsRunning' = mIsRunning \ {i}
    /\ main' = IF i \in mIsRunning THEN "cancel" ELSE "delete"
    /\ UNCHANGED <<clock, waits, deleted, io, i, alive, history>>

AfterCancel == IF i \in RunAtExit THEN "last" ELSE "delete"

CancelTimer ==
    /\ alive /\ main = "cancel"
    /\ armed' = armed \ {i}
    /\ cancelled' = cancelled \cup (armed \cap {i})
    /\ main' = AfterCancel
    /\ UNCHANGED <<clock, mIsRunning, deleted, io, i, alive, history>>

(* Mutant: the Exit of the destructor makes another last run. *)
RunAgain == "last"

AfterLastRun == "delete"

LastRunReturns ==
    /\ alive /\ main = "last"
    /\ lastRuns' = [lastRuns EXCEPT ![i] = @ + 1]
    /\ main' = AfterLastRun
    /\ UNCHANGED <<clock, waits, mIsRunning, deleted, io, i, alive, ticks>>

(* Mutant: the exception does not keep the loop from going on. *)
NextTask == "delete"

Caught == "failed"

(* The exception is caught outside the loop: the tasks that are left are   *)
(* neither ended nor deleted, and the io_service is not stopped.           *)
LastRunThrows ==
    /\ alive /\ main = "last"
    /\ main' = Caught
    /\ UNCHANGED <<clock, waits, mIsRunning, deleted, io, i, alive, history>>

(* ~ScheduledTask: Exit again, which would run the empty Process of the    *)
(* base class, and the timer deleted, its wait cancelled.                  *)
Delete ==
    /\ alive /\ main = "delete"
    /\ mIsRunning' = mIsRunning \ {i}
    /\ armed' = armed \ {i}
    /\ cancelled' = cancelled \cup (armed \cap {i})
    /\ deleted' = deleted \cup {i}
    /\ main' = "exit"
    /\ i' = i + 1
    /\ UNCHANGED <<clock, io, alive, history>>

StopIO ==
    /\ alive /\ main = "exit" /\ i \notin Task
    /\ main' = "stopped"
    /\ UNCHANGED <<clock, waits, mIsRunning, deleted, io, i, alive, history>>

(* Nothing waits for the io thread to leave run(). *)
DeleteIO ==
    /\ alive /\ main = "stopped"
    /\ \/ io.at # "ended" /\ Undefined
       \/ /\ io.at = "ended"
          /\ main' = "success"
          /\ UNCHANGED <<clock, waits, mIsRunning, deleted, io, i, alive, history>>

-------------------------------------------------------------------------------
IOThread ==
    \/ \E t \in Task : Tick(t) \/ ProcessReturns(t) \/ ProcessThrows(t) \/ RefreshTimer(t)
    \/ IOEnds

Destructor ==
    \/ Exit \/ CancelTimer \/ LastRunReturns \/ LastRunThrows \/ Delete
    \/ StopIO \/ DeleteIO

Next ==
    \/ TimePasses \/ Start \/ LaunchIO \/ Destroy
    \/ IOThread
    \/ Destructor

(* The io thread keeps running handlers, and Process returns or throws.    *)
Spec ==
    /\ Init /\ [][Next]_vars
    /\ WF_vars(Start \/ LaunchIO)
    /\ WF_vars(IOThread)

-------------------------------------------------------------------------------
TypeOK ==
    /\ now \in 0 .. MaxTime
    /\ expiry \in [Task -> Nat]
    /\ armed \subseteq Task
    /\ cancelled \subseteq Task
    /\ mIsRunning \subseteq Task
    /\ deleted \subseteq Task
    /\ io \in [at : {"none", "run", "process", "refresh", "ended"}, task : Task \cup {0}]
    /\ main \in {"start", "run", "exit", "cancel", "last", "delete", "stopped",
                 "failed", "success"}
    /\ i \in 1 .. TaskCount + 1
    /\ alive \in BOOLEAN
    /\ ticks \in [Task -> Nat]
    /\ lastRuns \in [Task -> 0 .. 1]

(* However late the io thread comes to them, a task's runs keep to the     *)
(* multiples of its period: the wait after k runs is for the (k + 2)nd     *)
(* (the constructor and Start both add one), and no run is early.          *)
RunsKeepToTheGrid ==
    \A t \in Task :
       /\ t \in armed => expiry[t] = (ticks[t] + 2) * Period(t)
       /\ ticks[t] > 0 => now >= (ticks[t] + 1) * Period(t)

(* "Last scheduled tasks successfully run" (Engine/SScheduleEngine.cpp:63) *)
(* is reported only when each task that wants a last run had exactly one,  *)
(* before its deletion, and none is left behind.                           *)
SuccessMeansLastRuns ==
    main = "success" =>
        /\ deleted = Task
        /\ \A t \in Task : lastRuns[t] = IF t \in RunAtExit THEN 1 ELSE 0

(* No task is forgotten: one whose time has come runs again, or was ended  *)
(* by Exit; also when the destructor failed halfway and left it.           *)
Due(t, k) == alive /\ t \in mIsRunning /\ ticks[t] = k /\ now >= (k + 2) * Period(t)
DueTasksRun ==
    \A t \in Task, k \in 0 .. MaxTime :
       Due(t, k) ~> (ticks[t] > k \/ t \notin mIsRunning \/ ~ alive)
===============================================================================

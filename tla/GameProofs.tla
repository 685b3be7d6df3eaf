------------------------------ MODULE GameProofs ------------------------------
(***************************************************************************)
(* Theorems about the parts of the program around the engines' queues: the *)
(* scheduled tasks (ScheduledTasks), the life of Run (GameRun) and the     *)
(* parser of the configuration file (ConfigFile).  The three share no      *)
(* variable and no name, and what is proved of one uses nothing of another.*)
(***************************************************************************)
EXTENDS ScheduledTasks, GameRun, ConfigFile, DataLemmas

-------------------------------------------------------------------------------
(* ScheduledTasks: any number of tasks, any refresh times, and wishes for  *)
(* a last run.                                                             *)

(* The last runs there have been when n tasks, from the first on, are past *)
(* theirs.                                                                 *)
LastRunsUpTo(n) ==
    \A t \in Task : lastRuns[t] = IF t <= n /\ t \in RunAtExit THEN 1 ELSE 0

(* Where the constructor or destructor is says which tasks run, which are  *)
(* deleted and which had their last run.                                   *)
Progress ==
    /\ main = "start" =>
          /\ io.at = "none" /\ cancelled = {} /\ armed = 1 .. i - 1
          /\ deleted = {} /\ mIsRunning = 1 .. i - 1 /\ LastRunsUpTo(0)
    /\ main = "run" =>
          deleted = {} /\ mIsRunning = Task /\ LastRunsUpTo(0)
    /\ main = "exit" =>
          deleted = 1 .. i - 1 /\ mIsRunning = i .. TaskCount /\ LastRunsUpTo(i - 1)
    /\ main \in {"cancel", "last", "delete"} =>
          /\ i \in Task
          /\ deleted = 1 .. i - 1 /\ mIsRunning = i + 1 .. TaskCount
          /\ LastRunsUpTo(IF main = "delete" THEN i ELSE i - 1)
    /\ main = "last" => i \in RunAtExit
    /\ main \in {"stopped", "success"} => deleted = Task /\ LastRunsUpTo(TaskCount)

(* What the io thread is doing with a task, whose wait is over; the waits  *)
(* that were cancelled are those of tasks Exit has come to.                *)
Handling ==
    /\ io.at \in {"process", "refresh"} => io.task \in Task \ armed
    /\ cancelled \cap mIsRunning = {}

(* Each timer's expiry, whether or not it is being waited for.             *)
Ahead(t) ==
    IF (main = "start" /\ t >= i) \/ io = [at |-> "refresh", task |-> t] THEN 1 ELSE 2
Grid ==
    /\ \A t \in Task : expiry[t] = (ticks[t] + Ahead(t)) * Period(t)
    /\ \A t \in Task : ticks[t] > 0 => now >= (ticks[t] + 1) * Period(t)
    /\ io.at = "process" => now >= (ticks[io.task] + 2) * Period(io.task)

TasksInv == TypeOK /\ Progress /\ Handling /\ Grid

-------------------------------------------------------------------------------
(* Facts about the constants. *)
LEMMA Constants ==
    /\ TaskCount \in Nat /\ MaxTime \in Nat /\ RunAtExit \subseteq Task
    /\ \A t \in Task : t \in Nat \ {0} /\ t <= TaskCount /\ Period(t) \in Nat
  <1>1. \A t \in Task : RefreshTime[t] \in Nat
    BY ScheduledTasksAssumption
  <1>2. \A n \in Nat : n \div 10 \in Nat
    OBVIOUS
  <1>3. TaskCount \in Nat
    BY ScheduledTasksAssumption
  <1> QED BY <1>1, <1>2, <1>3, ScheduledTasksAssumption DEF Task, Period

(* One period more. *)
LEMMA OneMore ==
    ASSUME NEW k \in Nat, NEW p \in Nat
    PROVE  /\ k * p \in Nat /\ (k + 1) * p = k * p + p
           /\ (k + 2) * p = (k + 1) * p + p
  OBVIOUS

LEMMA TasksInit == Init => TasksInv
  <1> SUFFICES ASSUME Init PROVE TasksInv
    OBVIOUS
  <1>1. TypeOK
    BY Constants DEF Init, TypeOK
  <1>2. Progress
    BY Constants DEF Init, Progress, LastRunsUpTo
  <1>3. Handling
    BY DEF Init, Handling
  <1>4. Grid
    <2>1. \A t \in Task : Ahead(t) = 1 /\ expiry[t] = Period(t) /\ ticks[t] = 0
      BY Constants DEF Init, Ahead
    <2>2. \A p \in Nat : (0 + 1) * p = p
      OBVIOUS
    <2>3. io.at # "process"
      BY DEF Init
    <2> QED BY <2>1, <2>2, <2>3, Constants DEF Grid
  <1> QED BY <1>1, <1>2, <1>3, <1>4 DEF TasksInv

-------------------------------------------------------------------------------
(* The types. *)
LEMMA TypeKept == TasksInv /\ [Next]_vars => TypeOK'
  <1> SUFFICES ASSUME TasksInv, [Next]_vars PROVE TypeOK'
    OBVIOUS
  <1>0. TypeOK
    BY DEF TasksInv
  <1>1. CASE TimePasses
    <2>1. now' \in 0 .. MaxTime
      BY <1>0, <1>1, Constants DEF TimePasses, TypeOK
    <2> QED BY <1>0, <1>1, <2>1 DEF TimePasses, waits, history, TypeOK
  <1>2. CASE Start
    <2>1. i \in Task /\ i' \in 1 .. TaskCount + 1
      BY <1>2, Constants DEF Start, Task
    <2>2. expiry' \in [Task -> Nat]
      BY <1>0, <1>2, <2>1, Constants DEF Start, MovedOn, TypeOK
    <2> QED BY <1>0, <1>2, <2>1, <2>2 DEF Start, Armed, history, TypeOK
  <1>3. CASE LaunchIO
    BY <1>0, <1>3 DEF LaunchIO, Idle, clock, waits, history, TypeOK
  <1>4. CASE Destroy
    BY <1>0, <1>4, Constants DEF Destroy, clock, waits, history, TypeOK
  <1>5. ASSUME NEW t \in Task, Tick(t) PROVE TypeOK'
    <2>1. CASE t \in deleted
      BY <1>0, <1>5, <2>1 DEF Tick, Undefined, clock, waits, history, TypeOK
    <2>2. CASE t \notin deleted
      <3>1. io' \in [at : {"none", "run", "process", "refresh", "ended"}, task : Task \cup {0}]
        <4>1. io' = io \/ io' = [at |-> "process", task |-> t]
          BY <1>5, <2>2 DEF Tick
        <4> QED BY <1>0, <4>1 DEF TypeOK
      <3>2. armed' \subseteq Task /\ cancelled' \subseteq Task
        BY <1>0, <1>5, <2>2 DEF Tick, TypeOK
      <3> QED BY <1>0, <1>5, <2>2, <3>1, <3>2 DEF Tick, clock, history, TypeOK
    <2> QED BY <2>1, <2>2
  <1>6. ASSUME NEW t \in Task, ProcessReturns(t) PROVE TypeOK'
    BY <1>0, <1>6 DEF ProcessReturns, clock, waits, TypeOK
  <1>7. ASSUME NEW t \in Task, ProcessThrows(t) PROVE TypeOK'
    BY <1>0, <1>7 DEF ProcessThrows, Undefined, clock, waits, history, TypeOK
  <1>8. ASSUME NEW t \in Task, RefreshTimer(t) PROVE TypeOK'
    <2>1. CASE t \in deleted
      BY <1>0, <1>8, <2>1 DEF RefreshTimer, Undefined, clock, waits, history, TypeOK
    <2>2. CASE t \notin deleted
      <3>1. expiry' = MovedOn(t) /\ expiry \in [Task -> Nat] /\ Period(t) \in Nat
        BY <1>0, <1>8, <2>2, Constants DEF RefreshTimer, TypeOK
      <3>2. expiry' \in [Task -> Nat]
        BY <3>1 DEF MovedOn
      <3>3. io' = Idle /\ armed' \subseteq Task
        BY <1>0, <1>8, <2>2 DEF RefreshTimer, Armed, TypeOK
      <3> QED BY <1>0, <1>8, <2>2, <3>2, <3>3 DEF RefreshTimer, Idle, history, TypeOK
    <2> QED BY <2>1, <2>2
  <1>9. CASE IOEnds
    BY <1>0, <1>9 DEF IOEnds, clock, waits, history, TypeOK
  <1>10. CASE Exit
    BY <1>0, <1>10 DEF Exit, clock, waits, history, TypeOK
  <1>11. CASE CancelTimer
    <2>1. main' \in {"last", "delete"}
      BY <1>11 DEF CancelTimer, AfterCancel
    <2> QED BY <1>0, <1>11, <2>1 DEF CancelTimer, clock, history, TypeOK
  <1>12. CASE LastRunReturns
    <2>1. i \in Task /\ lastRuns[i] = 0
      BY <1>12, Constants DEF LastRunReturns, TasksInv, Progress, LastRunsUpTo
    <2>2. lastRuns' \in [Task -> 0 .. 1]
      BY <1>0, <1>12, <2>1 DEF LastRunReturns, TypeOK
    <2> QED BY <1>0, <1>12, <2>2 DEF LastRunReturns, AfterLastRun, clock, waits, TypeOK
  <1>13. CASE LastRunThrows
    BY <1>0, <1>13 DEF LastRunThrows, Caught, clock, waits, history, TypeOK
  <1>14. CASE Delete
    <2>1. i \in Task /\ i' \in 1 .. TaskCount + 1
      BY <1>14, Constants DEF Delete, TasksInv, Progress, Task
    <2> QED BY <1>0, <1>14, <2>1 DEF Delete, clock, history, TypeOK
  <1>15. CASE StopIO
    BY <1>0, <1>15 DEF StopIO, clock, waits, history, TypeOK
  <1>16. CASE DeleteIO
    BY <1>0, <1>16 DEF DeleteIO, Undefined, clock, waits, history, TypeOK
  <1>17. CASE UNCHANGED vars
    BY <1>0, <1>17 DEF vars, clock, waits, history, TypeOK
  <1> QED BY <1>1, <1>2, <1>3, <1>4, <1>5, <1>6, <1>7, <1>8, <1>9, <1>10, <1>11, <1>12,
             <1>13, <1>14, <1>15, <1>16, <1>17 DEF Next, IOThread, Destructor

-------------------------------------------------------------------------------
(* The progress of the constructor and the destructor. *)

(* The io thread runs once the constructor has launched it, and its steps  *)
(* leave the progress alone.                                               *)
LEMMA ProgressSame ==
    ASSUME Progress, main # "start",
           UNCHANGED <<main, i, deleted, mIsRunning, lastRuns>>
    PROVE  Progress'
  BY DEF Progress, LastRunsUpTo

LEMMA IOThreadLeaves ==
    ASSUME TasksInv, IOThread
    PROVE  /\ main # "start"
           /\ UNCHANGED <<main, i, deleted, mIsRunning, lastRuns, now>>
  <1>1. io.at # "none"
    BY DEF IOThread, Tick, ProcessReturns, ProcessThrows, RefreshTimer, IOEnds, Idle
  <1>2. main # "start"
    BY <1>1 DEF TasksInv, Progress
  <1>3. UNCHANGED <<main, i, deleted, mIsRunning, lastRuns, now>>
    <2>1. ASSUME NEW t \in Task, Tick(t)
          PROVE  UNCHANGED <<main, i, deleted, mIsRunning, lastRuns, now>>
      BY <2>1 DEF Tick, Undefined, clock, history
    <2>2. ASSUME NEW t \in Task, ProcessReturns(t) \/ ProcessThrows(t) \/ RefreshTimer(t)
          PROVE  UNCHANGED <<main, i, deleted, mIsRunning, lastRuns, now>>
      BY <2>2 DEF ProcessReturns, ProcessThrows, RefreshTimer, Undefined, clock, history
    <2>3. CASE IOEnds
      BY <2>3 DEF IOEnds, clock, history
    <2> QED BY <2>1, <2>2, <2>3 DEF IOThread
  <1> QED BY <1>2, <1>3

(* A last run, made or not, brings the tasks past theirs one further.      *)
LEMMA OneMoreLastRun ==
    ASSUME TypeOK, i \in Task, LastRunsUpTo(i - 1),
           lastRuns' = IF i \in RunAtExit THEN [lastRuns EXCEPT ![i] = @ + 1] ELSE lastRuns
    PROVE  \A t \in Task : lastRuns'[t] = IF t <= i /\ t \in RunAtExit THEN 1 ELSE 0
  <1>1. \A t \in Task : t <= i <=> t <= i - 1 \/ t = i
    BY Constants
  <1>2. lastRuns[i] = 0
    BY Constants DEF LastRunsUpTo
  <1>3. \A t \in Task : lastRuns'[t] = IF t = i /\ i \in RunAtExit THEN 1 ELSE lastRuns[t]
    BY <1>2 DEF TypeOK
  <1>4. \A t \in Task : lastRuns'[t] = IF t <= i /\ t \in RunAtExit THEN 1 ELSE 0
    BY <1>1, <1>2, <1>3 DEF LastRunsUpTo
  <1> QED BY <1>4

LEMMA ProgressKept == TasksInv /\ [Next]_vars => Progress'
  <1> SUFFICES ASSUME TasksInv, [Next]_vars PROVE Progress'
    OBVIOUS
  <1>0. TypeOK /\ Progress /\ TaskCount \in Nat /\ i \in 1 .. TaskCount + 1
    BY Constants DEF TasksInv, TypeOK
  <1>1. CASE TimePasses \/ UNCHANGED vars
    BY <1>0, <1>1 DEF TimePasses, waits, history, vars, Progress, LastRunsUpTo
  <1>2. CASE Start
    <2>1. /\ main = "start" /\ main' = "start" /\ io' = io /\ i' = i + 1
          /\ UNCHANGED <<deleted, cancelled, lastRuns>>
          /\ armed' = armed \cup {i} /\ mIsRunning' = mIsRunning \cup {i}
      BY <1>2 DEF Start, Armed, history
    <2>2. (1 .. i - 1) \cup {i} = 1 .. (i + 1) - 1
      BY <1>0
    <2> QED BY <1>0, <2>1, <2>2 DEF Progress, LastRunsUpTo
  <1>3. CASE LaunchIO
    <2>1. main = "start" /\ main' = "run" /\ i \notin Task
          /\ UNCHANGED <<deleted, mIsRunning, lastRuns>>
      BY <1>3 DEF LaunchIO, history
    <2>2. 1 .. i - 1 = Task
      BY <1>0, <2>1 DEF Task
    <2> QED BY <1>0, <2>1, <2>2 DEF Progress, LastRunsUpTo
  <1>4. CASE Destroy
    <2>1. main = "run" /\ main' = "exit" /\ i' = 1
          /\ UNCHANGED <<deleted, mIsRunning, lastRuns>>
      BY <1>4 DEF Destroy, history
    <2>2. 1 .. 1 - 1 = {} /\ 1 .. TaskCount = Task
      BY <1>0 DEF Task
    <2> QED BY <1>0, <2>1, <2>2 DEF Progress, LastRunsUpTo
  <1>5. CASE IOThread
    BY <1>0, <1>5, IOThreadLeaves, ProgressSame
  <1>6. CASE Exit
    <2>1. /\ main = "exit" /\ main' \in {"cancel", "delete"} /\ i \in Task
          /\ mIsRunning' = mIsRunning \ {i} /\ UNCHANGED <<i, deleted, lastRuns>>
      BY <1>6 DEF Exit, history
    <2>2. i \in mIsRunning
      BY <1>0, <2>1 DEF Progress, Task
    <2>3. main' = "cancel"
      BY <1>6, <2>2 DEF Exit
    <2>4. (i .. TaskCount) \ {i} = i + 1 .. TaskCount
      BY <1>0
    <2> QED BY <1>0, <2>1, <2>3, <2>4 DEF Progress, LastRunsUpTo
  <1>7. CASE CancelTimer
    <2>1. /\ main = "cancel" /\ main' = IF i \in RunAtExit THEN "last" ELSE "delete"
          /\ UNCHANGED <<i, mIsRunning, deleted, lastRuns>>
      BY <1>7 DEF CancelTimer, AfterCancel, history
    <2>2. /\ i \in Task /\ LastRunsUpTo(i - 1)
          /\ deleted = 1 .. i - 1 /\ mIsRunning = i + 1 .. TaskCount
      BY <1>0, <2>1 DEF Progress
    <2>3. CASE i \in RunAtExit
      BY <2>1, <2>2, <2>3 DEF Progress, LastRunsUpTo
    <2>4. CASE i \notin RunAtExit
      <3>1. \A t \in Task : lastRuns'[t] = IF t <= i /\ t \in RunAtExit THEN 1 ELSE 0
        BY <1>0, <2>1, <2>2, <2>4, OneMoreLastRun
      <3> QED BY <2>1, <2>2, <2>4, <3>1 DEF Progress, LastRunsUpTo
    <2> QED BY <2>3, <2>4
  <1>8. CASE LastRunReturns
    <2>1. /\ main = "last" /\ main' = "delete"
          /\ lastRuns' = [lastRuns EXCEPT ![i] = @ + 1]
          /\ UNCHANGED <<i, mIsRunning, deleted>>
      BY <1>8 DEF LastRunReturns, AfterLastRun
    <2>2. /\ i \in Task /\ i \in RunAtExit /\ LastRunsUpTo(i - 1)
          /\ deleted = 1 .. i - 1 /\ mIsRunning = i + 1 .. TaskCount
      BY <1>0, <2>1 DEF Progress
    <2>3. \A t \in Task : lastRuns'[t] = IF t <= i /\ t \in RunAtExit THEN 1 ELSE 0
      BY <1>0, <2>1, <2>2, OneMoreLastRun
    <2> QED BY <2>1, <2>2, <2>3 DEF Progress, LastRunsUpTo
  <1>9. CASE LastRunThrows
    BY <1>9 DEF LastRunThrows, Caught, Progress
  <1>10. CASE Delete
    <2>1. /\ main = "delete" /\ main' = "exit" /\ i' = i + 1 /\ lastRuns' = lastRuns
          /\ mIsRunning' = mIsRunning \ {i} /\ deleted' = deleted \cup {i}
      BY <1>10 DEF Delete, history
    <2>2. /\ i \in Task /\ LastRunsUpTo(i)
          /\ deleted = 1 .. i - 1 /\ mIsRunning = i + 1 .. TaskCount
      BY <1>0, <2>1 DEF Progress
    <2>3. /\ (1 .. i - 1) \cup {i} = 1 .. (i + 1) - 1
          /\ (i + 1 .. TaskCount) \ {i} = i + 1 .. TaskCount
          /\ (i + 1) - 1 = i
      BY <1>0
    <2> QED BY <2>1, <2>2, <2>3 DEF Progress, LastRunsUpTo
  <1>11. CASE StopIO
    <2>1. /\ main = "exit" /\ main' = "stopped" /\ i \notin Task
          /\ UNCHANGED <<mIsRunning, deleted, lastRuns>>
      BY <1>11 DEF StopIO, history
    <2>2. i - 1 = TaskCount
      BY <1>0, <2>1 DEF Task
    <2> QED BY <1>0, <2>1, <2>2 DEF Progress, LastRunsUpTo, Task
  <1>12. CASE DeleteIO
    <2>1. /\ main = "stopped" /\ main' \in {"stopped", "success"}
          /\ UNCHANGED <<mIsRunning, deleted, lastRuns>>
      BY <1>12 DEF DeleteIO, Undefined, history
    <2> QED BY <1>0, <2>1 DEF Progress, LastRunsUpTo
  <1> QED BY <1>1, <1>2, <1>3, <1>4, <1>5, <1>6, <1>7, <1>8, <1>9, <1>10, <1>11, <1>12
          DEF Next, Destructor

-------------------------------------------------------------------------------
(* The io thread's task, and the cancelled waits. *)
LEMMA HandlingKept == TasksInv /\ [Next]_vars => Handling'
  <1> SUFFICES ASSUME TasksInv, [Next]_vars PROVE Handling'
    OBVIOUS
  <1>0. Handling /\ Progress /\ TypeOK
    BY DEF TasksInv
  <1>1. CASE \/ TimePasses \/ Destroy \/ Exit \/ LastRunReturns \/ LastRunThrows
             \/ StopIO \/ DeleteIO \/ UNCHANGED vars
    <2>1. io' = io /\ armed' = armed /\ cancelled' = cancelled /\ mIsRunning' \subseteq mIsRunning
      BY <1>1 DEF TimePasses, Destroy, Exit, LastRunReturns, LastRunThrows, StopIO,
                  DeleteIO, Undefined, vars, waits
    <2> QED BY <1>0, <2>1 DEF Handling
  <1>2. CASE Start
    BY <1>0, <1>2 DEF Start, Handling, Progress
  <1>3. CASE LaunchIO
    BY <1>0, <1>3 DEF LaunchIO, Idle, waits, Handling
  <1>4. ASSUME NEW t \in Task, Tick(t) PROVE Handling'
    <2>1. CASE t \in deleted
      BY <1>0, <1>4, <2>1 DEF Tick, Undefined, waits, Handling
    <2>2. CASE t \notin deleted
      <3>1. /\ armed' = armed \ {t} /\ cancelled' = cancelled \ {t} /\ mIsRunning' = mIsRunning
            /\ io' = io \/ io' = [at |-> "process", task |-> t]
        BY <1>4, <2>2 DEF Tick
      <3> QED BY <1>0, <3>1 DEF Handling
    <2> QED BY <2>1, <2>2
  <1>5. ASSUME NEW t \in Task, ProcessReturns(t) \/ ProcessThrows(t) PROVE Handling'
    BY <1>0, <1>5 DEF ProcessReturns, ProcessThrows, Undefined, waits, Handling
  <1>6. ASSUME NEW t \in Task, RefreshTimer(t) PROVE Handling'
    <2>1. CASE t \in deleted
      <3>1. UNCHANGED <<io, armed, cancelled, mIsRunning>>
        BY <1>6, <2>1 DEF RefreshTimer, Undefined, waits
      <3> QED BY <1>0, <3>1 DEF Handling
    <2>2. CASE t \notin deleted
      <3>1. io' = Idle /\ cancelled' = cancelled /\ mIsRunning' = mIsRunning
        BY <1>6, <2>2 DEF RefreshTimer
      <3>2. io'.at = "run"
        BY <3>1 DEF Idle
      <3> QED BY <1>0, <3>1, <3>2 DEF Handling
    <2> QED BY <2>1, <2>2
  <1>7. CASE IOEnds
    BY <1>0, <1>7 DEF IOEnds, waits, Handling
  <1>8. CASE CancelTimer \/ Delete
    <2>1. /\ io' = io /\ armed' = armed \ {i} /\ cancelled' \subseteq cancelled \cup {i}
          /\ mIsRunning' \subseteq mIsRunning /\ main \in {"cancel", "delete"}
      BY <1>8 DEF CancelTimer, Delete
    <2>2. i \notin mIsRunning
      <3>1. i \in Nat /\ mIsRunning = i + 1 .. TaskCount
        BY <1>0, <2>1, Constants DEF Progress
      <3> QED BY <3>1, Constants
    <2> QED BY <1>0, <2>1, <2>2 DEF Handling
  <1> QED BY <1>1, <1>2, <1>3, <1>4, <1>5, <1>6, <1>7, <1>8 DEF Next, IOThread, Destructor

-------------------------------------------------------------------------------
(* The grid. *)

LEMMA GridSame ==
    ASSUME Grid, UNCHANGED <<expiry, ticks, now>>,
           \A t \in Task : Ahead(t)' = Ahead(t),
           io' = io \/ io'.at # "process"
    PROVE  Grid'
  BY DEF Grid

LEMMA GridKept == TasksInv /\ [Next]_vars => Grid'
  <1> SUFFICES ASSUME TasksInv, [Next]_vars PROVE Grid'
    OBVIOUS
  <1>0. Grid /\ Handling /\ Progress /\ TypeOK
    BY DEF TasksInv
  <1>00. /\ ticks \in [Task -> Nat] /\ expiry \in [Task -> Nat] /\ now \in Nat
         /\ i \in Nat /\ \A t \in Task : t \in Nat /\ Period(t) \in Nat
    BY <1>0, Constants DEF TypeOK
  <1>1. CASE TimePasses
    <2>1. now' = now + 1 /\ UNCHANGED <<expiry, ticks, main, i, io>>
      BY <1>1 DEF TimePasses, history
    <2>2. \A t \in Task : Ahead(t)' = Ahead(t)
      BY <2>1 DEF Ahead
    <2>3. \A x \in Nat : now >= x => now' >= x
      BY <1>00, <2>1
    <2>4. \A t \in Task : (ticks[t] + 1) * Period(t) \in Nat /\ (ticks[t] + 2) * Period(t) \in Nat
      BY <1>00, OneMore
    <2>5. io.at = "process" => io.task \in Task
      BY <1>0 DEF Handling
    <2> QED BY <1>0, <2>1, <2>2, <2>3, <2>4, <2>5 DEF Grid
  <1>2. CASE Start
    <2>1. /\ main = "start" /\ main' = "start" /\ i \in Task /\ i' = i + 1 /\ io' = io
          /\ expiry' = [expiry EXCEPT ![i] = @ + Period(i)]
          /\ UNCHANGED <<ticks, now>>
      BY <1>2 DEF Start, MovedOn, history
    <2>2. io.at = "none"
      BY <1>0, <2>1 DEF Progress
    <2>3. \A t \in Task : t = i => Ahead(t) = 1 /\ Ahead(t)' = 2
      BY <1>00, <2>1, <2>2 DEF Ahead
    <2>4. \A t \in Task : t # i => Ahead(t)' = Ahead(t)
      <3>1. \A t \in Task : t # i => (t >= i <=> t >= i')
        BY <1>00, <2>1
      <3> QED BY <2>1, <2>2, <3>1 DEF Ahead
    <2>5. expiry'[i] = (ticks'[i] + 2) * Period(i)
      <3>1. expiry[i] = (ticks[i] + 1) * Period(i)
        BY <1>0, <2>1, <2>3 DEF Grid
      <3>2. expiry'[i] = expiry[i] + Period(i)
        BY <1>00, <2>1
      <3> QED BY <1>00, <2>1, <3>1, <3>2, OneMore
    <2>6. \A t \in Task \ {i} : expiry'[t] = expiry[t]
      BY <1>00, <2>1
    <2>7. ASSUME NEW t \in Task
          PROVE  expiry'[t] = (ticks'[t] + Ahead(t)') * Period(t)
      <3>1. CASE t = i
        BY <2>3, <2>5, <3>1
      <3>2. CASE t # i
        BY <1>0, <2>1, <2>4, <2>6, <3>2 DEF Grid
      <3> QED BY <3>1, <3>2
    <2> QED BY <1>0, <2>1, <2>2, <2>7 DEF Grid
  <1>3. CASE LaunchIO
    <2>1. /\ main = "start" /\ main' = "run" /\ i \notin Task /\ i' = i /\ io' = Idle
          /\ UNCHANGED <<expiry, ticks, now>>
      BY <1>3 DEF LaunchIO, clock, history
    <2>2. \A t \in Task : ~ (t >= i)
      BY <1>0, <2>1, Constants DEF TypeOK, Task
    <2>3. io.at = "none"
      BY <1>0, <2>1 DEF Progress
    <2>4. \A t \in Task : Ahead(t)' = Ahead(t)
      BY <2>1, <2>2, <2>3 DEF Ahead, Idle
    <2>5. io'.at # "process"
      BY <2>1 DEF Idle
    <2> QED BY <1>0, <2>1, <2>4, <2>5, GridSame
  <1>4. CASE \/ Destroy \/ Exit \/ CancelTimer \/ LastRunReturns \/ LastRunThrows \/ Delete
             \/ StopIO \/ DeleteIO \/ UNCHANGED vars
    <2>1. /\ UNCHANGED <<expiry, ticks, now, io>>
          /\ \/ main' = main /\ i' = i
             \/ main # "start" /\ main' # "start"
      <3>1. CASE Destroy \/ Exit \/ CancelTimer \/ LastRunReturns
        BY <1>4, <3>1 DEF Destroy, Exit, CancelTimer, AfterCancel, LastRunReturns,
                          AfterLastRun, clock, history
      <3>2. CASE LastRunThrows \/ Delete \/ StopIO
        BY <1>4, <3>2 DEF LastRunThrows, Caught, Delete, StopIO, clock, history
      <3>3. CASE DeleteIO \/ UNCHANGED vars
        BY <1>4, <3>3 DEF DeleteIO, Undefined, vars, clock, history
      <3> QED BY <1>4, <3>1, <3>2, <3>3
    <2>2. \A t \in Task : Ahead(t)' = Ahead(t)
      BY <2>1 DEF Ahead
    <2> QED BY <1>0, <2>1, <2>2, GridSame
  <1>5. ASSUME NEW t \in Task, Tick(t) PROVE Grid'
    <2>0. main # "start" /\ UNCHANGED <<main, i, now>> /\ io = Idle
      BY <1>5, IOThreadLeaves DEF IOThread, Tick
    <2>1. UNCHANGED <<expiry, ticks>>
      BY <1>5 DEF Tick, Undefined, clock, history
    <2>2. io' = io \/ io' = [at |-> "process", task |-> t]
      BY <1>5 DEF Tick, Undefined
    <2>3. \A s \in Task : Ahead(s)' = Ahead(s) /\ Ahead(s) = 2
      BY <2>0, <2>2 DEF Ahead, Idle
    <2>4. CASE io' = io
      BY <1>0, <2>0, <2>1, <2>3, <2>4, GridSame
    <2>5. CASE io' # io
      <3>1. t \in mIsRunning
        BY <1>5, <2>5 DEF Tick, Undefined
      <3>2. t \notin cancelled
        BY <1>0, <3>1 DEF Handling
      <3>3. now >= expiry[t]
        BY <1>5, <3>2 DEF Tick, Expired
      <3>4. expiry[t] = (ticks[t] + 2) * Period(t)
        BY <1>0, <2>3 DEF Grid
      <3>5. io'.at = "process" => now' >= (ticks'[io'.task] + 2) * Period(io'.task)
        BY <2>0, <2>1, <2>2, <2>5, <3>3, <3>4
      <3> QED BY <1>0, <2>0, <2>1, <2>3, <3>5 DEF Grid
    <2> QED BY <2>4, <2>5
  <1>6. ASSUME NEW t \in Task, ProcessReturns(t) PROVE Grid'
    <2>0. main # "start" /\ UNCHANGED <<main, i, now>>
      BY <1>6, IOThreadLeaves DEF IOThread
    <2>1. /\ io = [at |-> "process", task |-> t] /\ io' = [at |-> "refresh", task |-> t]
          /\ ticks' = [ticks EXCEPT ![t] = @ + 1] /\ expiry' = expiry
      BY <1>6 DEF ProcessReturns, clock
    <2>2. /\ ticks'[t] = ticks[t] + 1 /\ \A s \in Task \ {t} : ticks'[s] = ticks[s]
      BY <1>00, <2>1
    <2>3. /\ Ahead(t) = 2 /\ Ahead(t)' = 1
          /\ \A s \in Task \ {t} : Ahead(s) = 2 /\ Ahead(s)' = 2
      BY <2>0, <2>1 DEF Ahead
    <2>4. ticks'[t] + 1 = ticks[t] + 2
      BY <1>00, <2>2
    <2>5. \A s \in Task : expiry'[s] = (ticks'[s] + Ahead(s)') * Period(s)
      BY <1>0, <2>1, <2>2, <2>3, <2>4 DEF Grid
    <2>6. now >= (ticks[t] + 2) * Period(t)
      BY <1>0, <2>1 DEF Grid
    <2>7. \A s \in Task : ticks'[s] > 0 => now' >= (ticks'[s] + 1) * Period(s)
      BY <1>0, <2>0, <2>2, <2>4, <2>6 DEF Grid
    <2>8. io'.at # "process"
      BY <2>1
    <2> QED BY <2>5, <2>7, <2>8 DEF Grid
  <1>7. ASSUME NEW t \in Task, ProcessThrows(t) \/ (RefreshTimer(t) /\ t \in deleted)
        PROVE  Grid'
    <2>1. UNCHANGED <<expiry, ticks, now, io, main, i>>
      BY <1>7 DEF ProcessThrows, RefreshTimer, Undefined, clock, history
    <2>2. \A s \in Task : Ahead(s)' = Ahead(s)
      BY <2>1 DEF Ahead
    <2> QED BY <1>0, <2>1, <2>2, GridSame
  <1>8. ASSUME NEW t \in Task, RefreshTimer(t), t \notin deleted PROVE Grid'
    <2>0. main # "start" /\ UNCHANGED <<main, i, now>>
      BY <1>8, IOThreadLeaves DEF IOThread
    <2>1. /\ io = [at |-> "refresh", task |-> t] /\ io' = Idle
          /\ ticks' = ticks /\ expiry' = [expiry EXCEPT ![t] = @ + Period(t)]
      BY <1>8 DEF RefreshTimer, MovedOn, history
    <2>2. /\ expiry'[t] = expiry[t] + Period(t)
          /\ \A s \in Task \ {t} : expiry'[s] = expiry[s]
      BY <1>00, <2>1
    <2>3. /\ Ahead(t) = 1 /\ \A s \in Task \ {t} : Ahead(s) = 2
          /\ \A s \in Task : Ahead(s)' = 2
      BY <2>0, <2>1 DEF Ahead, Idle
    <2>4. expiry'[t] = (ticks[t] + 2) * Period(t)
      <3>1. expiry[t] = (ticks[t] + 1) * Period(t)
        BY <1>0, <2>3 DEF Grid
      <3> QED BY <1>00, <2>2, <3>1, OneMore
    <2>5. \A s \in Task : expiry'[s] = (ticks'[s] + Ahead(s)') * Period(s)
      BY <1>0, <2>1, <2>2, <2>3, <2>4 DEF Grid
    <2>6. io'.at # "process"
      BY <2>1 DEF Idle
    <2> QED BY <1>0, <2>0, <2>1, <2>5, <2>6 DEF Grid
  <1>9. CASE IOEnds
    <2>0. UNCHANGED <<main, i, now, expiry, ticks>>
      BY <1>9 DEF IOEnds, clock, history
    <2>1. io = Idle /\ io' = [at |-> "ended", task |-> 0]
      BY <1>9 DEF IOEnds
    <2>2. \A s \in Task : Ahead(s)' = Ahead(s)
      BY <2>0, <2>1 DEF Ahead, Idle
    <2> QED BY <1>0, <2>0, <2>1, <2>2, GridSame
  <1> QED BY <1>1, <1>2, <1>3, <1>4, <1>5, <1>6, <1>7, <1>8, <1>9 DEF Next, IOThread, Destructor

-------------------------------------------------------------------------------
(* The invariant holds always. *)
THEOREM TasksInvariance == Spec => []TasksInv
  <1>1. TasksInv /\ [Next]_vars => TasksInv'
    BY TypeKept, ProgressKept, HandlingKept, GridKept DEF TasksInv
  <1> QED BY TasksInit, <1>1, PTL DEF Spec

(* Every variable of the schedule engine has its type; no task has a       *)
(* second last run, although Exit is called for it twice.                  *)
THEOREM TasksTypeCorrect == Spec => []TypeOK
  <1>1. TasksInv => TypeOK
    BY DEF TasksInv
  <1> QED BY <1>1, TasksInvariance, PTL

(* A task's runs keep to the multiples of its period, none is early, and   *)
(* none is made by the handler of a wait that Exit cancelled.              *)
THEOREM NoDrift == Spec => []RunsKeepToTheGrid
  <1>1. TasksInv => RunsKeepToTheGrid
    <2> SUFFICES ASSUME TasksInv PROVE RunsKeepToTheGrid
      OBVIOUS
    <2>1. ASSUME NEW t \in armed PROVE Ahead(t) = 2
      <3>1. ~ (main = "start" /\ t >= i)
        BY Constants DEF TasksInv, TypeOK, Progress
      <3>2. io # [at |-> "refresh", task |-> t]
        BY DEF TasksInv, Handling
      <3> QED BY <3>1, <3>2 DEF Ahead
    <2> QED BY <2>1 DEF TasksInv, Grid, RunsKeepToTheGrid
  <1> QED BY <1>1, TasksInvariance, PTL

(* Success is reported only when every task that wants a last run had      *)
(* exactly one and all are deleted, whatever the io thread was doing.      *)
THEOREM SuccessIsEarned == Spec => []SuccessMeansLastRuns
  <1>1. TasksInv => SuccessMeansLastRuns
    BY Constants DEF TasksInv, Progress, LastRunsUpTo, SuccessMeansLastRuns
  <1> QED BY <1>1, TasksInvariance, PTL

-------------------------------------------------------------------------------
(* GameRun: with and without threads, for any number of signals.           *)

(* Why a thread stops looking: whoever saw a cleared flag saw it after the *)
(* flag was cleared, and nothing sets it again.                            *)
Causes ==
    /\ \A e \in Engine :
          /\ pc[e] = "test" /\ ~ current[e] => ~ mIsStillRunning
          /\ pc[e] = "ended" => e \in threw \/ ~ mIsStillRunning
    /\ pc["main"] \in {"lock first", "unlock", "test"} /\ ~ current["main"]
          => ~ mIsStillRunning
    /\ ReturnHasCause

RunInv == GameTypeOK /\ MutexHeld /\ Causes

(* The invariant holds before Run is called. *)
LEMMA RunInitHolds == ASSUME MaxSignal \in Nat, GameInit PROVE RunInv
  BY DEF GameInit, RunInv, GameTypeOK, MutexHeld, Causes, ReturnHasCause, Thread,
         Engine, Nobody, Run

(* Run with threads, and the threads' own steps. *)
LEMMA ThreadKeeps ==
    ASSUME RunInv, NEW t \in Thread,
           \/ ReadUnlocked(t) \/ Test(t) \/ Frame(t) \/ FrameThrows(t)
    PROVE  RunInv'
  <1>1. CASE ReadUnlocked(t)
    <2>1. GameTypeOK'
      BY <1>1 DEF ReadUnlocked, Go, Seen, RunInv, GameTypeOK, Thread, Engine
    <2>2. MutexHeld'
      BY <1>1 DEF ReadUnlocked, Go, Seen, RunInv, GameTypeOK, MutexHeld, Thread,
                  Engine, Nobody, Run
    <2>3. Causes'
      BY <1>1 DEF ReadUnlocked, Go, Seen, RunInv, GameTypeOK, Causes,
                  ReturnHasCause, Thread, Engine
    <2> QED BY <2>1, <2>2, <2>3 DEF RunInv
  <1>2. CASE Test(t)
    <2>1. GameTypeOK'
      BY <1>2 DEF Test, Go, RunInv, GameTypeOK, Thread, Engine
    <2>2. MutexHeld'
      BY <1>2 DEF Test, Go, RunInv, GameTypeOK, MutexHeld, Thread, Engine,
                  Nobody, Run
    <2>3. Causes'
      BY <1>2 DEF Test, Go, RunInv, GameTypeOK, Causes, ReturnHasCause, Thread,
                  Engine
    <2> QED BY <2>1, <2>2, <2>3 DEF RunInv
  <1>3. CASE Frame(t)
    <2>1. GameTypeOK'
      BY <1>3 DEF Frame, Go, AfterFrame, RunInv, GameTypeOK, Thread, Engine
    <2>2. MutexHeld'
      BY <1>3 DEF Frame, Go, AfterFrame, RunInv, GameTypeOK, MutexHeld, Thread,
                  Engine, Nobody, Run
    <2>3. Causes'
      BY <1>3 DEF Frame, Go, AfterFrame, RunInv, GameTypeOK, Causes, ReturnHasCause,
                  Thread, Engine
    <2> QED BY <2>1, <2>2, <2>3 DEF RunInv
  <1>4. CASE FrameThrows(t)
    <2>1. GameTypeOK'
      BY <1>4 DEF FrameThrows, Go, RunInv, GameTypeOK, Thread, Engine
    <2>2. MutexHeld'
      BY <1>4 DEF FrameThrows, Go, RunInv, GameTypeOK, MutexHeld, Thread, Engine,
                  Nobody, Run
    <2>3. Causes'
      BY <1>4 DEF FrameThrows, Go, RunInv, GameTypeOK, Causes, ReturnHasCause,
                  Thread, Engine
    <2> QED BY <2>1, <2>2, <2>3 DEF RunInv
  <1> QED BY <1>1, <1>2, <1>3, <1>4

(* The steps of main alone, and the start of the engines' threads. *)
LEMMA MainKeeps ==
    ASSUME RunInv, CreateThreads \/ JoinAll \/ Lock \/ Read \/ Unlock
                 \/ \E e \in Engine : StartThread(e)
    PROVE  RunInv'
  <1>1. CASE CreateThreads
    <2>1. GameTypeOK'
      BY <1>1 DEF CreateThreads, Go, RunInv, GameTypeOK, Thread, Engine
    <2>2. MutexHeld'
      BY <1>1 DEF CreateThreads, Go, RunInv, GameTypeOK, MutexHeld, Thread,
                  Engine, Nobody, Run
    <2>3. Causes'
      BY <1>1 DEF CreateThreads, Go, RunInv, GameTypeOK, Causes, ReturnHasCause,
                  Thread, Engine
    <2> QED BY <2>1, <2>2, <2>3 DEF RunInv
  <1>2. CASE JoinAll
    <2>1. GameTypeOK'
      BY <1>2 DEF JoinAll, Go, AllEnded, RunInv, GameTypeOK, Thread, Engine
    <2>2. MutexHeld'
      BY <1>2 DEF JoinAll, Go, AllEnded, RunInv, GameTypeOK, MutexHeld, Thread,
                  Engine, Nobody, Run
    <2>3. Causes'
      BY <1>2 DEF JoinAll, Go, AllEnded, RunInv, GameTypeOK, Causes, ReturnHasCause,
                  Thread, Engine
    <2> QED BY <2>1, <2>2, <2>3 DEF RunInv
  <1>3. CASE Lock
    <2>1. GameTypeOK'
      BY <1>3 DEF Lock, Go, RunInv, GameTypeOK, Thread, Engine
    <2>2. MutexHeld'
      BY <1>3 DEF Lock, Go, RunInv, GameTypeOK, MutexHeld, Thread, Engine,
                  Nobody, Run
    <2>3. Causes'
      BY <1>3 DEF Lock, Go, RunInv, GameTypeOK, Causes, ReturnHasCause, Thread,
                  Engine
    <2> QED BY <2>1, <2>2, <2>3 DEF RunInv
  <1>4. CASE Read
    <2>1. GameTypeOK'
      BY <1>4 DEF Read, Go, Seen, RunInv, GameTypeOK, Thread, Engine
    <2>2. MutexHeld'
      BY <1>4 DEF Read, Go, Seen, RunInv, GameTypeOK, MutexHeld, Thread, Engine,
                  Nobody, Run
    <2>3. Causes'
      BY <1>4 DEF Read, Go, Seen, RunInv, GameTypeOK, Causes, ReturnHasCause,
                  Thread, Engine
    <2> QED BY <2>1, <2>2, <2>3 DEF RunInv
  <1>5. CASE Unlock
    <2>1. GameTypeOK'
      BY <1>5 DEF Unlock, Go, RunInv, GameTypeOK, Thread, Engine
    <2>2. MutexHeld'
      BY <1>5 DEF Unlock, Go, RunInv, GameTypeOK, MutexHeld, Thread, Engine,
                  Nobody, Run
    <2>3. Causes'
      BY <1>5 DEF Unlock, Go, RunInv, GameTypeOK, Causes, ReturnHasCause, Thread,
                  Engine
    <2> QED BY <2>1, <2>2, <2>3 DEF RunInv
  <1>6. ASSUME NEW e \in Engine, StartThread(e) PROVE RunInv'
    <2>1. GameTypeOK'
      <3>1. /\ threaded /\ pc' = [pc EXCEPT ![e] = "read"]
            /\ UNCHANGED <<threaded, current, handler, mIsStillRunning, owner, signals, threw>>
        BY <1>6 DEF StartThread, Go
      <3>2. /\ DOMAIN pc' = Thread /\ pc'[e] = "read"
            /\ \A t \in Thread \ {e} : pc'[t] = pc[t]
        BY <3>1 DEF RunInv, GameTypeOK, Thread
      <3>3. e # "main" /\ e # "io" /\ {"main", "io"} \cup Engine = Thread
        BY DEF Engine, Thread
      <3> QED BY <3>1, <3>2, <3>3 DEF RunInv, GameTypeOK
    <2>2. MutexHeld'
      BY <1>6 DEF StartThread, Go, RunInv, GameTypeOK, MutexHeld, Thread, Engine,
                  Nobody, Run
    <2>3. Causes'
      <3>1. /\ pc' = [pc EXCEPT ![e] = "read"] /\ DOMAIN pc = Thread
            /\ UNCHANGED <<threaded, current, mIsStillRunning, threw>>
        BY <1>6 DEF StartThread, Go, RunInv, GameTypeOK
      <3>2. pc'["main"] = pc["main"] /\ \A d \in Engine : pc'[d] \in {pc[d], "read"}
        BY <3>1 DEF Thread, Engine
      <3> QED BY <3>1, <3>2 DEF RunInv, Causes, ReturnHasCause
    <2> QED BY <2>1, <2>2, <2>3 DEF RunInv
  <1> QED BY <1>1, <1>2, <1>3, <1>4, <1>5, <1>6

(* A signal and its handler. *)
LEMMA HandlerKeeps ==
    ASSUME MaxSignal \in Nat, RunInv, NEW t \in Thread,
           Sigint(t) \/ StopLocks(t) \/ StopSets(t) \/ StopReturns(t)
    PROVE  RunInv'
  <1>1. CASE Sigint(t)
    <2>1. GameTypeOK'
      <3>1. handler' \in [Thread -> {"none", "lock", "stop", "unlock"}]
        BY <1>1 DEF Sigint, RunInv, GameTypeOK
      <3>2. signals' \in 0 .. MaxSignal
        <4>1. signals \in 0 .. MaxSignal
          BY DEF RunInv, GameTypeOK
        <4>2. signals < MaxSignal /\ signals' = signals + 1
          BY <1>1 DEF Sigint
        <4> QED BY <4>1, <4>2
      <3>3. UNCHANGED <<threaded, pc, current, mIsStillRunning, owner, threw>>
        BY <1>1 DEF Sigint
      <3> QED BY <3>1, <3>2, <3>3 DEF RunInv, GameTypeOK
    <2>2. MutexHeld'
      BY <1>1 DEF Sigint, RunInv, GameTypeOK, MutexHeld, Thread, Engine, Nobody,
                  Run
    <2>3. Causes'
      BY <1>1 DEF Sigint, RunInv, Causes, ReturnHasCause, Engine
    <2> QED BY <2>1, <2>2, <2>3 DEF RunInv
  <1>2. CASE StopLocks(t)
    <2>1. GameTypeOK'
      BY <1>2 DEF StopLocks, RunInv, GameTypeOK
    <2>2. MutexHeld'
      BY <1>2 DEF StopLocks, RunInv, GameTypeOK, MutexHeld, Thread, Engine,
                  Nobody, Run
    <2>3. Causes'
      BY <1>2 DEF StopLocks, RunInv, Causes, ReturnHasCause
    <2> QED BY <2>1, <2>2, <2>3 DEF RunInv
  <1>3. CASE StopSets(t)
    <2>1. GameTypeOK'
      BY <1>3 DEF StopSets, RunInv, GameTypeOK
    <2>2. MutexHeld'
      BY <1>3 DEF StopSets, RunInv, GameTypeOK, MutexHeld
    <2>3. Causes'
      BY <1>3 DEF StopSets, RunInv, Causes, ReturnHasCause
    <2> QED BY <2>1, <2>2, <2>3 DEF RunInv
  <1>4. CASE StopReturns(t)
    <2>1. GameTypeOK'
      BY <1>4 DEF StopReturns, Released, RunInv, GameTypeOK
    <2>2. MutexHeld'
      BY <1>4 DEF StopReturns, Released, RunInv, GameTypeOK, MutexHeld, Thread,
                  Engine, Nobody, Run
    <2>3. Causes'
      BY <1>4 DEF StopReturns, RunInv, Causes, ReturnHasCause
    <2> QED BY <2>1, <2>2, <2>3 DEF RunInv
  <1> QED BY <1>1, <1>2, <1>3, <1>4

(* Every step keeps the invariant. *)
LEMMA RunKept == ASSUME MaxSignal \in Nat, RunInv, [GameNext]_gameVars PROVE RunInv'
  <1>1. CASE UNCHANGED gameVars
    BY <1>1 DEF gameVars, RunInv, GameTypeOK, MutexHeld, Causes, ReturnHasCause, AllEnded
  <1>2. ASSUME NEW t \in Thread, Steps(t) PROVE RunInv'
    BY <1>2, ThreadKeeps, MainKeeps DEF Steps
  <1>3. ASSUME NEW t \in Thread, Stop(t) \/ Sigint(t) PROVE RunInv'
    BY <1>3, HandlerKeeps DEF Stop
  <1> QED BY <1>1, <1>2, <1>3 DEF GameNext

(* The invariant holds always. *)
LEMMA RunInvariance == ASSUME MaxSignal \in Nat PROVE GameSpec => []RunInv
  <1>1. GameInit => RunInv
    BY RunInitHolds
  <1>2. RunInv /\ [GameNext]_gameVars => RunInv'
    BY RunKept
  <1> QED BY <1>1, <1>2, PTL DEF GameSpec

(* Every variable of the running game has its type. *)
THEOREM RunTypeCorrect ==
    ASSUME MaxSignal \in Nat PROVE GameSpec => []GameTypeOK
  <1>1. RunInv => GameTypeOK
    BY DEF RunInv
  <1> QED BY <1>1, RunInvariance, PTL

(* mStillRunningMutex is owned by exactly the loop or the handler that is  *)
(* between its lock and unlock, however handlers interrupt threads.        *)
THEOREM MutexOwned ==
    ASSUME MaxSignal \in Nat PROVE GameSpec => []MutexHeld
  <1>1. RunInv => MutexHeld
    BY DEF RunInv
  <1> QED BY <1>1, RunInvariance, PTL

(* Game::Run returns only when it was told to stop, or because frames of   *)
(* every thread it waits for threw.                                        *)
THEOREM RunReturnsForACause ==
    ASSUME MaxSignal \in Nat PROVE GameSpec => []ReturnHasCause
  <1>1. RunInv => ReturnHasCause
    BY DEF RunInv, Causes
  <1> QED BY <1>1, RunInvariance, PTL

-------------------------------------------------------------------------------
(* ConfigFile: what the parser reads of every file, however many lines and *)
(* keys it has.                                                            *)

(* The text lines up to h that belong to the value begun in line n. *)
NoStop(n, m) == \A j \in n + 1 .. m : file[j].kind \notin Stops
ValueUpTo(n, h) == {n} \cup {m \in n + 1 .. h : file[m].kind = "text" /\ NoStop(n, m)}

(* A value that is complete is what the line n and its continuations say. *)
Right(v, n) ==
    IF lastNewline \/ Len(file) \notin ValueUpTo(n, Len(file)) \ {n}
    THEN Lists(v, ValueUpTo(n, Len(file)))
    ELSE ListsLastTwice(v, ValueUpTo(n, Len(file)))

(* myContents is what the lines up to h say. *)
NoSentry(h) == \A m \in 1 .. h : file[m].kind # "sentry"
KeysUpTo(h) == {file[m].key : m \in {j \in 1 .. h : file[j].kind = "key"}}
LastUpTo(n, h) ==
    /\ n \in 1 .. h /\ file[n].kind = "key"
    /\ \A m \in n + 1 .. h : ~ (file[m].kind = "key" /\ file[m].key = file[n].key)
ReadUpTo(h) ==
    /\ DOMAIN myContents = KeysUpTo(h)
    /\ \A n \in 1 .. h : LastUpTo(n, h) => Right(myContents[file[n].key], n)

(* How the state of the stream follows the lines. *)
Stream ==
    /\ eof => next = Len(file) + 1
    /\ eof /\ ~ fail => ~ lastNewline
    /\ ~ eof /\ next = Len(file) + 1 => lastNewline \/ Len(file) = 0

(* The last line the outer loop is done with: a line read ahead is still   *)
(* to be looked at, unless it is the last one taken twice.                 *)
Handled == IF nextline = Empty \/ Kind(nextline) = "text" THEN next - 1 ELSE next - 2
InLine ==
    /\ nextline # Empty => nextline = next - 1
    /\ nextline # Empty /\ Kind(nextline) # "text" =>
          ~ fail /\ Kind(nextline) \in Stops
    /\ \E h \in 0 .. Len(file) : h = Handled /\ NoSentry(h) /\ ReadUpTo(h)

(* While the value begun in line n is read, it lists the lines up to the   *)
(* position of the stream.                                                 *)
Reading(n) ==
    /\ n < next /\ file[n].kind = "key" /\ key = file[n].key
    /\ NoSentry(n - 1) /\ ReadUpTo(n - 1) /\ NoStop(n, next - 1)
    /\ nextline # Empty => nextline = next - 1 /\ file[nextline].kind = "text"
    /\ ~ fail => /\ Lists(value, ValueUpTo(n, next - 1))
                 /\ nextline = Empty /\ n < next - 1 => file[next - 1].kind # "text"
    /\ fail => /\ ~ lastNewline /\ nextline # Empty
               /\ ListsLastTwice(value, ValueUpTo(n, Len(file)))
InValue == \E n \in 1 .. Len(file) : Reading(n)

AtEnd ==
    \E h \in 0 .. Len(file) :
       /\ NoSentry(h) /\ ReadUpTo(h)
       /\ h = Len(file) \/ file[h + 1].kind = "sentry"

ParserInv ==
    /\ ParserTypeOK /\ Stream
    /\ parsing = "line" => InLine
    /\ parsing = "value" => InValue
    /\ parsing = "done" => AtEnd

-------------------------------------------------------------------------------
(* Sequences of line numbers. *)

LEMMA ListsOne ==
    ASSUME NEW n \in Nat  PROVE Lists(<<n>>, {n})
  <1>1. <<n>> \in Seq(Nat) /\ Len(<<n>>) = 1 /\ <<n>>[1] = n /\ DOMAIN <<n>> = {1}
    OBVIOUS
  <1> QED BY <1>1 DEF Lists, Ascends, Range

LEMMA ListsMore ==
    ASSUME NEW s \in Seq(Nat), NEW S, Lists(s, S), NEW e \in Nat, \A x \in S : x < e
    PROVE  Lists(Append(s, e), S \cup {e})
  <1> DEFINE r == Append(s, e)
  <1>1. /\ r \in Seq(Nat) /\ Len(s) \in Nat /\ Len(r) = Len(s) + 1
        /\ \A j \in 1 .. Len(r) : \/ j \in 1 .. Len(s) /\ r[j] = s[j]
                                  \/ j = Len(s) + 1 /\ r[j] = e
    BY AppendElements
  <1> HIDE DEF r
  <1>2. DOMAIN r = 1 .. Len(r) /\ DOMAIN s = 1 .. Len(s)
    BY <1>1, LenProperties
  <1>3. S = {s[j] : j \in 1 .. Len(s)} /\ \A u, j \in 1 .. Len(s) : u < j => s[u] < s[j]
    BY <1>2 DEF Lists, Range, Ascends
  <1>4. {r[j] : j \in 1 .. Len(r)} = S \cup {e}
    <2>1. \A j \in 1 .. Len(r) : r[j] \in S \cup {e}
      BY <1>1, <1>3
    <2>2. ASSUME NEW x \in S PROVE \E j \in 1 .. Len(r) : r[j] = x
      <3>1. PICK j \in 1 .. Len(s) : s[j] = x
        BY <1>3
      <3>2. j \in 1 .. Len(r) /\ j # Len(s) + 1
        BY <1>1
      <3> QED BY <1>1, <3>1, <3>2
    <2>3. Len(r) \in 1 .. Len(r) /\ r[Len(r)] = e
      BY <1>1
    <2> QED BY <2>1, <2>2, <2>3
  <1>5. \A u, j \in 1 .. Len(r) : u < j => r[u] < r[j]
    <2> SUFFICES ASSUME NEW u \in 1 .. Len(r), NEW j \in 1 .. Len(r), u < j PROVE r[u] < r[j]
      OBVIOUS
    <2>1. u \in 1 .. Len(s) /\ r[u] = s[u] /\ s[u] \in S
      BY <1>1, <1>3
    <2>2. CASE j \in 1 .. Len(s)
      BY <1>1, <1>3, <2>1, <2>2
    <2>3. CASE j = Len(s) + 1
      <3>1. j \notin 1 .. Len(s)
        BY <1>1, <2>3
      <3>2. r[j] = e
        BY <1>1, <3>1
      <3>3. s[u] < e
        BY <2>1
      <3> QED BY <2>1, <3>2, <3>3
    <2> QED BY <1>1, <2>2, <2>3
  <1> QED BY <1>2, <1>4, <1>5 DEF Lists, Range, Ascends, r

LEMMA ListsTwice ==
    ASSUME NEW s \in Seq(Nat), NEW S, Lists(s, S),
           Len(file) \in S, \A x \in S : x <= Len(file), NEW y \in S, y # Len(file)
    PROVE  ListsLastTwice(Append(s, Len(file)), S)
  <1> DEFINE n == Len(file)
             r == Append(s, n)
  <1>0. DOMAIN s = 1 .. Len(s) /\ Len(s) \in Nat /\ \A j \in 1 .. Len(s) : s[j] \in Nat
    BY LenProperties, ElementOfSeq
  <1>1. S = {s[j] : j \in 1 .. Len(s)} /\ \A u, j \in 1 .. Len(s) : u < j => s[u] < s[j]
    BY <1>0 DEF Lists, Range, Ascends
  <1>2. n \in Nat /\ n \in S
    BY <1>0, <1>1
  <1>3. /\ r \in Seq(Nat) /\ Len(r) = Len(s) + 1
        /\ \A j \in 1 .. Len(r) : \/ j \in 1 .. Len(s) /\ r[j] = s[j]
                                  \/ j = Len(s) + 1 /\ r[j] = n
    BY <1>2, AppendElements
  <1>4. \A x \in S : x <= n
    OBVIOUS
  <1> HIDE DEF n, r
  <1>5. s[Len(s)] = n /\ Len(s) > 1
    <2>1. PICK j \in 1 .. Len(s) : s[j] = n
      BY <1>1, <1>2
    <2>2. PICK k \in 1 .. Len(s) : s[k] = y
      BY <1>1
    <2>3. j = Len(s)
      <3>1. s[Len(s)] \in S /\ s[Len(s)] \in Nat
        BY <1>0, <1>1, <2>1
      <3>2. ~ (n < s[Len(s)])
        BY <1>2, <1>4, <3>1
      <3>3. Len(s) \in 1 .. Len(s) /\ (j < Len(s) \/ j = Len(s))
        <4>1. Len(s) \in Nat
          BY <1>0
        <4>2. j \in Nat /\ 1 <= j /\ j <= Len(s)
          BY <4>1
        <4> QED BY <4>1, <4>2
      <3>4. j < Len(s) => s[j] < s[Len(s)]
        BY <1>1, <3>3
      <3> QED BY <2>1, <3>2, <3>3, <3>4
    <2>4. s[k] # s[j]
      BY <2>1, <2>2 DEF n
    <2>5. k < Len(s)
      BY <1>0, <2>3, <2>4
    <2> QED BY <1>0, <2>1, <2>3, <2>5
  <1>6. DOMAIN r = 1 .. Len(r)
    BY <1>3, LenProperties
  <1>7. {r[j] : j \in 1 .. Len(r)} = S
    <2>1. \A j \in 1 .. Len(r) : r[j] \in S
      BY <1>1, <1>2, <1>3
    <2>2. ASSUME NEW x \in S PROVE \E j \in 1 .. Len(r) : r[j] = x
      <3>1. PICK j \in 1 .. Len(s) : s[j] = x
        BY <1>1
      <3>2. j \in 1 .. Len(r) /\ j # Len(s) + 1
        BY <1>0, <1>3
      <3> QED BY <1>3, <3>1, <3>2
    <2> QED BY <2>1, <2>2
  <1>8. \A j \in 1 .. Len(s) : r[j] = s[j]
    BY <1>0, <1>3
  <1>9. r[Len(r)] = n /\ Len(r) - 1 = Len(s) /\ Len(r) \in Nat
    BY <1>0, <1>3
  <1>10. r[Len(r) - 1] = n /\ Len(r) > 1
    <2>1. Len(s) \in 1 .. Len(s) /\ Len(r) > 1
      BY <1>0, <1>3, <1>5
    <2>2. r[Len(s)] = n
      BY <1>5, <1>8, <2>1
    <2> QED BY <1>9, <2>1, <2>2
  <1>11. \A u, j \in 1 .. Len(s) : u < j => r[u] < r[j]
    BY <1>1, <1>8
  <1>12. Range(r) = S /\ Ascends(r, Len(r) - 1)
    BY <1>6, <1>7, <1>9, <1>11 DEF Range, Ascends
  <1> QED BY <1>9, <1>10, <1>12 DEF ListsLastTwice, n, r

-------------------------------------------------------------------------------
(* The lines of a file. *)

LEMMA FileFacts ==
    ASSUME ParserTypeOK
    PROVE  /\ Len(file) \in Nat /\ next \in Nat
           /\ \A m \in 1 .. Len(file) :
                 /\ Kind(m) = file[m].kind
                 /\ file[m].kind \in {"key", "text", "comment", "blank", "sentry"}
                 /\ file[m].kind = "key" => file[m].key \in Key
           /\ Kind(Empty) = "blank"
  <1>1. file \in Seq(Line)
    BY DEF ParserTypeOK
  <1>2. Len(file) \in Nat
    BY <1>1, LenProperties
  <1>3. \A m \in 1 .. Len(file) : file[m] \in Line
    BY <1>1, ElementOfSeq
  <1>4. \A l \in Line :
           /\ l.kind \in {"key", "text", "comment", "blank", "sentry"}
           /\ l.kind = "key" => l.key \in Key
    BY DEF Line
  <1>5. Kind(Empty) = "blank"
    BY DEF Kind, Empty
  <1>6. \A m \in 1 .. Len(file) : Kind(m) = file[m].kind
    BY DEF Kind
  <1>7. next \in Nat
    BY <1>2 DEF ParserTypeOK
  <1>8. ASSUME NEW m \in 1 .. Len(file)
        PROVE  /\ Kind(m) = file[m].kind
               /\ file[m].kind \in {"key", "text", "comment", "blank", "sentry"}
               /\ file[m].kind = "key" => file[m].key \in Key
    <2>1. file[m] \in Line
      BY <1>3
    <2>2. Kind(m) = file[m].kind
      BY <1>6
    <2> QED BY <1>4, <2>1, <2>2, Zenon
  <1> QED BY <1>2, <1>5, <1>7, <1>8

(* What one more line does to a value that is begun in line n. *)
LEMMA ValueBegins ==
    ASSUME NEW n \in Nat  PROVE ValueUpTo(n, n) = {n} /\ NoStop(n, n)
  BY DEF ValueUpTo, NoStop

LEMMA ValueGoesOn ==
    ASSUME NEW n \in Nat, NEW m \in Nat, n < m, NoStop(n, m - 1), file[m].kind \notin Stops
    PROVE  /\ NoStop(n, m)
           /\ ValueUpTo(n, m) = IF file[m].kind = "text" THEN ValueUpTo(n, m - 1) \cup {m}
                                ELSE ValueUpTo(n, m - 1)
  <1>1. n + 1 .. m = (n + 1 .. m - 1) \cup {m}
    OBVIOUS
  <1>2. NoStop(n, m)
    BY <1>1 DEF NoStop
  <1> QED BY <1>1, <1>2 DEF ValueUpTo

LEMMA ValueStops ==
    ASSUME NEW n \in Nat, NEW m \in Nat, NEW h \in Nat, n < m, m - 1 <= h,
           m <= h => file[m].kind \in Stops
    PROVE  ValueUpTo(n, h) = ValueUpTo(n, m - 1)
  <1>1. n + 1 .. m - 1 \subseteq n + 1 .. h
    OBVIOUS
  <1>2. \A j \in n + 1 .. h : j \notin n + 1 .. m - 1 => m \in n + 1 .. j /\ m <= h
    OBVIOUS
  <1>3. \A j \in n + 1 .. h : j \notin n + 1 .. m - 1 => ~ NoStop(n, j)
    BY <1>2 DEF NoStop
  <1> QED BY <1>1, <1>3 DEF ValueUpTo

LEMMA ValueBounds ==
    ASSUME NEW n \in Nat, NEW h \in Nat, n <= h
    PROVE  n \in ValueUpTo(n, h) /\ ValueUpTo(n, h) \subseteq n .. h
  BY DEF ValueUpTo

(* The definitions depend on the lines alone, which never change. *)
LEMMA LinesKept ==
    ASSUME [ParserNext]_parserVars  PROVE file' = file /\ lastNewline' = lastNewline
  BY DEF ParserNext, Parse, parserVars, Ignored, SentryFound, KeyFound, TakeLine,
         EndOfFile, Continued, Terminated, StreamFailed

LEMMA SameMeaning ==
    ASSUME file' = file, lastNewline' = lastNewline
    PROVE  /\ \A n, h : ValueUpTo(n, h)' = ValueUpTo(n, h) /\ (NoStop(n, h)' <=> NoStop(n, h))
           /\ \A n, h : LastUpTo(n, h)' <=> LastUpTo(n, h)
           /\ \A h : (NoSentry(h)' <=> NoSentry(h)) /\ KeysUpTo(h)' = KeysUpTo(h)
           /\ \A v, n : Right(v, n)' <=> Right(v, n)
           /\ myContents' = myContents => \A h : ReadUpTo(h)' <=> ReadUpTo(h)
           /\ \A n : Kind(n)' = Kind(n)
  <1>1. \A n, h : NoStop(n, h)' <=> NoStop(n, h)
    BY DEF NoStop, Stops
  <1>2. \A n, h : ValueUpTo(n, h)' = ValueUpTo(n, h)
    BY <1>1 DEF ValueUpTo
  <1>3. \A n, h : LastUpTo(n, h)' <=> LastUpTo(n, h)
    BY DEF LastUpTo
  <1>4. \A h : (NoSentry(h)' <=> NoSentry(h)) /\ KeysUpTo(h)' = KeysUpTo(h)
    BY DEF NoSentry, KeysUpTo
  <1>5. \A v, n : Right(v, n)' <=> Right(v, n)
    BY <1>2 DEF Right, Lists, ListsLastTwice, Ascends
  <1>6. myContents' = myContents => \A h : ReadUpTo(h)' <=> ReadUpTo(h)
    BY <1>3, <1>4, <1>5 DEF ReadUpTo
  <1>7. \A n : Kind(n)' = Kind(n)
    BY DEF Kind
  <1> QED BY <1>1, <1>2, <1>3, <1>4, <1>5, <1>6, <1>7

-------------------------------------------------------------------------------
(* Storing a value. *)

(* Lines without a key of their own change nothing of what is said.        *)
LEMMA NoMoreKeys ==
    ASSUME NEW h \in Nat, NEW g \in Nat, h <= g, \A m \in h + 1 .. g : file[m].kind # "key"
    PROVE  /\ KeysUpTo(g) = KeysUpTo(h)
           /\ \A n \in 1 .. g : LastUpTo(n, g) => n \in 1 .. h /\ LastUpTo(n, h)
  <1>1. \A m \in 1 .. g : file[m].kind = "key" => m \in 1 .. h
    OBVIOUS
  <1>2. \A m \in 1 .. h : m \in 1 .. g
    OBVIOUS
  <1>3. KeysUpTo(g) = KeysUpTo(h)
    BY <1>1, <1>2 DEF KeysUpTo
  <1>4. ASSUME NEW n \in 1 .. g, LastUpTo(n, g)
        PROVE  n \in 1 .. h /\ LastUpTo(n, h)
    <2>1. n \in 1 .. h
      BY <1>1, <1>4 DEF LastUpTo
    <2>2. n + 1 .. h \subseteq n + 1 .. g
      BY <2>1
    <2> QED BY <1>4, <2>1, <2>2 DEF LastUpTo
  <1> QED BY <1>3, <1>4

LEMMA ReadOn ==
    ASSUME NEW h \in Nat, ReadUpTo(h), NEW g \in Nat, h <= g,
           \A m \in h + 1 .. g : file[m].kind # "key"
    PROVE  ReadUpTo(g)
  BY NoMoreKeys DEF ReadUpTo

(* The value of the key line n, once it is complete, makes myContents what *)
(* the lines up to g say, if none after n has a key.                       *)
LEMMA StoredIsRight ==
    ASSUME NEW n \in Nat \ {0}, file[n].kind = "key", key = file[n].key,
           ReadUpTo(n - 1), Right(value, n),
           NEW g \in Nat, n <= g, \A m \in n + 1 .. g : file[m].kind # "key",
           myContents' = Stored, file' = file, lastNewline' = lastNewline
    PROVE  ReadUpTo(g)'
  <1>1. 1 .. n = (1 .. n - 1) \cup {n} /\ n \in 1 .. n
    OBVIOUS
  <1>2. KeysUpTo(n) = KeysUpTo(n - 1) \cup {key}
    BY <1>1 DEF KeysUpTo
  <1>3. DOMAIN myContents' = KeysUpTo(n)
    BY <1>2 DEF ReadUpTo, Stored
  <1>4. ASSUME NEW m \in 1 .. n, LastUpTo(m, n)
        PROVE  Right(myContents'[file[m].key], m)
    <2>1. file[m].key \in DOMAIN Stored
      <3>1. file[m].key \in KeysUpTo(n)
        BY <1>4 DEF LastUpTo, KeysUpTo
      <3> QED BY <1>3, <3>1
    <2>2. CASE m = n
      BY <2>1, <2>2 DEF Stored
    <2>3. CASE m # n
      <3>1. m \in 1 .. n - 1 /\ n \in m + 1 .. n /\ m + 1 .. n - 1 \subseteq m + 1 .. n
        BY <2>3
      <3>2. file[m].key # key /\ LastUpTo(m, n - 1)
        BY <1>4, <3>1 DEF LastUpTo
      <3>3. Right(myContents[file[m].key], m)
        BY <3>1, <3>2 DEF ReadUpTo
      <3> QED BY <2>1, <3>2, <3>3 DEF Stored
    <2> QED BY <2>2, <2>3
  <1>5. /\ KeysUpTo(g) = KeysUpTo(n)
        /\ \A m \in 1 .. g : LastUpTo(m, g) => m \in 1 .. n /\ LastUpTo(m, n)
    BY NoMoreKeys
  <1>6. /\ KeysUpTo(g)' = KeysUpTo(g) /\ \A m : LastUpTo(m, g)' <=> LastUpTo(m, g)
        /\ \A v, m : Right(v, m)' <=> Right(v, m)
    BY SameMeaning
  <1> QED BY <1>3, <1>4, <1>5, <1>6 DEF ReadUpTo

(* A value that is being read has met neither the sentry nor another key.  *)
LEMMA ReadingOn ==
    ASSUME NEW n \in Nat \ {0}, NEW g \in Nat, file[n].kind = "key", NoSentry(n - 1), NoStop(n, g)
    PROVE  NoSentry(g) /\ \A m \in n + 1 .. g : file[m].kind # "key"
  <1>1. \A m \in 1 .. g : m \in 1 .. n - 1 \/ m = n \/ m \in n + 1 .. g
    OBVIOUS
  <1>2. \A m \in n + 1 .. g : file[m].kind \notin {"key", "sentry"}
    BY DEF NoStop, Stops
  <1> QED BY <1>1, <1>2 DEF NoSentry

-------------------------------------------------------------------------------
(* The types. *)

LEMMA GetlineFacts ==
    ASSUME ParserTypeOK, NEW s \in 0 .. Len(file)
    PROVE  /\ Getline(s) \in 0 .. Len(file)
           /\ Getline(s) = IF eof \/ fail THEN s ELSE IF next <= Len(file) THEN next ELSE 0
  BY FileFacts DEF ParserTypeOK, Getline, Empty

LEMMA StreamFacts ==
    ASSUME ParserTypeOK, Stream, file' = file, lastNewline' = lastNewline, StreamRead
    PROVE  /\ next' \in 1 .. Len(file') + 1 /\ eof' \in BOOLEAN /\ fail' \in BOOLEAN
           /\ fail' => eof'
           /\ Stream'
           /\ \/ /\ ~ eof /\ ~ fail /\ next <= Len(file)
                 /\ next' = next + 1 /\ fail' = fail
              \/ /\ next = Len(file) + 1
                 /\ next' = next /\ fail'
  <1>1. Len(file) \in Nat /\ next \in 1 .. Len(file) + 1
    BY FileFacts DEF ParserTypeOK
  <1>2. CASE ~ (eof \/ fail) /\ next <= Len(file)
    <2>1. next' = next + 1 /\ eof' = (next = Len(file) /\ ~ lastNewline) /\ fail' = fail
      BY <1>2 DEF StreamRead
    <2>2. next' \in 1 .. Len(file') + 1
      BY <1>1, <1>2, <2>1
    <2>3. eof' \in BOOLEAN /\ fail' = FALSE /\ fail' \in BOOLEAN
      BY <1>2, <2>1 DEF ParserTypeOK
    <2>4. /\ eof' => next' = Len(file') + 1
          /\ eof' => ~ lastNewline'
          /\ ~ eof' /\ next' = Len(file') + 1 => lastNewline'
      <3>1. eof' <=> (next = Len(file) /\ ~ lastNewline')
        BY <2>1 DEF ParserTypeOK
      <3>2. (next' = Len(file') + 1) <=> (next = Len(file))
        BY <1>1, <2>1
      <3> QED BY <3>1, <3>2
    <2>5. Stream'
      BY <2>4 DEF Stream
    <2> QED BY <1>2, <2>1, <2>2, <2>3, <2>5
  <1>3. CASE ~ (~ (eof \/ fail) /\ next <= Len(file))
    <2>1. next' = next /\ eof' = TRUE /\ fail' = TRUE
      BY <1>3 DEF StreamRead
    <2>2. next = Len(file) + 1
      BY <1>1, <1>3 DEF Stream, ParserTypeOK
    <2> QED BY <1>1, <2>1, <2>2 DEF Stream
  <1> QED BY <1>2, <1>3

(* A value and its number of lines stay typed. *)
LEMMA StoredType ==
    ASSUME ParserTypeOK
    PROVE  /\ DOMAIN Stored \subseteq Key
           /\ Stored \in [DOMAIN Stored -> Seq(1 .. Len(file))]
  <1>1. Stored \in [DOMAIN myContents \cup {key} -> Seq(1 .. Len(file))]
    BY DEF Stored, ParserTypeOK
  <1>2. DOMAIN myContents \cup {key} \subseteq Key
    BY DEF ParserTypeOK
  <1> QED BY <1>1, <1>2

LEMMA TypeStep ==
    ASSUME ParserTypeOK, Stream, [ParserNext]_parserVars
    PROVE  ParserTypeOK' /\ Stream'
  <1>0. file' = file /\ lastNewline' = lastNewline
    BY LinesKept
  <1>1. Len(file) \in Nat
    BY FileFacts
  <1>2. ASSUME NEW l \in 0 .. Len(file), Ignored(l) \/ SentryFound(l) \/ KeyFound(l)
        PROVE  ParserTypeOK' /\ Stream'
    <2>1. TakeLine(l)
      BY <1>2 DEF Ignored, SentryFound, KeyFound
    <2>2. /\ next' \in 1 .. Len(file') + 1 /\ eof' \in BOOLEAN /\ fail' \in BOOLEAN
          /\ (fail' => eof') /\ Stream'
      <3>1. CASE UNCHANGED <<next, eof, fail>>
        BY <1>0, <3>1 DEF ParserTypeOK, Stream
      <3>2. CASE StreamRead
        BY <1>0, <3>2, StreamFacts
      <3> QED BY <2>1, <3>1, <3>2 DEF TakeLine
    <2>3. nextline' = Empty /\ myContents' = myContents
      BY <2>1 DEF TakeLine, ClearedAhead
    <2>4. parsing' \in {"line", "value", "done"}
      BY <1>2 DEF Ignored, SentryFound, KeyFound, ParserTypeOK
    <2>5. key' \in Key /\ value' \in Seq(1 .. Len(file))
      <3>1. CASE Ignored(l) \/ SentryFound(l)
        BY <3>1 DEF Ignored, SentryFound, ParserTypeOK
      <3>2. CASE KeyFound(l)
        <4>1. l \in 1 .. Len(file) /\ Kind(l) = "key"
          BY <3>2, FileFacts DEF KeyFound, Empty
        <4>2. file[l].key \in Key
          BY <4>1, FileFacts
        <4>3. <<l>> \in Seq(1 .. Len(file))
          BY <4>1
        <4> QED BY <3>2, <4>2, <4>3 DEF KeyFound
      <3> QED BY <1>2, <3>1, <3>2
    <2> QED BY <1>0, <1>1, <2>2, <2>3, <2>4, <2>5 DEF ParserTypeOK, Empty
  <1>3. CASE EndOfFile
    BY <1>3 DEF EndOfFile, ParserTypeOK, Stream
  <1>4. CASE Continued \/ Terminated
    <2>1. StreamRead
      BY <1>4 DEF Continued, Terminated
    <2>2. /\ next' \in 1 .. Len(file') + 1 /\ eof' \in BOOLEAN /\ fail' \in BOOLEAN
          /\ (fail' => eof') /\ Stream'
      BY <1>0, <2>1, StreamFacts
    <2>3. Getline(nextline) \in 0 .. Len(file)
      BY GetlineFacts DEF ParserTypeOK
    <2>4. nextline' \in 0 .. Len(file)
      BY <1>1, <1>4, <2>3 DEF Continued, Terminated, Cut, Empty
    <2>5. key' = key /\ parsing' \in {"line", "value", "done"}
      BY <1>4 DEF Continued, Terminated, ParserTypeOK
    <2>6. value' \in Seq(1 .. Len(file))
      <3>1. value \in Seq(1 .. Len(file))
        BY DEF ParserTypeOK
      <3>2. CASE Continued
        <4>1. CASE nextline' = Empty
          BY <3>1, <3>2, <4>1 DEF Continued
        <4>2. CASE nextline' # Empty
          <5>1. nextline' \in 1 .. Len(file)
            BY <1>1, <2>4, <4>2 DEF Empty
          <5>2. value' = Append(value, nextline')
            BY <3>2, <4>2 DEF Continued
          <5> QED BY <3>1, <5>1, <5>2, AppendElements
        <4> QED BY <4>1, <4>2
      <3>3. CASE Terminated
        BY <3>1, <3>3 DEF Terminated
      <3> QED BY <1>4, <3>2, <3>3
    <2>7. myContents' = myContents \/ myContents' = Stored
      BY <1>4 DEF Continued, Terminated
    <2>8. /\ DOMAIN myContents' \subseteq Key
          /\ myContents' \in [DOMAIN myContents' -> Seq(1 .. Len(file))]
      BY <2>7, StoredType DEF ParserTypeOK
    <2>9. file' \in Seq(Line) /\ lastNewline' \in BOOLEAN /\ key' \in Key
      BY <1>0, <2>5 DEF ParserTypeOK
    <2> QED BY <1>0, <2>2, <2>4, <2>5, <2>6, <2>8, <2>9 DEF ParserTypeOK
  <1>5. CASE StreamFailed
    <2>1. /\ DOMAIN myContents' \subseteq Key
          /\ myContents' \in [DOMAIN myContents' -> Seq(1 .. Len(file))]
      BY <1>5, StoredType DEF StreamFailed
    <2>2. parsing' \in {"line", "value", "done"}
      BY <1>5 DEF StreamFailed
    <2> QED BY <1>5, <2>1, <2>2 DEF StreamFailed, ParserTypeOK, Stream
  <1>6. CASE UNCHANGED parserVars
    BY <1>6 DEF parserVars, ParserTypeOK, Stream
  <1> QED BY <1>2, <1>3, <1>4, <1>5, <1>6 DEF ParserNext, Parse

-------------------------------------------------------------------------------
(* The outer loop. *)

(* The line it takes has no part in what is read yet, or is the next one.  *)
LEMMA TakenLine ==
    ASSUME ParserTypeOK, Stream, InLine, NEW l \in 0 .. Len(file), TakeLine(l)
    PROVE  /\ nextline' = Empty
           /\ \E h \in 0 .. Len(file) :
                 /\ NoSentry(h) /\ ReadUpTo(h)
                 /\ \/ next' = h + 1 /\ Kind(l) \in {"blank", "text"}
                    \/ /\ next' = h + 2 /\ l = h + 1 /\ l \in 1 .. Len(file)
                       /\ ~ fail'
  <1>0. PICK h \in 0 .. Len(file) : h = Handled /\ NoSentry(h) /\ ReadUpTo(h)
    BY DEF InLine
  <1>1. Len(file) \in Nat /\ next \in 1 .. Len(file) + 1 /\ h \in Nat
    BY FileFacts DEF ParserTypeOK
  <1>2. nextline' = Empty
    BY DEF TakeLine, ClearedAhead
  <1>3. CASE nextline # Empty
    <2>1. l = nextline /\ next' = next /\ fail' = fail /\ l = next - 1
      BY <1>3 DEF TakeLine, InLine
    <2>2. l \in 1 .. Len(file)
      BY <1>1, <1>3, <2>1 DEF Empty
    <2>3. CASE Kind(nextline) = "text"
      <3>1. next' = h + 1
        BY <1>0, <1>1, <2>1, <2>3 DEF Handled
      <3> QED BY <1>0, <1>2, <2>1, <2>3, <3>1
    <2>4. CASE Kind(nextline) # "text"
      <3>1. ~ fail
        BY <1>3, <2>4 DEF InLine
      <3>2. next' = h + 2 /\ l = h + 1
        BY <1>0, <1>1, <1>3, <2>1, <2>4 DEF Handled
      <3> QED BY <1>0, <1>2, <2>1, <2>2, <3>1, <3>2
    <2> QED BY <2>3, <2>4
  <1>4. CASE nextline = Empty
    <2>1. l = Getline(Empty) /\ StreamRead /\ ~ fail
      BY <1>4 DEF TakeLine
    <2>2. h = next - 1
      BY <1>0, <1>4 DEF Handled
    <2>3. CASE ~ eof /\ next <= Len(file)
      <3>1. l = next /\ next' = next + 1 /\ fail' = fail
        BY <2>1, <2>3 DEF Getline, StreamRead
      <3>2. next' = h + 2 /\ l = h + 1 /\ l \in 1 .. Len(file)
        BY <1>1, <2>2, <2>3, <3>1
      <3> QED BY <1>0, <1>2, <2>1, <3>1, <3>2
    <2>4. CASE eof \/ ~ (next <= Len(file))
      <3>1. l = Empty /\ next' = next
        BY <2>1, <2>4 DEF Getline, StreamRead
      <3>2. next' = h + 1 /\ Kind(l) = "blank"
        BY <1>1, <2>2, <3>1, FileFacts
      <3> QED BY <1>0, <1>2, <3>2
    <2> QED BY <2>3, <2>4
  <1> QED BY <1>3, <1>4

LEMMA IgnoredKeeps ==
    ASSUME ParserTypeOK, Stream, InLine, NEW l \in 0 .. Len(file), Ignored(l)
    PROVE  parsing' = "line" /\ InLine'
  <1>1. TakeLine(l) /\ Kind(l) \in {"text", "comment", "blank"} /\ parsing' = "line"
    BY DEF Ignored, TakeLine
  <1>2. file' = file /\ lastNewline' = lastNewline /\ myContents' = myContents
    BY <1>1 DEF TakeLine
  <1>3. PICK h \in 0 .. Len(file) :
           /\ NoSentry(h) /\ ReadUpTo(h)
           /\ \/ next' = h + 1 /\ Kind(l) \in {"blank", "text"}
              \/ next' = h + 2 /\ l = h + 1 /\ l \in 1 .. Len(file) /\ ~ fail'
    BY <1>1, TakenLine
  <1>4. nextline' = Empty
    BY <1>1, TakenLine
  <1>5. Len(file) \in Nat /\ h \in Nat
    BY FileFacts
  <1>6. \E g \in 0 .. Len(file) : next' = g + 1 /\ NoSentry(g) /\ ReadUpTo(g)
    <2>1. CASE next' = h + 1
      BY <1>3, <2>1
    <2>2. CASE next' = h + 2 /\ l = h + 1 /\ l \in 1 .. Len(file)
      <3>1. file[h + 1].kind \in {"text", "comment", "blank"}
        BY <1>1, <2>2, FileFacts
      <3>2. \A m \in h + 1 .. h + 1 : m = h + 1
        BY <1>5
      <3>3. ReadUpTo(h + 1)
        BY <1>3, <1>5, <3>1, <3>2, ReadOn
      <3>4. \A m \in 1 .. h + 1 : m \in 1 .. h \/ m = h + 1
        BY <1>5
      <3>5. NoSentry(h + 1)
        BY <1>3, <3>1, <3>4 DEF NoSentry
      <3>6. next' = (h + 1) + 1 /\ h + 1 \in 0 .. Len(file)
        BY <1>5, <2>2
      <3> QED BY <3>3, <3>5, <3>6
    <2> QED BY <1>3, <2>1, <2>2
  <1>7. PICK g \in 0 .. Len(file) : next' = g + 1 /\ NoSentry(g) /\ ReadUpTo(g)
    BY <1>6
  <1>8. NoSentry(g)' /\ ReadUpTo(g)'
    BY <1>2, <1>7, SameMeaning
  <1>9. Handled' = g
    BY <1>4, <1>5, <1>7 DEF Handled
  <1>10. InLine'
    BY <1>2, <1>4, <1>8, <1>9 DEF InLine
  <1> QED BY <1>1, <1>10

LEMMA KeyFoundKeeps ==
    ASSUME ParserTypeOK, Stream, InLine, NEW l \in 0 .. Len(file), KeyFound(l)
    PROVE  parsing' = "value" /\ InValue'
  <1>1. /\ TakeLine(l) /\ Kind(l) = "key"
        /\ parsing' = "value" /\ key' = file[l].key /\ value' = <<l>>
    BY DEF KeyFound
  <1>2. file' = file /\ lastNewline' = lastNewline /\ myContents' = myContents
    BY <1>1 DEF TakeLine
  <1>3. PICK h \in 0 .. Len(file) :
           /\ NoSentry(h) /\ ReadUpTo(h)
           /\ \/ next' = h + 1 /\ Kind(l) \in {"blank", "text"}
              \/ next' = h + 2 /\ l = h + 1 /\ l \in 1 .. Len(file) /\ ~ fail'
    BY <1>1, TakenLine
  <1>4. nextline' = Empty
    BY <1>1, TakenLine
  <1>5. Len(file) \in Nat /\ h \in Nat
    BY FileFacts
  <1>6. next' = h + 2 /\ l = h + 1 /\ l \in 1 .. Len(file) /\ ~ fail'
    BY <1>1, <1>3
  <1>7. next' - 1 = l /\ l - 1 = h /\ l < next' /\ l \in Nat
    BY <1>5, <1>6
  <1>8. ValueUpTo(l, l)' = {l} /\ NoStop(l, l)' /\ NoSentry(h)' /\ ReadUpTo(h)'
    BY <1>2, <1>3, <1>7, ValueBegins, SameMeaning
  <1>9. file'[l].kind = "key" /\ key' = file'[l].key
    BY <1>1, <1>2, <1>6, FileFacts
  <1>10. Lists(value', {l})
    BY <1>1, <1>7, ListsOne
  <1>11. Reading(l)'
    BY <1>4, <1>6, <1>7, <1>8, <1>9, <1>10 DEF Reading
  <1> QED BY <1>1, <1>2, <1>6, <1>11 DEF InValue

LEMMA SentryFoundKeeps ==
    ASSUME ParserTypeOK, Stream, InLine, NEW l \in 0 .. Len(file), SentryFound(l)
    PROVE  parsing' = "done" /\ AtEnd'
  <1>1. TakeLine(l) /\ Kind(l) = "sentry" /\ parsing' = "done"
    BY DEF SentryFound
  <1>2. file' = file /\ lastNewline' = lastNewline /\ myContents' = myContents
    BY <1>1 DEF TakeLine
  <1>3. PICK h \in 0 .. Len(file) :
           /\ NoSentry(h) /\ ReadUpTo(h)
           /\ \/ next' = h + 1 /\ Kind(l) \in {"blank", "text"}
              \/ next' = h + 2 /\ l = h + 1 /\ l \in 1 .. Len(file) /\ ~ fail'
    BY <1>1, TakenLine
  <1>4. file[h + 1].kind = "sentry"
    BY <1>1, <1>3, FileFacts
  <1>5. NoSentry(h)' /\ ReadUpTo(h)'
    BY <1>2, <1>3, SameMeaning
  <1> QED BY <1>1, <1>2, <1>4, <1>5 DEF AtEnd

LEMMA EndOfFileKeeps ==
    ASSUME ParserTypeOK, Stream, InLine, EndOfFile
    PROVE  parsing' = "done" /\ AtEnd'
  <1>1. fail /\ nextline = Empty /\ parsing' = "done"
    BY DEF EndOfFile
  <1>2. file' = file /\ lastNewline' = lastNewline /\ myContents' = myContents
    BY DEF EndOfFile
  <1>3. PICK h \in 0 .. Len(file) : h = Handled /\ NoSentry(h) /\ ReadUpTo(h)
    BY DEF InLine
  <1>4. next = Len(file) + 1 /\ Len(file) \in Nat
    BY <1>1, FileFacts DEF ParserTypeOK, Stream
  <1>5. h = Len(file)
    BY <1>1, <1>3, <1>4 DEF Handled
  <1>6. NoSentry(h)' /\ ReadUpTo(h)'
    BY <1>2, <1>3, SameMeaning
  <1> QED BY <1>1, <1>2, <1>5, <1>6 DEF AtEnd

-------------------------------------------------------------------------------
(* The inner loop. *)

LEMMA ReadingFacts ==
    ASSUME ParserTypeOK, NEW n \in 1 .. Len(file), Reading(n)
    PROVE  /\ Len(file) \in Nat /\ n \in Nat \ {0} /\ n - 1 \in Nat /\ next - 1 \in Nat
           /\ next \in 1 .. Len(file) + 1
           /\ n < next /\ n <= next - 1 /\ (n - 1) + 1 = n
           /\ n \in ValueUpTo(n, next - 1) /\ ValueUpTo(n, next - 1) \subseteq n .. next - 1
           /\ NoSentry(next - 1) /\ \A m \in n + 1 .. next - 1 : file[m].kind # "key"
  <1>1. /\ Len(file) \in Nat /\ n \in Nat \ {0} /\ n - 1 \in Nat
        /\ next \in 1 .. Len(file) + 1
    BY FileFacts DEF ParserTypeOK
  <1>2. n < next
    BY DEF Reading
  <1>3. next - 1 \in Nat /\ n <= next - 1 /\ (n - 1) + 1 = n
    BY <1>1, <1>2
  <1>4. n \in ValueUpTo(n, next - 1) /\ ValueUpTo(n, next - 1) \subseteq n .. next - 1
    BY <1>1, <1>3, ValueBounds
  <1>5. NoSentry(next - 1) /\ \A m \in n + 1 .. next - 1 : file[m].kind # "key"
    <2>1. file[n].kind = "key" /\ NoSentry(n - 1) /\ NoStop(n, next - 1)
      BY DEF Reading
    <2> QED BY <1>1, <1>3, <2>1, ReadingOn
  <1> QED BY <1>1, <1>2, <1>3, <1>4, <1>5

LEMMA ContinuedKeeps ==
    ASSUME ParserTypeOK, Stream, InValue, Continued
    PROVE  parsing' = "value" /\ InValue'
  <1> DEFINE g == Getline(nextline)
  <1>0. PICK n \in 1 .. Len(file) : Reading(n)
    BY DEF InValue
  <1>1. /\ parsing' = "value" /\ ~ fail /\ Kind(g) \notin Stops
        /\ nextline' = Cut(g) /\ StreamRead
        /\ value' = IF nextline' = Empty THEN value ELSE Append(value, nextline')
    BY DEF Continued, ParserTypeOK
  <1>2. file' = file /\ lastNewline' = lastNewline /\ myContents' = myContents /\ key' = key
    BY DEF Continued
  <1>3. /\ Len(file) \in Nat /\ n \in Nat \ {0} /\ n - 1 \in Nat /\ next - 1 \in Nat
        /\ next \in 1 .. Len(file) + 1
        /\ n < next /\ n <= next - 1 /\ (n - 1) + 1 = n
        /\ n \in ValueUpTo(n, next - 1) /\ ValueUpTo(n, next - 1) \subseteq n .. next - 1
    BY <1>0, ReadingFacts
  <1>4. /\ file[n].kind = "key" /\ key = file[n].key
        /\ NoSentry(n - 1) /\ ReadUpTo(n - 1) /\ NoStop(n, next - 1)
        /\ Lists(value, ValueUpTo(n, next - 1))
        /\ nextline # Empty => nextline = next - 1 /\ file[nextline].kind = "text"
    BY <1>0, <1>1 DEF Reading
  <1>5. NoSentry(n - 1)' /\ ReadUpTo(n - 1)' /\ file'[n].kind = "key" /\ key' = file'[n].key
    BY <1>2, <1>4, SameMeaning
  <1>6. value \in Seq(Nat)
    <2>1. 1 .. Len(file) \subseteq Nat
      OBVIOUS
    <2> QED BY <2>1 DEF ParserTypeOK
  <1>7. CASE ~ eof /\ ~ fail /\ next <= Len(file)
    <2>1. g = next /\ next' = next + 1 /\ fail' = fail
      BY <1>1, <1>7 DEF Getline, StreamRead
    <2>2. PICK t \in Nat : t = next
      BY <1>3
    <2>3. /\ t \in 1 .. Len(file) /\ next' - 1 = t /\ n < next' /\ t # Empty /\ n < t + 1
          /\ t - 1 = next - 1 /\ n < t
      <3>1. t \in 1 .. Len(file) /\ next' - 1 = t /\ n < next' /\ t # Empty /\ t - 1 = next - 1
        BY <1>3, <1>7, <2>1, <2>2 DEF Empty
      <3> QED BY <1>3, <2>2, <3>1
    <2>4. Kind(t) = file[t].kind /\ file[t].kind \in {"text", "comment"}
      BY <1>1, <2>1, <2>2, <2>3, FileFacts DEF Stops
    <2>5. /\ NoStop(n, t)
          /\ ValueUpTo(n, t) = IF file[t].kind = "text" THEN ValueUpTo(n, t - 1) \cup {t}
                               ELSE ValueUpTo(n, t - 1)
      BY <1>3, <1>4, <2>2, <2>3, <2>4, ValueGoesOn DEF Stops
    <2>6. NoStop(n, t)' /\ ValueUpTo(n, t)' = ValueUpTo(n, t)
      BY <1>2, <2>5, SameMeaning
    <2>7. Lists(value, ValueUpTo(n, t - 1))
      BY <1>4, <2>2
    <2>8. CASE file[t].kind = "text"
      <3>1. nextline' = t /\ value' = Append(value, t)
        BY <1>1, <2>1, <2>2, <2>3, <2>4, <2>8 DEF Cut
      <3>2. \A x \in ValueUpTo(n, t - 1) : x < t
        BY <1>3, <2>2
      <3>3. Lists(value', ValueUpTo(n, t))
        BY <1>6, <2>5, <2>7, <2>8, <3>1, <3>2, ListsMore
      <3>4. Reading(n)'
        BY <1>1, <1>2, <1>5, <2>1, <2>3, <2>6, <2>8, <3>1, <3>3 DEF Reading
      <3> QED BY <1>1, <1>2, <3>4 DEF InValue
    <2>9. CASE file[t].kind = "comment"
      <3>1. nextline' = Empty /\ value' = value
        BY <1>1, <2>1, <2>2, <2>4, <2>9 DEF Cut
      <3>2. Lists(value', ValueUpTo(n, t))
        BY <2>5, <2>7, <2>9, <3>1
      <3>3. file'[next' - 1].kind # "text"
        BY <1>2, <2>3, <2>9
      <3>4. Reading(n)'
        BY <1>1, <1>2, <1>5, <2>1, <2>3, <2>6, <3>1, <3>2, <3>3 DEF Reading
      <3> QED BY <1>1, <1>2, <3>4 DEF InValue
    <2> QED BY <2>4, <2>8, <2>9
  <1>8. CASE next = Len(file) + 1 /\ next' = next /\ fail'
    <2>0. PICK t \in Nat : t = Len(file)
      BY <1>3
    <2>1. nextline # Empty /\ g = nextline /\ eof
      <3>1. Kind(Empty) \in Stops
        BY FileFacts DEF Stops
      <3>2. ~ eof => g = Empty
        BY <1>1, <1>3, <1>8 DEF Getline
      <3>3. eof => g = nextline
        BY DEF Getline
      <3> QED BY <1>1, <3>1, <3>2, <3>3
    <2>2. nextline = t /\ next - 1 = t /\ next' - 1 = t /\ file[t].kind = "text"
      BY <1>3, <1>4, <1>8, <2>0, <2>1
    <2>3. t \in 1 .. Len(file) /\ n # t /\ n < t
      BY <1>3, <1>4, <2>0, <2>2
    <2>4. nextline' = t /\ t # Empty
      BY <1>1, <2>1, <2>2, <2>3, FileFacts DEF Cut, Empty
    <2>5. value' = Append(value, Len(file))
      BY <1>1, <2>0, <2>4
    <2>6. /\ NoStop(n, t) /\ Lists(value, ValueUpTo(n, t)) /\ n \in ValueUpTo(n, t)
          /\ \A x \in ValueUpTo(n, t) : x <= t
      BY <1>3, <1>4, <2>2
    <2>7. t \in ValueUpTo(n, t)
      <3>1. t \in n + 1 .. t
        BY <1>3, <2>3
      <3> QED BY <2>2, <2>6, <3>1 DEF ValueUpTo
    <2>8. ListsLastTwice(value', ValueUpTo(n, t))
      BY <1>3, <1>6, <2>0, <2>3, <2>5, <2>6, <2>7, ListsTwice
    <2>9. ~ lastNewline'
      BY <1>1, <1>2, <2>1 DEF Stream
    <2>10. NoStop(n, t)' /\ ValueUpTo(n, t)' = ValueUpTo(n, t)
      BY <1>2, <2>6, SameMeaning
    <2>11. /\ Range(value') = ValueUpTo(n, t)' /\ Ascends(value', Len(value') - 1)
           /\ Len(value') > 1
           /\ value'[Len(value')] = Len(file') /\ value'[Len(value') - 1] = Len(file')
      BY <1>2, <2>8, <2>10 DEF ListsLastTwice
    <2>12. /\ nextline' # Empty /\ nextline' = next' - 1 /\ file'[nextline'].kind = "text"
           /\ n < next' /\ Len(file') = t
      BY <1>2, <1>3, <1>8, <2>0, <2>2, <2>3, <2>4
    <2>13. Reading(n)'
      BY <1>5, <1>8, <2>2, <2>9, <2>10, <2>11, <2>12 DEF Reading, ListsLastTwice
    <2> QED BY <1>1, <1>2, <2>13 DEF InValue
  <1>9. \/ ~ eof /\ ~ fail /\ next <= Len(file)
        \/ next = Len(file) + 1 /\ next' = next /\ fail'
    BY <1>1, <1>2, StreamFacts
  <1> QED BY <1>1, <1>7, <1>8, <1>9

(* The value of the line n is stored with what the lines up to h say.      *)
LEMMA Complete ==
    ASSUME ParserTypeOK, NEW n \in 1 .. Len(file), Reading(n), Right(value, n),
           myContents' = Stored, file' = file, lastNewline' = lastNewline,
           NEW h \in 0 .. Len(file), h = next - 1
    PROVE  NoSentry(h)' /\ ReadUpTo(h)'
  <1>1. /\ n \in Nat \ {0} /\ h \in Nat /\ n <= h
        /\ NoSentry(h) /\ \A m \in n + 1 .. h : file[m].kind # "key"
    BY ReadingFacts
  <1>2. file[n].kind = "key" /\ key = file[n].key /\ ReadUpTo(n - 1)
    BY DEF Reading
  <1>3. ReadUpTo(h)'
    BY <1>1, <1>2, StoredIsRight
  <1>4. NoSentry(h)'
    BY <1>1, SameMeaning
  <1> QED BY <1>3, <1>4

LEMMA TerminatedKeeps ==
    ASSUME ParserTypeOK, Stream, InValue, Terminated
    PROVE  parsing' = "line" /\ InLine'
  <1> DEFINE g == Getline(nextline)
  <1>0. PICK n \in 1 .. Len(file) : Reading(n)
    BY DEF InValue
  <1>1. /\ parsing' = "line" /\ ~ fail /\ Kind(g) \in Stops /\ nextline' = g /\ StreamRead
        /\ myContents' = Stored
    BY DEF Terminated, ParserTypeOK
  <1>2. file' = file /\ lastNewline' = lastNewline
    BY DEF Terminated
  <1>3. /\ Len(file) \in Nat /\ n \in Nat \ {0} /\ next - 1 \in Nat
        /\ next \in 1 .. Len(file) + 1 /\ n < next
        /\ ValueUpTo(n, next - 1) \subseteq n .. next - 1
    BY <1>0, ReadingFacts
  <1>4. /\ file[n].kind = "key" /\ Lists(value, ValueUpTo(n, next - 1))
        /\ nextline # Empty => nextline = next - 1 /\ file[nextline].kind = "text"
        /\ nextline = Empty /\ n < next - 1 => file[next - 1].kind # "text"
    BY <1>0, <1>1 DEF Reading
  <1>5. \A m : Kind(m)' = Kind(m)
    BY <1>2, SameMeaning
  <1>6. PICK h \in 0 .. Len(file) : h = next - 1
    BY <1>3
  <1>7. CASE ~ eof /\ ~ fail /\ next <= Len(file)
    <2>1. g = next /\ next' = next + 1 /\ fail' = fail
      BY <1>1, <1>7 DEF Getline, StreamRead
    <2>2. PICK t \in Nat : t = next
      BY <1>3
    <2>3. /\ t \in 1 .. Len(file) /\ n < t /\ t # Empty
          /\ t - 1 = next - 1 /\ t - 1 <= Len(file)
          /\ t = next' - 1 /\ h = next' - 2
      BY <1>3, <1>6, <1>7, <2>1, <2>2 DEF Empty
    <2>4. file[t].kind \in Stops /\ Kind(t) \in Stops
      BY <1>1, <2>1, <2>2, <2>3, FileFacts
    <2>5. ValueUpTo(n, Len(file)) = ValueUpTo(n, t - 1)
      BY <1>3, <2>2, <2>3, <2>4, ValueStops
    <2>6. Len(file) \notin ValueUpTo(n, Len(file))
      <3>1. \A x \in ValueUpTo(n, t - 1) : x <= t - 1
        BY <1>3, <2>2
      <3>2. ~ (Len(file) <= t - 1)
        BY <1>3, <2>2, <2>3
      <3> QED BY <2>5, <3>1, <3>2
    <2>7. Right(value, n)
      BY <1>4, <2>2, <2>5, <2>6 DEF Right
    <2>8. NoSentry(h)' /\ ReadUpTo(h)'
      BY <1>0, <1>1, <1>2, <1>6, <2>7, Complete
    <2>9. nextline' = t /\ Kind(t)' \in Stops /\ Kind(t)' # "text"
      BY <1>1, <1>5, <2>1, <2>2, <2>4 DEF Stops
    <2>10. Kind(nextline)' = Kind(t)'
      BY <2>9 DEF Kind
    <2>11. Handled' = h
      BY <2>3, <2>9, <2>10 DEF Handled
    <2>12. InLine'
      BY <1>1, <1>2, <2>1, <2>3, <2>8, <2>9, <2>10, <2>11 DEF InLine, Stops
    <2> QED BY <1>1, <2>12
  <1>8. CASE next = Len(file) + 1 /\ next' = next /\ fail'
    <2>1. g = Empty /\ (eof => nextline = Empty)
      <3>1. ~ eof => g = Empty
        BY <1>1, <1>3, <1>8 DEF Getline
      <3>2. eof => g = nextline
        BY DEF Getline
      <3>3. nextline # Empty => Kind(nextline) = "text"
        BY <1>4, FileFacts DEF ParserTypeOK, Empty
      <3> QED BY <1>1, <3>1, <3>2, <3>3 DEF Stops
    <2>2. Len(file) = h /\ h = next - 1 /\ h \in Nat /\ next' - 1 = h
      BY <1>3, <1>6, <1>8
    <2>3. lastNewline \/ h \notin ValueUpTo(n, h) \ {n}
      <3>1. CASE ~ eof
        BY <1>3, <1>8, <3>1 DEF Stream
      <3>2. CASE eof
        <4>1. n < h => file[h].kind # "text"
          BY <1>4, <2>1, <2>2, <3>2
        <4> QED BY <1>3, <2>2, <4>1 DEF ValueUpTo
      <3> QED BY <3>1, <3>2
    <2>4. Right(value, n)
      BY <1>4, <2>2, <2>3 DEF Right
    <2>5. NoSentry(h)' /\ ReadUpTo(h)'
      BY <1>0, <1>1, <1>2, <1>6, <2>4, Complete
    <2>6. nextline' = Empty
      BY <1>1, <2>1
    <2>7. Handled' = h
      BY <2>2, <2>6 DEF Handled
    <2>8. InLine'
      BY <1>2, <2>2, <2>5, <2>6, <2>7 DEF InLine
    <2> QED BY <1>1, <2>8
  <1>9. \/ ~ eof /\ ~ fail /\ next <= Len(file)
        \/ next = Len(file) + 1 /\ next' = next /\ fail'
    BY <1>1, <1>2, StreamFacts
  <1> QED BY <1>7, <1>8, <1>9

LEMMA StreamFailedKeeps ==
    ASSUME ParserTypeOK, Stream, InValue, StreamFailed
    PROVE  parsing' = "line" /\ InLine'
  <1>0. PICK n \in 1 .. Len(file) : Reading(n)
    BY DEF InValue
  <1>1. /\ parsing' = "line" /\ fail /\ fail' = fail /\ next' = next /\ nextline' = nextline
        /\ myContents' = Stored /\ eof
    BY DEF StreamFailed, ParserTypeOK
  <1>2. file' = file /\ lastNewline' = lastNewline
    BY DEF StreamFailed
  <1>3. Len(file) \in Nat /\ n \in Nat \ {0} /\ n < next /\ next = Len(file) + 1
    BY <1>0, <1>1, ReadingFacts DEF Stream
  <1>4. PICK h \in 0 .. Len(file) : h = next - 1
    BY <1>3
  <1>5. h = Len(file) /\ next - 1 = h /\ h \in 1 .. Len(file) /\ h \in Nat
    BY <1>3, <1>4
  <1>6. /\ file[n].kind = "key" /\ ~ lastNewline /\ NoStop(n, next - 1)
        /\ nextline # Empty /\ nextline = h /\ file[h].kind = "text"
        /\ ListsLastTwice(value, ValueUpTo(n, Len(file)))
    BY <1>0, <1>1, <1>5 DEF Reading
  <1>7. Len(file) \in ValueUpTo(n, Len(file)) \ {n}
    <2>1. h \in n + 1 .. h /\ h # n
      BY <1>3, <1>5, <1>6
    <2> QED BY <1>5, <1>6, <2>1 DEF ValueUpTo
  <1>8. Right(value, n)
    BY <1>6, <1>7 DEF Right
  <1>9. NoSentry(h)' /\ ReadUpTo(h)'
    BY <1>0, <1>1, <1>2, <1>4, <1>8, Complete
  <1>10. Kind(h)' = "text"
    BY <1>2, <1>5, <1>6, FileFacts, SameMeaning
  <1>11. Kind(nextline)' = Kind(h)'
    BY <1>1, <1>6 DEF Kind
  <1>12. Handled' = h
    BY <1>1, <1>5, <1>10, <1>11 DEF Handled
  <1>13. InLine'
    BY <1>1, <1>2, <1>5, <1>6, <1>9, <1>10, <1>11, <1>12 DEF InLine
  <1> QED BY <1>1, <1>13

-------------------------------------------------------------------------------
(* The invariant holds. *)

LEMMA ParserInitHolds == ASSUME Key # {}, MaxLines \in Nat, ParserInit PROVE ParserInv
  <1>1. PICK n \in 0 .. MaxLines : file \in [1 .. n -> Line]
    BY DEF ParserInit, File
  <1>2. Len(file) \in Nat /\ file \in Seq(Line)
    BY <1>1
  <1>3. key \in Key
    BY DEF ParserInit
  <1>4. /\ next = 1 /\ nextline = Empty /\ ~ eof /\ ~ fail
        /\ parsing = "line" /\ DOMAIN myContents = {}
    BY DEF ParserInit
  <1>5. value \in Seq(1 .. Len(file)) /\ myContents \in [DOMAIN myContents -> Seq(1 .. Len(file))]
    BY DEF ParserInit
  <1>6. ParserTypeOK
    <2>1. next \in 1 .. Len(file) + 1 /\ nextline \in 0 .. Len(file)
      BY <1>2, <1>4 DEF Empty
    <2>2. lastNewline \in BOOLEAN /\ eof \in BOOLEAN /\ fail \in BOOLEAN
      BY DEF ParserInit
    <2>3. DOMAIN myContents \subseteq Key /\ parsing \in {"line", "value", "done"} /\ ~ fail
      BY <1>4
    <2> QED BY <1>2, <1>3, <1>5, <2>1, <2>2, <2>3 DEF ParserTypeOK
  <1>7. Stream
    BY <1>2, <1>4 DEF Stream
  <1>8. NoSentry(0) /\ ReadUpTo(0)
    <2>1. KeysUpTo(0) = {} /\ 1 .. 0 = {}
      BY DEF KeysUpTo
    <2> QED BY <1>4, <2>1 DEF NoSentry, ReadUpTo
  <1>9. InLine
    BY <1>2, <1>4, <1>8 DEF InLine, Handled
  <1> QED BY <1>4, <1>6, <1>7, <1>9 DEF ParserInv

LEMMA ParserKept == ASSUME ParserInv, [ParserNext]_parserVars PROVE ParserInv'
  <1>1. ParserTypeOK /\ Stream
    BY DEF ParserInv
  <1>2. ParserTypeOK' /\ Stream'
    BY <1>1, TypeStep
  <1>3. ASSUME NEW l \in 0 .. Len(file), Ignored(l) \/ SentryFound(l) \/ KeyFound(l)
        PROVE  \/ parsing' = "line" /\ InLine'
               \/ parsing' = "value" /\ InValue'
               \/ parsing' = "done" /\ AtEnd'
    <2>1. InLine
      BY <1>3 DEF ParserInv, Ignored, SentryFound, KeyFound, TakeLine
    <2> QED BY <1>1, <1>3, <2>1, IgnoredKeeps, SentryFoundKeeps, KeyFoundKeeps
  <1>4. CASE EndOfFile
    <2>1. InLine
      BY <1>4 DEF ParserInv, EndOfFile
    <2>2. parsing' = "done" /\ AtEnd'
      BY <1>1, <1>4, <2>1, EndOfFileKeeps
    <2> QED BY <1>2, <2>2 DEF ParserInv
  <1>5. CASE Continued \/ Terminated \/ StreamFailed
    <2>1. InValue
      BY <1>5 DEF ParserInv, Continued, Terminated, StreamFailed
    <2>2. \/ parsing' = "value" /\ InValue'
          \/ parsing' = "line" /\ InLine'
      BY <1>1, <1>5, <2>1, ContinuedKeeps, TerminatedKeeps, StreamFailedKeeps
    <2> QED BY <1>2, <2>2 DEF ParserInv
  <1>6. CASE UNCHANGED parserVars
    <2>1. /\ file' = file /\ lastNewline' = lastNewline /\ next' = next
          /\ fail' = fail /\ parsing' = parsing
          /\ nextline' = nextline /\ key' = key /\ value' = value /\ myContents' = myContents
      BY <1>6 DEF parserVars
    <2>2. /\ \A n, h : ValueUpTo(n, h)' = ValueUpTo(n, h) /\ (NoStop(n, h)' <=> NoStop(n, h))
          /\ \A h : (NoSentry(h)' <=> NoSentry(h)) /\ (ReadUpTo(h)' <=> ReadUpTo(h))
          /\ \A n : Kind(n)' = Kind(n)
      BY <2>1, SameMeaning
    <2>3. InLine => InLine'
      BY <2>1, <2>2 DEF InLine, Handled, Kind
    <2>4. ASSUME NEW n \in 1 .. Len(file), Reading(n) PROVE Reading(n)'
      <3>1. PICK t \in Nat : t = next - 1
        BY <1>1, <2>4, ReadingFacts
      <3>2. ValueUpTo(n, t)' = ValueUpTo(n, t) /\ (NoStop(n, t)' <=> NoStop(n, t))
        BY <2>2
      <3>3. NoSentry(n - 1)' <=> NoSentry(n - 1)
        BY <2>2
      <3>4. ReadUpTo(n - 1)' <=> ReadUpTo(n - 1)
        BY <2>2
      <3>5. ValueUpTo(n, Len(file))' = ValueUpTo(n, Len(file))
        BY <2>1, <2>2
      <3> QED BY <2>1, <2>4, <3>1, <3>2, <3>3, <3>4, <3>5 DEF Reading, ListsLastTwice
    <2>5. InValue => InValue'
      BY <2>1, <2>4 DEF InValue
    <2>6. AtEnd => AtEnd'
      BY <2>1, <2>2 DEF AtEnd
    <2> QED BY <1>2, <2>1, <2>3, <2>5, <2>6 DEF ParserInv
  <1>7. CASE Parse
    <2>1. CASE \E l \in 0 .. Len(file) : Ignored(l) \/ SentryFound(l) \/ KeyFound(l)
      <3>1. \/ parsing' = "line" /\ InLine'
            \/ parsing' = "value" /\ InValue'
            \/ parsing' = "done" /\ AtEnd'
        BY <1>3, <2>1
      <3> QED BY <1>2, <3>1 DEF ParserInv
    <2> QED BY <1>4, <1>5, <1>7, <2>1 DEF Parse
  <1> QED BY <1>6, <1>7 DEF ParserNext

LEMMA ParserInvariance ==
    ASSUME Key # {}, MaxLines \in Nat PROVE ParserSpec => []ParserInv
  <1>1. ParserInit => ParserInv
    BY ParserInitHolds
  <1>2. ParserInv /\ [ParserNext]_parserVars => ParserInv'
    BY ParserKept
  <1> QED BY <1>1, <1>2, PTL DEF ParserSpec

(* The variables of the parser keep their types, with any number of keys   *)
(* and of lines: the lines of a value are lines of the file.               *)
THEOREM ParserTypeCorrect ==
    ASSUME Key # {}, MaxLines \in Nat PROVE ParserSpec => []ParserTypeOK
  <1>1. ParserInv => ParserTypeOK
    BY DEF ParserInv
  <1> QED BY <1>1, ParserInvariance, PTL

-------------------------------------------------------------------------------
(* What is read is what is meant. *)

LEMMA LastLineRead ==
    ASSUME ParserTypeOK, NEW h \in 0 .. Len(file), NoSentry(h),
           h = Len(file) \/ file[h + 1].kind = "sentry"
    PROVE  LastLine = h
  <1> DEFINE S == IsKind({"sentry"})
  <1>1. Len(file) \in Nat /\ h \in Nat
    BY FileFacts
  <1>2. \A m \in S : m \in 1 .. Len(file) /\ file[m].kind = "sentry"
    BY DEF IsKind
  <1>3. \A m \in S : m \in Nat /\ h + 1 <= m
    <2>1. \A m \in S : m \notin 1 .. h
      BY <1>2 DEF NoSentry
    <2> QED BY <1>1, <1>2, <2>1
  <1>4. CASE h = Len(file)
    <2>1. S = {}
      BY <1>1, <1>2, <1>3, <1>4
    <2> QED BY <1>1, <1>4, <2>1 DEF LastLine, FirstOr
  <1>5. CASE h # Len(file)
    <2>1. h + 1 \in S
      BY <1>1, <1>5 DEF IsKind
    <2>2. Min(S) \in S /\ Min(S) <= h + 1
      <3>1. \E m \in S : \A n \in S : m <= n
        BY <1>3, <2>1
      <3> QED BY <2>1, <3>1 DEF Min
    <2>3. Min(S) = h + 1
      BY <1>1, <1>3, <2>2
    <2>4. S # {}
      BY <2>1
    <2> QED BY <1>1, <2>3, <2>4 DEF LastLine, FirstOr
  <1> QED BY <1>4, <1>5

LEMMA LinesRead ==
    ASSUME ParserTypeOK, NEW n \in 1 .. Len(file)
    PROVE  LinesOfValue(n) = ValueUpTo(n, Len(file))
  <1> DEFINE S == {m \in IsKind({"key", "sentry", "blank"}) : m > n}
             end == FirstOr(S, Len(file) + 1)
             N == Len(file)
  <1>1. N \in Nat /\ n \in Nat /\ n <= N
    BY FileFacts
  <1>2. S = {m \in n + 1 .. N : file[m].kind \in Stops}
    BY <1>1 DEF IsKind, Stops
  <1>3. /\ end \in Nat /\ n < end /\ end <= N + 1
        /\ \A m \in S : end <= m
        /\ end <= N => end \in S
    <2>1. CASE S = {}
      BY <1>1, <2>1 DEF FirstOr
    <2>2. CASE S # {}
      <3>1. \E m \in S : \A k \in S : m <= k
        <4>1. S \in SUBSET Nat
          BY <1>1, <1>2
        <4> HIDE DEF S
        <4> QED BY <2>2, <4>1, LeastNumber
      <3>2. end = Min(S)
        BY <2>2 DEF FirstOr
      <3>3. Min(S) \in S /\ \A k \in S : Min(S) <= k
        BY <3>1 DEF Min
      <3>4. end \in S /\ \A k \in S : end <= k
        BY <3>2, <3>3
      <3>5. end \in n + 1 .. N
        BY <1>2, <3>4
      <3> HIDE DEF end, S
      <3> QED BY <1>1, <3>4, <3>5
    <2> QED BY <2>1, <2>2
  <1>4. LinesOfValue(n) = {m \in n .. end - 1 : m = n \/ file[m].kind = "text"}
    BY DEF LinesOfValue
  <1> HIDE DEF end, S
  <1>5. \A m \in n + 1 .. N : NoStop(n, m) <=> m < end
    <2> SUFFICES ASSUME NEW m \in n + 1 .. N PROVE NoStop(n, m) <=> m < end
      OBVIOUS
    <2>1. CASE m < end
      <3>1. \A j \in n + 1 .. m : j \in n + 1 .. N /\ j \notin S
        BY <1>1, <1>3, <2>1
      <3> QED BY <1>2, <2>1, <3>1 DEF NoStop
    <2>2. CASE ~ (m < end)
      <3>1. end \in n + 1 .. m /\ end \in S
        BY <1>1, <1>3, <2>2
      <3> QED BY <1>2, <2>2, <3>1 DEF NoStop
    <2> QED BY <2>1, <2>2
  <1>6. \A m : m \in n .. end - 1 <=> m = n \/ (m \in n + 1 .. N /\ m < end)
    BY <1>1, <1>3
  <1> QED BY <1>4, <1>5, <1>6 DEF ValueUpTo

LEMMA EndIsMeant == ASSUME ParserTypeOK, AtEnd PROVE ReadAsMeant
  <1>1. PICK h \in 0 .. Len(file) :
           NoSentry(h) /\ ReadUpTo(h) /\ (h = Len(file) \/ file[h + 1].kind = "sentry")
    BY DEF AtEnd
  <1>2. Len(file) \in Nat /\ h \in Nat /\ 1 .. h \subseteq 1 .. Len(file)
    BY FileFacts
  <1>3. LastLine = h
    BY <1>1, LastLineRead
  <1>4. Keys = KeysUpTo(h)
    <2>1. \A m : (m \in IsKind({"key"}) /\ m <= h) <=> (m \in 1 .. h /\ file[m].kind = "key")
      BY <1>2 DEF IsKind
    <2> QED BY <1>3, <2>1 DEF Keys, KeysUpTo
  <1>5. ASSUME NEW k \in Keys
        PROVE  IF lastNewline \/ Len(file) \notin Meant(k) \ KeyLines(k)
               THEN Lists(myContents[k], Meant(k))
               ELSE ListsLastTwice(myContents[k], Meant(k))
    <2> DEFINE K == KeyLines(k)
    <2>1. K = {m \in 1 .. h : file[m].kind = "key" /\ file[m].key = k}
      BY <1>2, <1>3 DEF KeyLines, IsKind
    <2>2. K # {}
      BY <1>4, <2>1 DEF KeysUpTo
    <2>3. K \in SUBSET Nat /\ IsFiniteSet(K)
      <3>1. K \subseteq 1 .. h
        BY <2>1
      <3>2. IsFiniteSet(1 .. h)
        BY <1>2, FS_Interval
      <3> HIDE DEF K
      <3>3. IsFiniteSet(K)
        BY <3>1, <3>2, FS_Subset
      <3>4. K \in SUBSET Nat
        BY <1>2, <3>1
      <3> QED BY <3>3, <3>4
    <2>4. Max(K) \in K /\ \A m \in K : Max(K) >= m
      <3>1. \E m \in K : \A n \in K : m >= n
        <4> HIDE DEF K
        <4> QED BY <2>2, <2>3, GreatestNumber
      <3> QED BY <3>1 DEF Max
    <2>5. PICK n : n = Max(K)
      OBVIOUS
    <2>6. n \in 1 .. h /\ file[n].kind = "key" /\ file[n].key = k /\ n \in K
      BY <2>1, <2>4, <2>5
    <2>7. LastUpTo(n, h)
      <3>1. \A m \in n + 1 .. h : m \in 1 .. h /\ ~ (n >= m)
        BY <1>2, <2>6
      <3> QED BY <2>1, <2>4, <2>5, <2>6, <3>1 DEF LastUpTo
    <2>8. Right(myContents[k], n)
      BY <1>1, <2>6, <2>7 DEF ReadUpTo
    <2>9. Meant(k) = ValueUpTo(n, Len(file))
      BY <1>2, <2>5, <2>6, LinesRead DEF Meant
    <2>10. ValueUpTo(n, Len(file)) \ K = ValueUpTo(n, Len(file)) \ {n}
      <3>1. \A m \in ValueUpTo(n, Len(file)) : m # n => file[m].kind = "text"
        BY DEF ValueUpTo
      <3> QED BY <2>1, <2>6, <3>1
    <2> QED BY <2>8, <2>9, <2>10 DEF Right
  <1>6. DOMAIN myContents = Keys
    BY <1>1, <1>4 DEF ReadUpTo
  <1> QED BY <1>5, <1>6 DEF ReadAsMeant

(* A file that is parsed is read as its author means it, with any number   *)
(* of keys and of lines, but for a last line without a newline that goes   *)
(* on a value: this is taken twice.                                        *)
THEOREM ReadRight ==
    ASSUME Key # {}, MaxLines \in Nat PROVE ParserSpec => []ReadAsMeant
  <1>1. ParserInv => ReadAsMeant
    <2>1. CASE parsing = "done"
      BY <2>1, EndIsMeant DEF ParserInv
    <2>2. CASE parsing # "done"
      BY <2>2 DEF ReadAsMeant
    <2> QED BY <2>1, <2>2
  <1> QED BY <1>1, ParserInvariance, PTL
===============================================================================

-------------------------------- MODULE GameRun --------------------------------
(***************************************************************************)
(* Game::Run and Game::Stop (Game/SGame.cpp).  With threads, Run starts    *)
(* one for the schedule engine (RunEngine) and one for the network and     *)
(* database engines (RunEngines), and joins them; without, it calls the    *)
(* frames itself and looks at mIsStillRunning under mStillRunningMutex.    *)
(* Stop clears mIsStillRunning under that mutex.  It is called from the    *)
(* handler of SIGINT, which runs on any thread and suspends it; while it   *)
(* runs the signal is masked for this thread, not for the others.          *)
(***************************************************************************)
EXTENDS Naturals, FiniteSets

CONSTANT MaxSignal      \* bound on the signals

ASSUME GameRunAssumption == MaxSignal \in Nat

(* "io" stands for the threads of the io_services, which may be chosen to  *)
(* handle a signal and otherwise do nothing here.                          *)
Engine == {"schedule", "network"}
Thread == {"main", "io"} \cup Engine

(* Owners of the mutex: a handler on some thread, or the lock l of Run.    *)
Nobody == "nobody"
Run == "Run"

VARIABLES threaded,     \* mNumThreads > 0, by the configuration
          pc,           \* where each thread is
          current,      \* each thread's currentStillRunning
          handler,      \* where the handler on each thread is
          mIsStillRunning,
          owner,        \* of mStillRunningMutex
          signals,      \* how many signals there have been
          threw         \* history: threads a frame of which threw

gameVars == <<threaded, pc, current, handler, mIsStillRunning, owner, signals, threw>>

GameInit ==
    /\ threaded \in BOOLEAN
    /\ pc = [t \in Thread |-> IF t = "main" THEN "run" ELSE
                              IF t = "io" THEN "idle" ELSE "new"]
    /\ current = [t \in Thread |-> FALSE]
    /\ handler = [t \in Thread |-> "none"]
    /\ mIsStillRunning = TRUE
    /\ owner = Nobody
    /\ signals = 0
    /\ threw = {}

(* A thread goes on, unless a handler has interrupted it. *)
Go(t, from, to) ==
    /\ handler[t] = "none"
    /\ pc[t] = from
    /\ pc' = [pc EXCEPT ![t] = to]

-------------------------------------------------------------------------------
(* Run with threads: create_thread, join_all. *)
CreateThreads ==
    /\ threaded
    /\ Go("main", "run", "join")
    /\ UNCHANGED <<threaded, current, handler, mIsStillRunning, owner, signals, threw>>

StartThread(e) ==
    /\ threaded /\ pc["main"] # "run"
    /\ Go(e, "new", "read")
    /\ UNCHANGED <<threaded, current, handler, mIsStillRunning, owner, signals, threw>>

(* Mutant: the first thread to end is enough. *)
SomeEnded == \E e \in Engine : pc[e] = "ended"

AllEnded == \A e \in Engine : pc[e] = "ended"

JoinAll ==
    /\ Go("main", "join", "returned")
    /\ AllEnded
    /\ UNCHANGED <<threaded, current, handler, mIsStillRunning, owner, signals, threw>>

(* Mutant: the flag is not looked at. *)
Unseen(t) == TRUE

Seen(t) == mIsStillRunning

(* RunEngine, RunEngines, and Run before its loop: mIsStillRunning is read *)
(* without its mutex.                                                      *)
ReadUnlocked(t) ==
    /\ \/ t \in Engine /\ Go(t, "read", "test")
       \/ t = "main" /\ ~ threaded /\ Go(t, "run", "lock first")
    /\ current' = [current EXCEPT ![t] = Seen(t)]
    /\ UNCHANGED <<threaded, handler, mIsStillRunning, owner, signals, threw>>

(* while (currentStillRunning).  Run without threads returns here. *)
Test(t) ==
    /\ \/ current[t] /\ Go(t, "test", "frame")
       \/ ~ current[t] /\ Go(t, "test", IF t = "main" THEN "returned" ELSE "ended")
    /\ UNCHANGED <<threaded, current, handler, mIsStillRunning, owner, signals, threw>>

AfterFrame(t) == IF t = "main" THEN "lock" ELSE "read"

Frame(t) ==
    /\ Go(t, "frame", AfterFrame(t))
    /\ UNCHANGED <<threaded, current, handler, mIsStillRunning, owner, signals, threw>>

(* An exception leaves the loop: this thread is done. *)
FrameThrows(t) ==
    /\ Go(t, "frame", IF t = "main" THEN "returned" ELSE "ended")
    /\ threw' = threw \cup {t}
    /\ UNCHANGED <<threaded, current, handler, mIsStillRunning, owner, signals>>

-------------------------------------------------------------------------------
(* Run without threads: the lock l. *)
Lock ==
    /\ Go("main", "lock", "read") \/ Go("main", "lock first", "unlock")
    /\ owner = Nobody
    /\ owner' = Run
    /\ UNCHANGED <<threaded, current, handler, mIsStillRunning, signals, threw>>

Read ==
    /\ Go("main", "read", "unlock")
    /\ current' = [current EXCEPT !["main"] = Seen("main")]
    /\ UNCHANGED <<threaded, handler, mIsStillRunning, owner, signals, threw>>

Unlock ==
    /\ Go("main", "unlock", "test")
    /\ owner' = Nobody
    /\ UNCHANGED <<threaded, current, handler, mIsStillRunning, signals, threw>>

-------------------------------------------------------------------------------
(* SIGINT, once its handler is installed. *)
Sigint(t) ==
    /\ signals < MaxSignal
    /\ pc["main"] # "returned"
    /\ pc[t] \notin {"new", "ended"}
    /\ handler[t] = "none"
    /\ handler' = [handler EXCEPT ![t] = "lock"]
    /\ signals' = signals + 1
    /\ UNCHANGED <<threaded, pc, current, mIsStillRunning, owner, threw>>

StopLocks(t) ==
    /\ handler[t] = "lock"
    /\ owner = Nobody
    /\ owner' = t
    /\ handler' = [handler EXCEPT ![t] = "stop"]
    /\ UNCHANGED <<threaded, pc, current, mIsStillRunning, signals, threw>>

StopSets(t) ==
    /\ handler[t] = "stop"
    /\ mIsStillRunning' = FALSE
    /\ handler' = [handler EXCEPT ![t] = "unlock"]
    /\ UNCHANGED <<threaded, pc, current, owner, signals, threw>>

(* Mutant: the lock is kept. *)
StillOwned(t) == t

Released(t) == Nobody

StopReturns(t) ==
    /\ handler[t] = "unlock"
    /\ owner' = Released(t)
    /\ handler' = [handler EXCEPT ![t] = "none"]
    /\ UNCHANGED <<threaded, pc, current, mIsStillRunning, signals, threw>>

-------------------------------------------------------------------------------
Stop(t) == StopLocks(t) \/ StopSets(t) \/ StopReturns(t)

Steps(t) ==
    \/ ReadUnlocked(t) \/ Test(t) \/ Frame(t) \/ FrameThrows(t)
    \/ t = "main" /\ (CreateThreads \/ JoinAll \/ Lock \/ Read \/ Unlock)
    \/ t \in Engine /\ StartThread(t)

GameNext == \E t \in Thread : Steps(t) \/ Stop(t) \/ Sigint(t)

(* Every thread keeps running, frames end, and a lock that stays free is   *)
(* taken.                                                                  *)
Fairness == \A t \in Thread : WF_gameVars(Steps(t)) /\ WF_gameVars(Stop(t))

GameSpec == GameInit /\ [][GameNext]_gameVars /\ Fairness

-------------------------------------------------------------------------------
GameTypeOK ==
    /\ threaded \in BOOLEAN
    /\ DOMAIN pc = Thread
    /\ pc["main"] \in {"run", "returned"} \cup
           (IF threaded THEN {"join"}
            ELSE {"lock first", "lock", "read", "unlock", "test", "frame"})
    /\ pc["io"] = "idle"
    /\ \A e \in Engine :
          pc[e] \in {"new"} \cup (IF threaded THEN {"read", "test", "frame", "ended"} ELSE {})
    /\ current \in [Thread -> BOOLEAN]
    /\ handler \in [Thread -> {"none", "lock", "stop", "unlock"}]
    /\ mIsStillRunning \in BOOLEAN
    /\ owner \in Thread \cup {Nobody, Run}
    /\ signals \in 0 .. MaxSignal
    /\ threw \subseteq Thread

(* mStillRunningMutex is owned by whoever is between its lock and unlock,  *)
(* and by nobody else.                                                     *)
MutexHeld ==
    /\ owner = Run <=> pc["main"] \in {"read", "unlock"}
    /\ \A t \in Thread : owner = t <=> handler[t] \in {"stop", "unlock"}

(* Run returns because it was told to stop or because frames threw: with   *)
(* threads an exception of one engine does not end it, the other goes on.  *)
ReturnHasCause ==
    pc["main"] = "returned" =>
        \/ ~ mIsStillRunning
        \/ IF threaded THEN Engine \subseteq threw ELSE "main" \in threw

(* A handler on the thread that holds l waits for a lock that this thread  *)
(* would have to release.                                                  *)
WaitsForItself == owner = Run /\ handler["main"] = "lock"

(* Once mIsStillRunning is cleared Run returns, unless another signal      *)
(* catches it with the lock in hand.  This rests on frames coming to an    *)
(* end: a send that waits for ever for a client that does not read         *)
(* (TcpSocket) keeps its thread from looking at the flag again.            *)
StopEndsRun == ~ mIsStillRunning ~> (pc["main"] = "returned" \/ WaitsForItself)
================================================================================

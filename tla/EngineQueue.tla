------------------------------ MODULE EngineQueue ------------------------------
(***************************************************************************)
(* The event queue every Engine owns (Engine/SEngine.cpp): PushEvent, run  *)
(* by any thread, and ProcessQueue, run by the one thread Game::Run gives  *)
(* the engine.  One action per statement that touches shared state, so     *)
(* that the unlocked test "while (!mEventsQueue.empty())", the lock, the   *)
(* copy of front(), pop(), the unlock and the handler interleave with the  *)
(* pushes of other threads.  A handler may itself push to the engine that  *)
(* runs it, and may throw.                                                 *)
(***************************************************************************)
EXTENDS Naturals, Sequences

CONSTANTS Pusher,       \* threads that only push (network, other engines)
          Worker,       \* the thread that runs this engine's Frame
          NoThread,     \* owner of a mutex nobody holds
          MaxPush       \* bound on the pushes of each thread

ASSUME ThreadAssumption ==
    /\ Worker \notin Pusher
    /\ NoThread \notin Pusher \cup {Worker}
    /\ MaxPush \in Nat

Thread == Pusher \cup {Worker}

(* The n-th event a thread pushes (0: a default-constructed EngineEvent).  *)
(* All that matters of an event is which push it comes from.               *)
Event == Thread \X (0 .. MaxPush)

VARIABLES mEventsQueue, \* the std::queue
          mQueueMutex,  \* the thread holding the boost::mutex, or NoThread
          push,         \* where each thread is in PushEvent
          loop,         \* where Worker is in ProcessQueue
          ent,          \* ProcessQueue's local copy of the front event
          pushes,       \* how many pushes each thread has begun
          accepted,     \* history: events in the order they entered the queue
          handled       \* history: events whose handler returned, in order

vars == <<mEventsQueue, mQueueMutex, push, loop, ent, pushes, accepted, handled>>

Init ==
    /\ mEventsQueue = <<>>
    /\ mQueueMutex = NoThread
    /\ push = [t \in Thread |-> "out"]
    /\ loop = "test"
    /\ ent = <<Worker, 0>>
    /\ pushes = [t \in Thread |-> 0]
    /\ accepted = <<>>
    /\ handled = <<>>

-------------------------------------------------------------------------------
(* PushEvent(const EngineEvent&).                                          *)

(* Worker pushes to its own engine only from inside a handler. *)
PushCall(t) ==
    /\ push[t] = "out"
    /\ t = Worker => loop = "handle"
    /\ pushes[t] < MaxPush
    /\ push' = [push EXCEPT ![t] = "lock"]
    /\ pushes' = [pushes EXCEPT ![t] = @ + 1]
    /\ UNCHANGED <<mEventsQueue, mQueueMutex, loop, ent, accepted, handled>>

(* Mutant: the lock is not waited for. *)
PushLockWithoutWaiting(t) ==
    /\ push[t] = "lock"
    /\ mQueueMutex' = t
    /\ push' = [push EXCEPT ![t] = "store"]
    /\ UNCHANGED <<mEventsQueue, loop, ent, pushes, accepted, handled>>

PushLock(t) ==
    /\ push[t] = "lock"
    /\ mQueueMutex = NoThread
    /\ mQueueMutex' = t
    /\ push' = [push EXCEPT ![t] = "store"]
    /\ UNCHANGED <<mEventsQueue, loop, ent, pushes, accepted, handled>>

PushStore(t) ==
    /\ push[t] = "store"
    /\ mEventsQueue' = Append(mEventsQueue, <<t, pushes[t]>>)
    /\ accepted' = Append(accepted, <<t, pushes[t]>>)
    /\ push' = [push EXCEPT ![t] = "unlock"]
    /\ UNCHANGED <<mQueueMutex, loop, ent, pushes, handled>>

(* The scoped_lock goes out of scope. *)
PushUnlock(t) ==
    /\ push[t] = "unlock"
    /\ mQueueMutex' = NoThread
    /\ push' = [push EXCEPT ![t] = "out"]
    /\ UNCHANGED <<mEventsQueue, loop, ent, pushes, accepted, handled>>

-------------------------------------------------------------------------------
(* ProcessQueue(), called again and again by the frame loop: finding the   *)
(* queue empty, it returns and is called at the next frame, which changes  *)
(* nothing here.                                                           *)

TestNotEmpty ==
    /\ loop = "test"
    /\ mEventsQueue # <<>>
    /\ loop' = "lock"
    /\ UNCHANGED <<mEventsQueue, mQueueMutex, push, ent, pushes, accepted, handled>>

TakeLock ==
    /\ loop = "lock"
    /\ mQueueMutex = NoThread
    /\ mQueueMutex' = Worker
    /\ loop' = "front"
    /\ UNCHANGED <<mEventsQueue, push, ent, pushes, accepted, handled>>

CopyFront ==
    /\ loop = "front"
    /\ ent' = Head(mEventsQueue)
    /\ loop' = "pop"
    /\ UNCHANGED <<mEventsQueue, mQueueMutex, push, pushes, accepted, handled>>

(* Mutant: the whole queue is emptied for the one event taken. *)
PopAll ==
    /\ loop = "pop"
    /\ mEventsQueue' = <<>>
    /\ loop' = "unlock"
    /\ UNCHANGED <<mQueueMutex, push, ent, pushes, accepted, handled>>

Pop ==
    /\ loop = "pop"
    /\ mEventsQueue' = Tail(mEventsQueue)
    /\ loop' = "unlock"
    /\ UNCHANGED <<mQueueMutex, push, ent, pushes, accepted, handled>>

(* Mutant: the handler runs with the mutex still held. *)
TakeKeepLock ==
    /\ loop = "unlock"
    /\ loop' = "handle"
    /\ UNCHANGED <<mEventsQueue, mQueueMutex, push, ent, pushes, accepted, handled>>

TakeUnlock ==
    /\ loop = "unlock"
    /\ mQueueMutex' = NoThread
    /\ loop' = "handle"
    /\ UNCHANGED <<mEventsQueue, push, ent, pushes, accepted, handled>>

(* ProcessEvent(ent) returns. *)
HandlerReturns ==
    /\ loop = "handle"
    /\ push[Worker] = "out"
    /\ handled' = Append(handled, ent)
    /\ loop' = "test"
    /\ UNCHANGED <<mEventsQueue, mQueueMutex, push, ent, pushes, accepted>>

(* Mutant: the exception is swallowed inside the loop. *)
HandlerThrowIgnored ==
    /\ loop = "handle"
    /\ push[Worker] = "out"
    /\ loop' = "test"
    /\ UNCHANGED <<mEventsQueue, mQueueMutex, push, ent, pushes, accepted, handled>>

(* ProcessEvent(ent) throws: nothing catches it before Game::RunEngine(s), *)
(* whose catch clauses are outside the frame loop.                         *)
HandlerThrows ==
    /\ loop = "handle"
    /\ push[Worker] = "out"
    /\ loop' = "dead"
    /\ UNCHANGED <<mEventsQueue, mQueueMutex, push, ent, pushes, accepted, handled>>

-------------------------------------------------------------------------------
PushEvent(t) == PushCall(t) \/ PushLock(t) \/ PushStore(t) \/ PushUnlock(t)

ProcessQueue ==
    \/ TestNotEmpty \/ TakeLock \/ CopyFront \/ Pop \/ TakeUnlock
    \/ HandlerReturns \/ HandlerThrows

Next == (\E t \in Thread : PushEvent(t)) \/ ProcessQueue

(* A thread inside PushEvent keeps running and the frame loop keeps        *)
(* calling ProcessQueue.  Nobody is obliged to push.                       *)
Fairness ==
    /\ \A t \in Thread : WF_vars(PushLock(t) \/ PushStore(t) \/ PushUnlock(t))
    /\ WF_vars(ProcessQueue)

Spec == Init /\ [][Next]_vars /\ Fairness

-------------------------------------------------------------------------------
TypeOK ==
    /\ mEventsQueue \in Seq(Event)
    /\ mQueueMutex \in Thread \cup {NoThread}
    /\ push \in [Thread -> {"out", "lock", "store", "unlock"}]
    /\ loop \in {"test", "lock", "front", "pop", "unlock", "handle", "dead"}
    /\ ent \in Event
    /\ pushes \in [Thread -> 0 .. MaxPush]
    /\ accepted \in Seq(Event)
    /\ handled \in Seq(Event)

(* The sections that touch the queue.                                      *)
InPush(t) == push[t] \in {"store", "unlock"}
InTake == loop \in {"front", "pop", "unlock"}

SectionsLocked ==
    /\ \A t \in Thread : InPush(t) => mQueueMutex = t
    /\ InTake => mQueueMutex = Worker
    /\ ~ (InTake /\ InPush(Worker))

NeverFrontOfEmpty == loop \in {"lock", "front", "pop"} => mEventsQueue # <<>>

(* The mutex does its job although the loop test is outside it and the     *)
(* handler runs outside it: whoever is at a statement that touches the     *)
(* queue holds the mutex, so no two threads are there at once; and front() *)
(* and pop() are never called on an empty queue (undefined behaviour for a *)
(* std::queue), the emptiness test being before the lock but this thread   *)
(* the only one that pops.                                                 *)
QueueProtected == SectionsLocked /\ NeverFrontOfEmpty

(* The event the loop has removed from the queue and not finished with. *)
InFlight == IF loop \in {"unlock", "handle"} THEN <<ent>> ELSE <<>>

(* The events that entered the queue are, in order: those handled, the one *)
(* a throwing handler consumed, the one in flight, those still queued.     *)
(* None is lost, repeated or overtaken.                                    *)
NothingLostOrReordered ==
    accepted = handled \o (IF loop = "dead" THEN <<ent>> ELSE InFlight) \o mEventsQueue

(* Every engine queue is a mailbox: what its user may rely on.             *)
M == INSTANCE Mailbox WITH
        inbox <- InFlight \o mEventsQueue,
        alive <- loop # "dead"

ImplementsMailbox == M!Spec

(* A thread that calls PushEvent gets out of it, even when it is the       *)
(* worker pushing to the engine it is running, and even after a handler    *)
(* has thrown: the lock is never held while a handler runs.                *)
PushReturns == \A t \in Thread : push[t] = "lock" ~> push[t] = "out"
================================================================================

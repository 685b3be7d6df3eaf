--------------------------- MODULE EngineQueueProofs ---------------------------
(***************************************************************************)
(* What holds of an engine's queue for any number of pushing threads and   *)
(* any number of pushes: its invariants, and that it implements (without   *)
(* fairness) the mailbox of module Mailbox.                                *)
(***************************************************************************)
EXTENDS EngineQueue, DataLemmas

(* The local copy is the front of the queue between front() and pop().     *)
CopyIsFront == loop = "pop" => ent = Head(mEventsQueue)

(* NothingLostOrReordered is not inductive by itself: that a pop puts in   *)
(* flight what it takes away needs CopyIsFront, which needs                *)
(* NeverFrontOfEmpty, the test before the lock still holding after it.     *)
IInv == TypeOK /\ SectionsLocked /\ NeverFrontOfEmpty /\ CopyIsFront
               /\ NothingLostOrReordered

-------------------------------------------------------------------------------
(* Type correctness.                                                       *)

LEMMA InitTypeOK == Init => TypeOK
BY ThreadAssumption, EmptySeq DEF Init, TypeOK, Event, Thread

LEMMA NextTypeOK == TypeOK /\ NeverFrontOfEmpty /\ [Next]_vars => TypeOK'
<1>. SUFFICES ASSUME TypeOK, NeverFrontOfEmpty, [Next]_vars
              PROVE  TypeOK'
  OBVIOUS
<1>. USE DEF TypeOK
<1>1. ASSUME NEW t \in Thread, PushCall(t)  PROVE TypeOK'
  BY <1>1, ThreadAssumption DEF PushCall
<1>2. ASSUME NEW t \in Thread, PushLock(t)  PROVE TypeOK'
  BY <1>2 DEF PushLock
<1>3. ASSUME NEW t \in Thread, PushStore(t)  PROVE TypeOK'
  <2>1. <<t, pushes[t]>> \in Event
    BY DEF Event
  <2>2. mEventsQueue' \in Seq(Event) /\ accepted' \in Seq(Event)
    BY <1>3, <2>1, AppendProperties DEF PushStore
  <2>. QED  BY <1>3, <2>2 DEF PushStore
<1>4. ASSUME NEW t \in Thread, PushUnlock(t)  PROVE TypeOK'
  BY <1>4 DEF PushUnlock
<1>5. CASE TestNotEmpty
  BY <1>5 DEF TestNotEmpty
<1>6. CASE TakeLock
  BY <1>6 DEF TakeLock, Thread
<1>7. CASE CopyFront
  <2>1. Head(mEventsQueue) \in Event
    BY <1>7, HeadTailProperties DEF CopyFront, NeverFrontOfEmpty
  <2>. QED  BY <1>7, <2>1 DEF CopyFront
<1>8. CASE Pop
  <2>1. Tail(mEventsQueue) \in Seq(Event)
    BY <1>8, HeadTailProperties DEF Pop, NeverFrontOfEmpty
  <2>. QED  BY <1>8, <2>1 DEF Pop
<1>9. CASE TakeUnlock
  BY <1>9 DEF TakeUnlock
<1>10. CASE HandlerReturns
  <2>1. handled' \in Seq(Event)
    BY <1>10, AppendProperties DEF HandlerReturns
  <2>. QED  BY <1>10, <2>1 DEF HandlerReturns
<1>11. CASE HandlerThrows
  BY <1>11 DEF HandlerThrows
<1>12. CASE UNCHANGED vars
  BY <1>12 DEF vars
<1>. QED
  BY <1>1, <1>2, <1>3, <1>4, <1>5, <1>6, <1>7, <1>8, <1>9, <1>10, <1>11, <1>12
     DEF Next, PushEvent, ProcessQueue

-------------------------------------------------------------------------------
(* The mutex and the emptiness test.                                       *)

LEMMA NextSectionsLocked ==
  TypeOK /\ SectionsLocked /\ [Next]_vars => SectionsLocked'
<1>. SUFFICES ASSUME TypeOK, SectionsLocked, [Next]_vars
              PROVE  SectionsLocked'
  OBVIOUS
<1>. USE ThreadAssumption DEF TypeOK, SectionsLocked, InPush, InTake, Thread
<1>1. ASSUME NEW t \in Thread, PushCall(t)  PROVE SectionsLocked'
  BY <1>1 DEF PushCall
<1>2. ASSUME NEW t \in Thread, PushLock(t)  PROVE SectionsLocked'
  BY <1>2 DEF PushLock
<1>3. ASSUME NEW t \in Thread, PushStore(t)  PROVE SectionsLocked'
  BY <1>3 DEF PushStore
<1>4. ASSUME NEW t \in Thread, PushUnlock(t)  PROVE SectionsLocked'
  BY <1>4 DEF PushUnlock
<1>5. CASE TestNotEmpty
  BY <1>5 DEF TestNotEmpty
<1>6. CASE TakeLock
  BY <1>6 DEF TakeLock
<1>7. CASE CopyFront
  BY <1>7 DEF CopyFront
<1>8. CASE Pop
  BY <1>8 DEF Pop
<1>9. CASE TakeUnlock
  BY <1>9 DEF TakeUnlock
<1>10. CASE HandlerReturns
  BY <1>10 DEF HandlerReturns
<1>11. CASE HandlerThrows
  BY <1>11 DEF HandlerThrows
<1>12. CASE UNCHANGED vars
  BY <1>12 DEF vars
<1>. QED
  BY <1>1, <1>2, <1>3, <1>4, <1>5, <1>6, <1>7, <1>8, <1>9, <1>10, <1>11, <1>12
     DEF Next, PushEvent, ProcessQueue

LEMMA NextFront ==
  TypeOK /\ NeverFrontOfEmpty /\ CopyIsFront /\ [Next]_vars
    => (NeverFrontOfEmpty /\ CopyIsFront)'
<1>. SUFFICES ASSUME TypeOK, NeverFrontOfEmpty, CopyIsFront, [Next]_vars
              PROVE  (NeverFrontOfEmpty /\ CopyIsFront)'
  OBVIOUS
<1>. USE DEF NeverFrontOfEmpty, CopyIsFront
<1>1. ASSUME NEW t \in Thread, PushStore(t)
      PROVE  (NeverFrontOfEmpty /\ CopyIsFront)'
  <2>1. <<t, pushes[t]>> \in Event
    BY DEF Event, TypeOK
  <2>2. mEventsQueue' # <<>>
    BY <1>1, <2>1, AppendProperties DEF PushStore, TypeOK
  <2>3. mEventsQueue # <<>> => Head(mEventsQueue') = Head(mEventsQueue)
    BY <1>1, <2>1, HeadTailAppend DEF PushStore, TypeOK
  <2>. QED  BY <1>1, <2>2, <2>3 DEF PushStore
<1>2. ASSUME NEW t \in Thread, PushCall(t) \/ PushLock(t) \/ PushUnlock(t)
      PROVE  (NeverFrontOfEmpty /\ CopyIsFront)'
  BY <1>2 DEF PushCall, PushLock, PushUnlock
<1>3. CASE ProcessQueue
  BY <1>3 DEF ProcessQueue, TestNotEmpty, TakeLock, CopyFront, Pop, TakeUnlock,
              HandlerReturns, HandlerThrows
<1>4. CASE UNCHANGED vars
  BY <1>4 DEF vars
<1>. QED  BY <1>1, <1>2, <1>3, <1>4 DEF Next, PushEvent

-------------------------------------------------------------------------------
(* The history.                                                            *)

(* What is neither handled nor queued: the event in flight, or the one a   *)
(* throwing handler took with it.                                          *)
Middle == IF loop = "dead" THEN <<ent>> ELSE InFlight

LEMMA MiddleType == TypeOK => Middle \in Seq(Event) /\ InFlight \in Seq(Event)
BY DEF Middle, InFlight, TypeOK

LEMMA NextNothingLost ==
  IInv /\ TypeOK' /\ [Next]_vars => NothingLostOrReordered'
<1>. SUFFICES ASSUME IInv, TypeOK', [Next]_vars
              PROVE  NothingLostOrReordered'
  OBVIOUS
<1>0. /\ mEventsQueue \in Seq(Event) /\ handled \in Seq(Event)
      /\ accepted \in Seq(Event) /\ ent \in Event
      /\ Middle \in Seq(Event)
      /\ accepted = handled \o Middle \o mEventsQueue
  BY MiddleType DEF IInv, TypeOK, NothingLostOrReordered, Middle
<1>. SUFFICES accepted' = handled' \o Middle' \o mEventsQueue'
  BY DEF NothingLostOrReordered, Middle
<1>1. ASSUME NEW t \in Thread, PushStore(t)
      PROVE  accepted' = handled' \o Middle' \o mEventsQueue'
  <2>. DEFINE e == <<t, pushes[t]>>
  <2>1. e \in Event
    BY DEF Event, IInv, TypeOK
  <2>2. Middle' = Middle /\ handled' = handled
    BY <1>1 DEF PushStore, Middle, InFlight
  <2>3. accepted' = Append(accepted, e) /\ mEventsQueue' = Append(mEventsQueue, e)
    BY <1>1 DEF PushStore
  <2>4. handled \o Middle \in Seq(Event)
    BY <1>0, ConcatProperties
  <2>5. (handled \o Middle) \o Append(mEventsQueue, e)
           = Append((handled \o Middle) \o mEventsQueue, e)
    BY <1>0, <2>1, <2>4, ConcatAppend
  <2>. HIDE DEF e
  <2>. QED  BY <1>0, <2>2, <2>3, <2>5
<1>2. ASSUME NEW t \in Thread, PushCall(t) \/ PushLock(t) \/ PushUnlock(t)
      PROVE  accepted' = handled' \o Middle' \o mEventsQueue'
  <2>1. UNCHANGED <<accepted, handled, ent, loop, mEventsQueue>>
    BY <1>2 DEF PushCall, PushLock, PushUnlock
  <2>. QED  BY <1>0, <2>1 DEF Middle, InFlight
<1>3. CASE TestNotEmpty \/ TakeLock \/ CopyFront
  <2>1. /\ UNCHANGED <<accepted, handled, mEventsQueue>>
        /\ Middle = <<>> /\ Middle' = <<>>
    BY <1>3 DEF TestNotEmpty, TakeLock, CopyFront, Middle, InFlight
  <2>. QED  BY <1>0, <2>1
<1>4. CASE Pop
  <2>1. /\ UNCHANGED <<accepted, handled>>
        /\ Middle = <<>> /\ Middle' = <<ent>>
        /\ mEventsQueue' = Tail(mEventsQueue)
        /\ mEventsQueue # <<>> /\ ent = Head(mEventsQueue)
    BY <1>4 DEF Pop, Middle, InFlight, IInv, NeverFrontOfEmpty, CopyIsFront
  <2>2. <<ent>> \o Tail(mEventsQueue) = mEventsQueue
    BY <1>0, <2>1, HeadBeforeTail
  <2>3. Tail(mEventsQueue) \in Seq(Event) /\ <<ent>> \in Seq(Event)
    BY <1>0, <2>1, HeadTailProperties
  <2>4. handled \o <<>> = handled
    BY <1>0, ConcatEmptySeq
  <2>5. (handled \o <<ent>>) \o Tail(mEventsQueue)
          = handled \o (<<ent>> \o Tail(mEventsQueue))
    BY <1>0, <2>3, ConcatAssociative
  <2>. QED  BY <1>0, <2>1, <2>2, <2>4, <2>5
<1>5. CASE TakeUnlock
  <2>1. UNCHANGED <<accepted, handled, mEventsQueue>> /\ Middle' = Middle
    BY <1>5 DEF TakeUnlock, Middle, InFlight
  <2>. QED  BY <1>0, <2>1
<1>6. CASE HandlerReturns
  <2>1. /\ UNCHANGED <<accepted, mEventsQueue>>
        /\ handled' = Append(handled, ent)
        /\ Middle = <<ent>> /\ Middle' = <<>>
    BY <1>6 DEF HandlerReturns, Middle, InFlight
  <2>2. Append(handled, ent) = handled \o <<ent>>
    BY <1>0, AppendIsConcat
  <2>3. Append(handled, ent) \o <<>> = Append(handled, ent)
    BY <1>0, AppendProperties, ConcatEmptySeq
  <2>. QED  BY <1>0, <2>1, <2>2, <2>3
<1>7. CASE HandlerThrows
  <2>1. UNCHANGED <<accepted, handled, mEventsQueue>> /\ Middle' = Middle
    BY <1>7 DEF HandlerThrows, Middle, InFlight
  <2>. QED  BY <1>0, <2>1
<1>8. CASE UNCHANGED vars
  BY <1>0, <1>8 DEF vars, Middle, InFlight
<1>. QED
  BY <1>1, <1>2, <1>3, <1>4, <1>5, <1>6, <1>7, <1>8 DEF Next, PushEvent, ProcessQueue

-------------------------------------------------------------------------------
LEMMA InitIInv == Init => IInv
<1>. SUFFICES ASSUME Init  PROVE IInv
  OBVIOUS
<1>1. TypeOK
  BY InitTypeOK
<1>2. SectionsLocked /\ NeverFrontOfEmpty /\ CopyIsFront
  BY DEF Init, SectionsLocked, NeverFrontOfEmpty, CopyIsFront, InPush, InTake
<1>3. NothingLostOrReordered
  <2>1. <<>> \o <<>> = <<>>
    BY EmptySeq, ConcatEmptySeq
  <2>. QED  BY <2>1 DEF Init, NothingLostOrReordered, InFlight
<1>. QED  BY <1>1, <1>2, <1>3 DEF IInv

LEMMA NextIInv == IInv /\ [Next]_vars => IInv'
BY NextTypeOK, NextSectionsLocked, NextFront, NextNothingLost DEF IInv

(* In every state of every behaviour the inductive invariant holds.        *)
LEMMA Invariance == Spec => []IInv
BY InitIInv, NextIInv, PTL DEF Spec

(* Every variable keeps its type.                                          *)
THEOREM TypeCorrect == Spec => []TypeOK
<1>1. IInv => TypeOK
  BY DEF IInv
<1>. QED  BY <1>1, Invariance, PTL

(* Whoever touches the queue holds its mutex, and front() and pop() are    *)
(* never called on an empty queue, whatever the number of pushing threads. *)
THEOREM QueueSafe == Spec => []QueueProtected
<1>1. IInv => QueueProtected
  BY DEF IInv, QueueProtected
<1>. QED  BY <1>1, Invariance, PTL

(* Events are handled in the order they entered the queue, each once.      *)
THEOREM HistoryCorrect == Spec => []NothingLostOrReordered
<1>1. IInv => NothingLostOrReordered
  BY DEF IInv
<1>. QED  BY <1>1, Invariance, PTL

-------------------------------------------------------------------------------
(* The queue implements the mailbox: the initial states map to its initial *)
(* states and every step to one of its steps or to a stutter.              *)
THEOREM Refinement == Spec => M!Safety
<1>1. Init => M!Init
  BY EmptySeq, ConcatEmptySeq DEF Init, M!Init, InFlight
<1>2. IInv /\ [Next]_vars => [M!Next]_(M!vars)
  <2>. SUFFICES ASSUME IInv, [Next]_vars
                PROVE  [M!Next]_(M!vars)
    OBVIOUS
  <2>0. /\ mEventsQueue \in Seq(Event) /\ ent \in Event /\ InFlight \in Seq(Event)
    BY MiddleType DEF IInv, TypeOK
  <2>1. ASSUME NEW t \in Thread, PushStore(t)  PROVE M!Next
    <3>. DEFINE e == <<t, pushes[t]>>
    <3>1. e \in Event
      BY DEF Event, IInv, TypeOK
    <3>2. /\ InFlight' = InFlight /\ handled' = handled /\ loop' = loop
          /\ mEventsQueue' = Append(mEventsQueue, e)
      BY <2>1 DEF PushStore, InFlight
    <3>3. (InFlight \o mEventsQueue)' = Append(InFlight \o mEventsQueue, e)
      BY <2>0, <3>1, <3>2, ConcatAppend
    <3>4. M!Put(e)
      BY <3>2, <3>3 DEF M!Put
    <3>. QED  BY <3>1, <3>4 DEF M!Next
  <2>2. ASSUME NEW t \in Thread, PushCall(t) \/ PushLock(t) \/ PushUnlock(t)
        PROVE  UNCHANGED M!vars
    BY <2>2 DEF PushCall, PushLock, PushUnlock, M!vars, InFlight
  <2>3. CASE TestNotEmpty \/ TakeLock \/ CopyFront \/ TakeUnlock
    BY <2>3 DEF TestNotEmpty, TakeLock, CopyFront, TakeUnlock, M!vars, InFlight
  <2>4. CASE Pop
    <3>1. /\ InFlight = <<>> /\ InFlight' = <<ent>>
          /\ mEventsQueue' = Tail(mEventsQueue)
          /\ mEventsQueue # <<>> /\ ent = Head(mEventsQueue)
          /\ UNCHANGED <<handled, loop = "dead">>
      BY <2>4 DEF Pop, InFlight, IInv, NeverFrontOfEmpty, CopyIsFront
    <3>2. <<ent>> \o Tail(mEventsQueue) = mEventsQueue
      BY <2>0, <3>1, HeadBeforeTail
    <3>3. <<>> \o mEventsQueue = mEventsQueue
      BY <2>0, ConcatEmptySeq
    <3>4. (loop # "dead")' = (loop # "dead")
      BY <2>4 DEF Pop
    <3>. QED  BY <3>1, <3>2, <3>3, <3>4 DEF M!vars
  <2>5. CASE HandlerReturns
    <3>1. /\ InFlight = <<ent>> /\ InFlight' = <<>>
          /\ mEventsQueue' = mEventsQueue /\ handled' = Append(handled, ent)
          /\ loop # "dead" /\ loop' # "dead"
      BY <2>5 DEF HandlerReturns, InFlight
    <3>2. <<>> \o mEventsQueue = mEventsQueue
      BY <2>0, ConcatEmptySeq
    <3>3. M!Handle
      BY <2>0, <3>1, <3>2, HeadTailOfCons DEF M!Handle
    <3>. QED  BY <3>3 DEF M!Next
  <2>6. CASE HandlerThrows
    <3>1. /\ InFlight = <<ent>> /\ InFlight' = <<>>
          /\ mEventsQueue' = mEventsQueue /\ handled' = handled
          /\ loop # "dead" /\ loop' = "dead"
      BY <2>6 DEF HandlerThrows, InFlight
    <3>2. <<>> \o mEventsQueue = mEventsQueue
      BY <2>0, ConcatEmptySeq
    <3>3. M!Throw
      BY <2>0, <3>1, <3>2, HeadTailOfCons DEF M!Throw
    <3>. QED  BY <3>3 DEF M!Next
  <2>7. CASE UNCHANGED vars
    BY <2>7 DEF vars, M!vars, InFlight
  <2>. QED
    BY <2>1, <2>2, <2>3, <2>4, <2>5, <2>6, <2>7 DEF Next, PushEvent, ProcessQueue
<1>. QED  BY <1>1, <1>2, Invariance, PTL DEF Spec, M!Safety
================================================================================

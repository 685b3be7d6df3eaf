----------------------------- MODULE MachinesProofs -----------------------------
(***************************************************************************)
(* What holds of the registered machines for any number of clients and of  *)
(* requests.  The argument: a number is given to one connection and never  *)
(* again, so that an event stamped with it can be traced to that           *)
(* connection wherever it is, and a machine registered under it is that    *)
(* connection's.  The invariant therefore says, of every queue, that its   *)
(* elements are of a set defined from numbers; since numbers only gains    *)
(* fresh ones, these sets only grow.                                       *)
(***************************************************************************)
EXTENDS Machines, DataLemmas, Functions, FiniteSetTheorems

(* What may be on c's wire or in its buffer, in the received and database  *)
(* queues, in the network queue and among what c was sent; and the         *)
(* machines that may be registered.                                        *)
OnWire(c) == {e \in Request : e.from = c /\ ~ e.marked}
Traceable == {e \in Request : /\ e.marked => e.stamp \in numbers[e.from]
                              /\ Eager \/ e.marked}
Addressed == {e \in Request : /\ e.marked => e.stamp \in numbers[e.from]
                              /\ e.kind # "CHAT_EVENT"}
MayHear(c) == {e \in Request : e.kind = "CHAT_EVENT" \/ ~ e.marked \/ e.from = c}
AccountEvent == [kind : {"WELCOME", "REMOVE_MACHINE"}, conn : Conn]
Proper == {m \in Machine : m.id \in numbers[m.conn]}

(* Numbers are handed out once; a socket stamps with the last of its own.  *)
NumbersDistinct ==
    /\ \A c \in Conn : \A k \in numbers[c] : 0 < k /\ k <= parent[c]
    /\ \A c \in Conn : parent[c] < mNextMachineID
    /\ \A c \in Conn : parent[c] # 0 => parent[c] \in numbers[c]
    /\ \A c, d \in Conn : c # d => numbers[c] \cap numbers[d] = {}

RegistryProper ==
    /\ mMachines \in Seq(Proper)
    /\ \A i, j \in 1 .. Len(mMachines) : i < j => mMachines[i].id < mMachines[j].id

EventsTraceable ==
    /\ \A c \in Conn : wire[c] \in Seq(OnWire(c))
    /\ \A c \in Conn : mBuffer[c] \in Seq(OnWire(c))
    /\ \A c \in Conn : wire[c] # <<>> \/ mBuffer[c] # <<>> => Eager \/ parent[c] # 0
    /\ received \in Seq(Traceable)
    /\ dbQueue \in Seq(Traceable \cup AccountEvent)
    /\ netQueue \in Seq(Addressed)
    /\ chat \in Seq({e \in Request : e.kind = "CHAT_EVENT"})

Deliveries == \A c \in Conn : delivered[c] \in Seq(MayHear(c))

Asserted == stage = "aborted" => Eager

IInv == TypeOK /\ NumbersDistinct /\ RegistryProper /\ EventsTraceable
               /\ Deliveries /\ Asserted

-------------------------------------------------------------------------------
(* Steps that several actions share.                                       *)

(* Nothing that the sets above depend on changes. *)
LEMMA SetsUnchanged ==
  ASSUME UNCHANGED bindVars
  PROVE  Traceable' = Traceable /\ Addressed' = Addressed /\ Proper' = Proper
BY DEF Traceable, Addressed, Proper, bindVars

(* RemoveMachine keeps the registry proper and ordered. *)
LEMMA WithoutProper ==
  ASSUME RegistryProper, NEW i \in 1 .. Len(mMachines)
  PROVE  /\ Without(i) \in Seq(Proper)
         /\ \A j, k \in 1 .. Len(Without(i)) :
               j < k => Without(i)[j].id < Without(i)[k].id
<1>. DEFINE w == Without(i)
<1>0. mMachines \in Seq(Proper) /\ Len(mMachines) \in Nat
  BY LenProperties DEF RegistryProper
<1>1. /\ w \in Seq(Proper)
      /\ Len(w) = Len(mMachines) - 1
      /\ \A j \in 1 .. Len(w) : w[j] = mMachines[IF j < i THEN j ELSE j + 1]
  BY <1>0, RemoveOne DEF Without
<1>. HIDE DEF w
<1>2. ASSUME NEW j \in 1 .. Len(w), NEW k \in 1 .. Len(w), j < k
      PROVE  w[j].id < w[k].id
  <2>. DEFINE p == IF j < i THEN j ELSE j + 1
              q == IF k < i THEN k ELSE k + 1
  <2>1. p \in 1 .. Len(mMachines) /\ q \in 1 .. Len(mMachines) /\ p < q
    BY <1>0, <1>1, <1>2
  <2>2. w[j] = mMachines[p] /\ w[k] = mMachines[q]
    BY <1>1
  <2>. HIDE DEF p, q
  <2>. QED  BY <2>1, <2>2 DEF RegistryProper
<1>. QED  BY <1>1, <1>2 DEF w

(* A registered machine's connection. *)
LEMMA MachineType ==
  ASSUME RegistryProper, NEW i \in 1 .. Len(mMachines)
  PROVE  /\ mMachines[i] \in Machine
         /\ mMachines[i].id \in Nat /\ mMachines[i].conn \in Conn
         /\ mMachines[i].id \in numbers[mMachines[i].conn]
<1>1. mMachines[i] \in Proper
  BY ElementOfSeq DEF RegistryProper
<1>. QED  BY <1>1 DEF Proper, Machine

(* The first element of a nonempty queue and what is left of it.           *)
LEMMA QueueHeads ==
  ASSUME IInv
  PROVE  /\ received # <<>> =>
               /\ Ev \in Traceable /\ Ev \in Request
               /\ Tail(received) \in Seq(Traceable)
               /\ Tail(received) \in Seq(Request)
         /\ dbQueue # <<>> =>
               /\ Query \in Traceable \cup AccountEvent /\ Query \in DbEvent
               /\ Tail(dbQueue) \in Seq(Traceable \cup AccountEvent)
               /\ Tail(dbQueue) \in Seq(DbEvent)
         /\ netQueue # <<>> =>
               /\ Reply \in Addressed /\ Reply \in Request
               /\ Tail(netQueue) \in Seq(Addressed)
               /\ Tail(netQueue) \in Seq(Request)
BY HeadTailProperties DEF IInv, TypeOK, EventsTraceable, Ev, Query, Reply

-------------------------------------------------------------------------------
LEMMA InitIInv == Init => IInv
<1>. SUFFICES ASSUME Init  PROVE IInv
  OBVIOUS
<1>. USE MachinesAssumption, EmptySeq DEF Init, FirstMachineID
<1>1. TypeOK
  BY DEF TypeOK
<1>2. NumbersDistinct /\ Asserted
  BY DEF NumbersDistinct, Asserted
<1>3. RegistryProper
  BY DEF RegistryProper
<1>4. EventsTraceable /\ Deliveries
  BY DEF EventsTraceable, Deliveries
<1>. QED  BY <1>1, <1>2, <1>3, <1>4 DEF IInv

(* The network thread and the clients.                                     *)

LEMMA ClientSendsKeeps ==
  ASSUME IInv, NEW c \in Conn, ClientSends(c)  PROVE IInv'
<1>. USE DEF IInv
<1>1. PICK k \in Kind, id \in OwnStamp : wire' = [wire EXCEPT ![c] = Append(@,
                      [kind |-> k, from |-> c, n |-> sent[c] + 1, stamp |-> id,
                       marked |-> FALSE])]
  BY DEF ClientSends
<1>. DEFINE e == [kind |-> k, from |-> c, n |-> sent[c] + 1, stamp |-> id,
                  marked |-> FALSE]
<1>2. e \in Request /\ e \in OnWire(c) /\ sent[c] \in 0 .. MaxRequest
  <2>1. sent[c] \in 0 .. MaxRequest
    BY DEF TypeOK
  <2>2. sent[c] + 1 \in Nat
    BY <2>1, MachinesAssumption
  <2>3. e \in Request
    BY <2>2, MachinesAssumption DEF Request
  <2>. QED  BY <2>1, <2>3 DEF OnWire
<1>3. Append(wire[c], e) \in Seq(Request) /\ Append(wire[c], e) \in Seq(OnWire(c))
  BY <1>2, AppendProperties DEF TypeOK, EventsTraceable
<1>4. UNCHANGED <<mBuffer, done, parent, numbers, gone, waitsFor, engineQueues,
                  stage, registry, chatVars, delivered>>
  BY DEF ClientSends, bindVars
<1>5. TypeOK'
  <2>1. wire' \in [Conn -> Seq(Request)]
    BY <1>1, <1>3 DEF TypeOK
  <2>2. sent' \in [Conn -> 0 .. MaxRequest]
    BY <1>2, MachinesAssumption DEF ClientSends, TypeOK
  <2>. QED
    BY <1>4, <2>1, <2>2 DEF TypeOK, engineQueues, registry, chatVars
<1>6. EventsTraceable'
  <2>1. \A d \in Conn : wire'[d] \in Seq(OnWire(d))
    BY <1>1, <1>3 DEF TypeOK, EventsTraceable
  <2>2. ASSUME NEW d \in Conn, wire'[d] # <<>> \/ mBuffer'[d] # <<>>
        PROVE  Eager \/ parent'[d] # 0
    BY <1>1, <1>4, <2>2 DEF ClientSends, TypeOK, EventsTraceable
  <2>. QED
    BY <1>4, <2>1, <2>2, SetsUnchanged
       DEF EventsTraceable, engineQueues, chatVars, bindVars
<1>7. (NumbersDistinct /\ RegistryProper /\ Deliveries /\ Asserted)'
  BY <1>4, SetsUnchanged
     DEF NumbersDistinct, RegistryProper, Deliveries, Asserted, registry, bindVars
<1>. QED  BY <1>5, <1>6, <1>7

LEMMA ClientClosesKeeps ==
  ASSUME IInv, NEW c \in Conn, ClientCloses(c)  PROVE IInv'
<1>. USE DEF IInv
<1>1. UNCHANGED <<wire, mBuffer, done, parent, numbers, waitsFor, sent, engineQueues,
                  stage, registry, chatVars, delivered>>
  BY DEF ClientCloses, bindVars
<1>2. TypeOK'
  BY <1>1 DEF ClientCloses, TypeOK, engineQueues, registry, chatVars
<1>3. (NumbersDistinct /\ RegistryProper /\ EventsTraceable /\ Deliveries /\ Asserted)'
  BY <1>1, SetsUnchanged
     DEF NumbersDistinct, RegistryProper, EventsTraceable, Deliveries, Asserted,
         engineQueues, registry, chatVars, bindVars
<1>. QED  BY <1>2, <1>3

LEMMA ReceiveKeeps ==
  ASSUME IInv, NEW c \in Conn, Receive(c)  PROVE IInv'
<1>. USE DEF IInv
<1>. DEFINE h == Head(wire[c])
<1>0. UNCHANGED <<parent, numbers, gone, waitsFor, sent, engineQueues, stage,
                  registry, chatVars, delivered>>
  BY DEF Receive, bindVars
<1>1. PICK k \in 1 .. Len(wire[c]) :
          wire' = [wire EXCEPT ![c] = SubSeq(@, k + 1, Len(@))]
  BY DEF Receive
<1>2. PICK first \in {<<h>>, <<>>} : mBuffer' = [mBuffer EXCEPT ![c] = first]
  BY DEF Receive
<1>3. wire[c] # <<>> /\ done[c] < Armed(c) /\ done' = [done EXCEPT ![c] = @ + 1]
  BY DEF Receive
<1>4. h \in Request /\ h \in OnWire(c)
  BY <1>3, HeadTailProperties DEF TypeOK, EventsTraceable
<1>5. first \in Seq(Request) /\ first \in Seq(OnWire(c))
  <2>1. CASE first = <<>>
    BY <2>1, EmptySeq
  <2>2. CASE first = <<h>>
    BY <1>4, <2>2
  <2>. QED  BY <2>1, <2>2
<1>6. k \in Nat
  BY LenProperties DEF TypeOK
<1>7. /\ SubSeq(wire[c], k + 1, Len(wire[c])) \in Seq(Request)
      /\ SubSeq(wire[c], k + 1, Len(wire[c])) \in Seq(OnWire(c))
  BY <1>6, SuffixType DEF TypeOK, EventsTraceable
<1>8. TypeOK'
  <2>1. wire' \in [Conn -> Seq(Request)]
    BY <1>1, <1>7 DEF TypeOK
  <2>2. mBuffer' \in [Conn -> Seq(Request)]
    BY <1>2, <1>5 DEF TypeOK
  <2>3. done' \in [Conn -> Nat]
    <3>1. done[c] \in Nat /\ done[c] + 1 \in Nat
      BY DEF TypeOK
    <3>. QED  BY <1>3, <3>1 DEF TypeOK
  <2>. QED
    BY <1>0, <2>1, <2>2, <2>3 DEF TypeOK, engineQueues, registry, chatVars
<1>9. EventsTraceable'
  <2>1. \A d \in Conn : wire'[d] \in Seq(OnWire(d)) /\ mBuffer'[d] \in Seq(OnWire(d))
    BY <1>1, <1>2, <1>5, <1>7 DEF TypeOK, EventsTraceable
  <2>2. \A d \in Conn : wire'[d] # <<>> \/ mBuffer'[d] # <<>>
                            => wire[d] # <<>> \/ mBuffer[d] # <<>>
    BY <1>1, <1>2, <1>3 DEF TypeOK
  <2>. QED
    BY <1>0, <2>1, <2>2, SetsUnchanged
       DEF EventsTraceable, engineQueues, chatVars, bindVars
<1>10. (NumbersDistinct /\ RegistryProper /\ Deliveries /\ Asserted)'
  BY <1>0, SetsUnchanged
     DEF NumbersDistinct, RegistryProper, Deliveries, Asserted, registry, bindVars
<1>. QED  BY <1>8, <1>9, <1>10

LEMMA AsyncReadKeeps ==
  ASSUME IInv, NEW c \in Conn, AsyncRead(c)  PROVE IInv'
<1>. USE DEF IInv
<1>0. UNCHANGED <<wire, parent, numbers, gone, waitsFor, sent, dbQueue, netQueue,
                  stage, registry, chatVars, delivered>>
  BY DEF AsyncRead, bindVars
<1>1. /\ done[c] > 0 /\ done' = [done EXCEPT ![c] = @ - 1]
      /\ mBuffer' = [mBuffer EXCEPT ![c] = IF done'[c] = 0 THEN <<>> ELSE @]
  BY DEF AsyncRead, OneHandled
<1>2. received' \in Seq(Request) /\ received' \in Seq(Traceable)
  <2>1. CASE received' = received
    BY <2>1 DEF TypeOK, EventsTraceable
  <2>2. CASE mBuffer[c] # <<>> /\ received' = Append(received, StampedBy(mBuffer[c][1], c))
    <3>. DEFINE h == mBuffer[c][1]
                e == StampedBy(h, c)
    <3>1. h \in Request /\ h \in OnWire(c)
      BY <2>2, EmptySeq, ElementOfSeq, LenProperties DEF TypeOK, EventsTraceable
    <3>2. e \in Request /\ e.from = c
      BY <3>1 DEF StampedBy, Request, OnWire, TypeOK
    <3>3. e \in Traceable
      <4>1. CASE parent[c] = 0
        <5>1. e = h /\ ~ h.marked /\ Eager
          BY <2>2, <3>1, <4>1 DEF StampedBy, OnWire, EventsTraceable
        <5>. HIDE DEF e
        <5>. QED  BY <3>2, <5>1 DEF Traceable
      <4>2. CASE parent[c] # 0
        <5>1. e.marked /\ e.stamp = parent[c] /\ parent[c] \in numbers[c]
          BY <3>1, <4>2 DEF StampedBy, Request, NumbersDistinct
        <5>. HIDE DEF e
        <5>. QED  BY <3>2, <5>1 DEF Traceable
      <4>. QED  BY <4>1, <4>2
    <3>4. received' = Append(received, e)
      BY <2>2
    <3>. HIDE DEF e
    <3>. QED  BY <3>2, <3>3, <3>4, AppendProperties DEF TypeOK, EventsTraceable
  <2>. QED  BY <2>1, <2>2 DEF AsyncRead
<1>3. \A d \in Conn : mBuffer'[d] = mBuffer[d] \/ mBuffer'[d] = <<>>
  BY <1>1 DEF TypeOK
<1>4. TypeOK'
  <2>1. mBuffer' \in [Conn -> Seq(Request)]
    BY <1>1, EmptySeq DEF TypeOK
  <2>2. done' \in [Conn -> Nat]
    <3>1. done[c] \in Nat /\ done[c] - 1 \in Nat
      BY <1>1 DEF TypeOK
    <3>. QED  BY <1>1, <3>1 DEF TypeOK
  <2>. QED  BY <1>0, <1>2, <2>1, <2>2 DEF TypeOK, registry, chatVars
<1>5. EventsTraceable'
  <2>1. \A d \in Conn : mBuffer'[d] \in Seq(OnWire(d))
    BY <1>3, EmptySeq DEF EventsTraceable
  <2>. QED
    BY <1>0, <1>2, <1>3, <2>1, SetsUnchanged DEF EventsTraceable, chatVars, bindVars
<1>6. (NumbersDistinct /\ RegistryProper /\ Deliveries /\ Asserted)'
  BY <1>0, SetsUnchanged
     DEF NumbersDistinct, RegistryProper, Deliveries, Asserted, registry, bindVars
<1>. QED  BY <1>4, <1>5, <1>6

(* ProcessAuth: answers of the database, or a received event.              *)
LEMMA ProcessAuthTakes ==
  ASSUME IInv, ProcessAuth
  PROVE  /\ UNCHANGED <<wire, mBuffer, done, waitsFor, sent, netQueue, stage, chatVars,
                        delivered>>
         /\ received' = received \/ (received # <<>> /\ received' = Tail(received))
         /\ received' \in Seq(Request) /\ received' \in Seq(Traceable)
<1>1. /\ UNCHANGED <<wire, mBuffer, done, waitsFor, sent, netQueue, stage, chatVars,
                     delivered>>
      /\ received' = received \/ (received # <<>> /\ received' = Tail(received))
  BY DEF ProcessAuth, AuthReceived
<1>2. received \in Seq(Request) /\ received \in Seq(Traceable)
  BY DEF IInv, TypeOK, EventsTraceable
<1>. QED  BY <1>1, <1>2, QueueHeads

LEMMA AcceptAuthKeeps ==
  ASSUME IInv, NEW c \in Conn, AcceptAuth(c)  PROVE IInv'
<1>. USE DEF IInv
<1>. DEFINE m == [id |-> mNextMachineID, conn |-> c]
            e == [kind |-> "WELCOME", conn |-> c]
<1>0. /\ UNCHANGED <<wire, mBuffer, done, gone, waitsFor, sent, netQueue, stage,
                     chatVars, delivered>>
      /\ received' \in Seq(Request) /\ received' \in Seq(Traceable)
  BY ProcessAuthTakes DEF AcceptAuth
<1>1. /\ parent' = [parent EXCEPT ![c] = mNextMachineID]
      /\ numbers' = [numbers EXCEPT ![c] = @ \cup {mNextMachineID}]
      /\ mMachines' = Append(mMachines, m)
      /\ mNextMachineID' = mNextMachineID + 1
      /\ dbQueue' = Append(dbQueue, e)
  BY DEF AcceptAuth, NextMachineID
<1>2. /\ mNextMachineID \in Nat \ {0}
      /\ parent \in [Conn -> Nat] /\ parent' \in [Conn -> Nat]
      /\ numbers \in [Conn -> SUBSET Nat] /\ numbers' \in [Conn -> SUBSET Nat]
  BY <1>1 DEF TypeOK
<1>12. /\ numbers'[c] = numbers[c] \cup {mNextMachineID} /\ parent'[c] = mNextMachineID
       /\ \A d \in Conn : d # c => numbers'[d] = numbers[d] /\ parent'[d] = parent[d]
       /\ \A d \in Conn : numbers[d] \subseteq numbers'[d]
  BY <1>1, <1>2
<1>3. Traceable \subseteq Traceable' /\ Addressed \subseteq Addressed'
  BY <1>12 DEF Traceable, Addressed, Request
<1>4. Proper \subseteq Proper' /\ m \in Proper' /\ m \in Machine
  BY <1>2, <1>12 DEF Proper, Machine
<1>5. e \in AccountEvent /\ e \in DbEvent
  BY DEF AccountEvent, DbEvent
<1>6. NumbersDistinct'
  <2>1. \A d \in Conn : \A k \in numbers[d] : 0 < k /\ k < mNextMachineID
    BY <1>2 DEF NumbersDistinct
  <2>2. mNextMachineID' = mNextMachineID + 1
    BY <1>1
  <2>3. \A d \in Conn : \A k \in numbers'[d] : 0 < k /\ k <= parent'[d]
    BY <1>2, <1>12, <2>1 DEF NumbersDistinct
  <2>4. \A d \in Conn : parent'[d] < mNextMachineID'
    BY <1>2, <1>12, <2>2 DEF NumbersDistinct
  <2>5. \A d \in Conn : parent'[d] # 0 => parent'[d] \in numbers'[d]
    BY <1>12 DEF NumbersDistinct
  <2>6. ASSUME NEW d \in Conn, NEW f \in Conn, d # f
        PROVE  numbers'[d] \cap numbers'[f] = {}
    <3>1. numbers[d] \cap numbers[f] = {}
      BY <2>6 DEF NumbersDistinct
    <3>2. mNextMachineID \notin numbers[d] /\ mNextMachineID \notin numbers[f]
      BY <1>2, <2>1
    <3>. QED  BY <1>12, <2>6, <3>1, <3>2
  <2>. QED  BY <2>3, <2>4, <2>5, <2>6 DEF NumbersDistinct
<1>7. RegistryProper'
  <2>1. mMachines \in Seq(Proper) /\ mMachines \in Seq(Proper')
    BY <1>4, SeqMonotonic DEF RegistryProper
  <2>2. /\ mMachines' \in Seq(Proper')
        /\ Len(mMachines') = Len(mMachines) + 1
        /\ \A i \in 1 .. Len(mMachines) : mMachines'[i] = mMachines[i]
        /\ mMachines'[Len(mMachines) + 1] = m
    BY <1>1, <1>4, <2>1, AppendProperties
  <2>3. Len(mMachines) \in Nat
    BY <2>1, LenProperties
  <2>4. ASSUME NEW i \in 1 .. Len(mMachines')
        PROVE  \/ i \in 1 .. Len(mMachines)
               \/ i = Len(mMachines) + 1
    BY <2>2, <2>3
  <2>5. ASSUME NEW i \in 1 .. Len(mMachines)  PROVE mMachines[i].id < mNextMachineID
    <3>1. mMachines[i].conn \in Conn /\ mMachines[i].id \in numbers[mMachines[i].conn]
          /\ mMachines[i].id \in Nat
      BY MachineType
    <3>. QED  BY <1>2, <3>1 DEF NumbersDistinct
  <2>6. ASSUME NEW i \in 1 .. Len(mMachines'), NEW j \in 1 .. Len(mMachines'), i < j
        PROVE  mMachines'[i].id < mMachines'[j].id
    <3>1. i \in 1 .. Len(mMachines)
      BY <2>2, <2>3, <2>6
    <3>2. CASE j \in 1 .. Len(mMachines)
      BY <2>2, <2>6, <3>1, <3>2 DEF RegistryProper
    <3>3. CASE j = Len(mMachines) + 1
      BY <2>2, <2>5, <3>1, <3>3
    <3>. QED  BY <2>4, <3>2, <3>3
  <2>. QED  BY <2>2, <2>6 DEF RegistryProper
<1>8. dbQueue' \in Seq(Traceable' \cup AccountEvent) /\ dbQueue' \in Seq(DbEvent)
  <2>1. dbQueue \in Seq(Traceable' \cup AccountEvent)
    <3>1. Traceable \cup AccountEvent \subseteq Traceable' \cup AccountEvent
      BY <1>3
    <3>. QED  BY <3>1, SeqMonotonic DEF EventsTraceable
  <2>. QED  BY <1>1, <1>5, <2>1, AppendProperties DEF TypeOK
<1>9. TypeOK'
  <2>1. mMachines' \in Seq(Machine)
    BY <1>1, <1>4, AppendProperties DEF TypeOK
  <2>2. /\ UNCHANGED <<wire, mBuffer, done, gone, waitsFor, sent, netQueue, stage,
                       delivered>>
        /\ UNCHANGED <<chat, at, start, tried, failed>>
    BY <1>0 DEF chatVars
  <2>3. /\ mNextMachineID' \in Nat \ {0} /\ parent' \in [Conn -> Nat]
        /\ numbers' \in [Conn -> SUBSET Nat]
    BY <1>1, <1>2
  <2>. HIDE DEF m, e
  <2>. QED  BY <1>0, <1>8, <2>1, <2>2, <2>3 DEF TypeOK
<1>10. EventsTraceable'
  <2>1. received' \in Seq(Traceable') /\ netQueue' \in Seq(Addressed')
    BY <1>0, <1>3, SeqMonotonic DEF EventsTraceable
  <2>2. \A d \in Conn : parent[d] # 0 => parent'[d] # 0
    BY <1>2, <1>12
  <2>. QED  BY <1>0, <1>8, <2>1, <2>2 DEF EventsTraceable, chatVars
<1>11. (Deliveries /\ Asserted)'
  BY <1>0 DEF Deliveries, Asserted
<1>. QED  BY <1>6, <1>7, <1>9, <1>10, <1>11

LEMMA RejectAuthKeeps ==
  ASSUME IInv, NEW c \in Conn, RejectAuth(c)  PROVE IInv'
<1>. USE DEF IInv
<1>1. /\ UNCHANGED <<wire, mBuffer, done, waitsFor, sent, netQueue, stage, chatVars,
                     delivered, dbQueue, registry, parent, numbers>>
      /\ received' \in Seq(Request) /\ received' \in Seq(Traceable)
      /\ gone' = [gone EXCEPT ![c] = TRUE]
  BY ProcessAuthTakes DEF RejectAuth, bindVars
<1>2. TypeOK'
  BY <1>1 DEF TypeOK, registry, chatVars
<1>3. (NumbersDistinct /\ RegistryProper /\ EventsTraceable /\ Deliveries /\ Asserted)'
  BY <1>1, SetsUnchanged
     DEF NumbersDistinct, RegistryProper, EventsTraceable, Deliveries, Asserted,
         registry, chatVars, bindVars
<1>. QED  BY <1>2, <1>3

LEMMA SendWaitsKeeps ==
  ASSUME IInv, NEW c \in Conn, SendWaits(c)  PROVE IInv'
<1>. USE DEF IInv
<1>1. /\ UNCHANGED <<wire, mBuffer, done, parent, numbers, gone, sent, engineQueues,
                     registry, chatVars, delivered>>
      /\ stage' = "waits" /\ waitsFor' = {c}
  BY DEF SendWaits, bindVars
<1>2. TypeOK'
  BY <1>1 DEF TypeOK, engineQueues, registry, chatVars
<1>3. (NumbersDistinct /\ RegistryProper /\ EventsTraceable /\ Deliveries /\ Asserted)'
  BY <1>1, SetsUnchanged
     DEF NumbersDistinct, RegistryProper, EventsTraceable, Deliveries, Asserted,
         engineQueues, registry, chatVars, bindVars
<1>. QED  BY <1>2, <1>3

-------------------------------------------------------------------------------
(* The engine thread: it changes no mParent and hands out no number, so    *)
(* that the invariant is kept when each of these parts is.                 *)
ReceivedOK == received \in Seq(Request) /\ received \in Seq(Traceable)
DbQueueOK == dbQueue \in Seq(DbEvent) /\ dbQueue \in Seq(Traceable \cup AccountEvent)
NetQueueOK == netQueue \in Seq(Request) /\ netQueue \in Seq(Addressed)
RegistryOK == mMachines \in Seq(Machine) /\ RegistryProper
DeliveredOK == delivered \in [Conn -> Seq(Request)] /\ Deliveries
StageOK ==
    /\ stage \in {"net", "recv", "chat", "db", "waits", "dead", "aborted"}
    /\ stage = "aborted" => Eager
    /\ stage = "chat" => chat # <<>>
ChatOK ==
    /\ chat \in Seq(Request) /\ chat \in Seq({e \in Request : e.kind = "CHAT_EVENT"})
    /\ at \in Nat \ {0}
    /\ start \in Seq(Machine)
    /\ tried \subseteq Nat
    /\ failed \subseteq tried

LEMMA PartsOfIInv ==
  ASSUME IInv
  PROVE  /\ ReceivedOK /\ DbQueueOK /\ NetQueueOK /\ RegistryOK
         /\ DeliveredOK /\ StageOK /\ ChatOK
BY DEF IInv, TypeOK, EventsTraceable, Asserted, ReceivedOK, DbQueueOK, NetQueueOK,
       RegistryOK, DeliveredOK, StageOK, ChatOK

LEMMA EngineKeeps ==
  ASSUME IInv, UNCHANGED <<clientVars, mNextMachineID>>,
         ReceivedOK', DbQueueOK', NetQueueOK', RegistryOK', DeliveredOK',
         StageOK', ChatOK'
  PROVE  IInv'
<1>. USE DEF IInv
<1>1. UNCHANGED <<wire, mBuffer, done, parent, numbers, gone, waitsFor, sent,
                  mNextMachineID>>
  BY DEF clientVars, bindVars
<1>2. TypeOK'
  BY <1>1 DEF TypeOK, ReceivedOK, DbQueueOK, NetQueueOK, RegistryOK, DeliveredOK,
              StageOK, ChatOK
<1>3. EventsTraceable'
  BY <1>1 DEF EventsTraceable, ReceivedOK, DbQueueOK, NetQueueOK, ChatOK
<1>4. (NumbersDistinct /\ RegistryProper /\ Deliveries /\ Asserted)'
  BY <1>1 DEF NumbersDistinct, Asserted, RegistryOK, DeliveredOK, StageOK
<1>. QED  BY <1>2, <1>3, <1>4

(* What an action does not touch stays as it was.                          *)
LEMMA PartsUnchanged ==
  ASSUME IInv, UNCHANGED bindVars
  PROVE  /\ received' = received => ReceivedOK'
         /\ dbQueue' = dbQueue => DbQueueOK'
         /\ netQueue' = netQueue => NetQueueOK'
         /\ mMachines' = mMachines => RegistryOK'
         /\ delivered' = delivered => DeliveredOK'
         /\ UNCHANGED <<stage, chat>> => StageOK'
         /\ UNCHANGED chatVars => ChatOK'
<1>. USE PartsOfIInv, SetsUnchanged
<1>1. received' = received => ReceivedOK'
  BY DEF ReceivedOK
<1>2. dbQueue' = dbQueue => DbQueueOK'
  BY DEF DbQueueOK
<1>3. netQueue' = netQueue => NetQueueOK'
  BY DEF NetQueueOK
<1>4. mMachines' = mMachines => RegistryOK'
  BY DEF RegistryOK, RegistryProper
<1>5. delivered' = delivered => DeliveredOK'
  BY DEF DeliveredOK, Deliveries
<1>6. UNCHANGED <<stage, chat>> => StageOK'
  BY DEF StageOK
<1>7. UNCHANGED chatVars => ChatOK'
  BY DEF ChatOK, chatVars
<1>. QED  BY <1>1, <1>2, <1>3, <1>4, <1>5, <1>6, <1>7

(* A machine's number leads back to one connection, whether through the *)
(* registry or through the event it stamps.                                *)
LEMMA StampFindsAsker ==
  ASSUME IInv, NEW e \in Request, e.marked => e.stamp \in numbers[e.from],
         NEW i \in Registered(e.stamp)
  PROVE  i \in 1 .. Len(mMachines) /\ e \in MayHear(mMachines[i].conn)
<1>. USE DEF IInv
<1>1. i \in 1 .. Len(mMachines) /\ mMachines[i].id = e.stamp
  BY DEF Registered
<1>2. mMachines[i].conn \in Conn /\ mMachines[i].id \in numbers[mMachines[i].conn]
  BY <1>1, MachineType
<1>3. e.from \in Conn
  BY DEF Request
<1>4. e.marked => e.from = mMachines[i].conn
  BY <1>1, <1>2, <1>3 DEF NumbersDistinct
<1>. QED  BY <1>1, <1>4 DEF MayHear

(* What TCPSend to the i-th machine, of an event its client may hear,      *)
(* leaves true.                                                            *)
LEMMA TCPSendKeeps ==
  ASSUME IInv, UNCHANGED bindVars, NEW i \in 1 .. Len(mMachines),
         NEW ev \in MayHear(mMachines[i].conn),
         TCPSendDone(i, ev) \/ TCPSendFails(i)
  PROVE  RegistryOK' /\ DbQueueOK' /\ DeliveredOK'
<1>. USE SetsUnchanged DEF IInv
<1>0. /\ mMachines \in Seq(Proper) /\ mMachines[i].conn \in Conn
      /\ Proper \subseteq Machine
  BY MachineType DEF RegistryProper, Proper
<1>1. CASE TCPSendDone(i, ev)
  <2>. DEFINE c == mMachines[i].conn
  <2>1. ev \in Request
    BY DEF MayHear
  <2>2. delivered' \in [Conn -> Seq(Request)]
    <3>1. Append(delivered[c], ev) \in Seq(Request)
      BY <1>0, <2>1, AppendProperties DEF TypeOK
    <3>. QED  BY <1>0, <1>1, <3>1 DEF TCPSendDone, TypeOK
  <2>3. ASSUME NEW d \in Conn  PROVE delivered'[d] \in Seq(MayHear(d))
    <3>1. Append(delivered[c], ev) \in Seq(MayHear(c))
      BY <1>0, AppendProperties DEF Deliveries
    <3>. QED  BY <1>0, <1>1, <3>1 DEF TCPSendDone, TypeOK, Deliveries
  <2>4. mMachines' = mMachines /\ dbQueue' = dbQueue
    BY <1>1 DEF TCPSendDone
  <2>. QED  BY <2>2, <2>3, <2>4, PartsUnchanged DEF DeliveredOK, Deliveries
<1>2. CASE TCPSendFails(i)
  <2>. DEFINE e == [kind |-> "REMOVE_MACHINE", conn |-> mMachines[i].conn]
  <2>1. mMachines' = Without(i) /\ dbQueue' = Append(dbQueue, e)
        /\ delivered' = delivered
    BY <1>2 DEF TCPSendFails
  <2>2. e \in AccountEvent /\ e \in DbEvent
    BY <1>0 DEF AccountEvent, DbEvent
  <2>3. /\ mMachines' \in Seq(Proper)
        /\ \A j, k \in 1 .. Len(mMachines') :
               j < k => mMachines'[j].id < mMachines'[k].id
    BY <2>1, WithoutProper
  <2>4. mMachines' \in Seq(Machine)
    BY <1>0, <2>3, SeqMonotonic
  <2>5. dbQueue' \in Seq(Traceable \cup AccountEvent) /\ dbQueue' \in Seq(DbEvent)
    BY <2>1, <2>2, AppendProperties DEF EventsTraceable, TypeOK
  <2>. QED
    BY <2>1, <2>3, <2>4, <2>5, PartsUnchanged
       DEF RegistryOK, RegistryProper, DbQueueOK
<1>. QED  BY <1>1, <1>2

LEMMA FrameEndsKeeps ==
  ASSUME IInv, FrameEnds  PROVE IInv'
<1>1. /\ UNCHANGED <<clientVars, engineQueues, registry, chatVars, delivered>>
      /\ stage' \in {"net", "recv", "db"}
  BY DEF FrameEnds
<1>2. /\ UNCHANGED bindVars /\ received' = received /\ dbQueue' = dbQueue
      /\ netQueue' = netQueue /\ mMachines' = mMachines
      /\ mNextMachineID' = mNextMachineID
  BY <1>1 DEF clientVars, engineQueues, registry
<1>3. StageOK'
  BY <1>1 DEF StageOK
<1>. QED  BY <1>1, <1>2, <1>3, PartsUnchanged, EngineKeeps

LEMMA ProcessQueueKeeps ==
  ASSUME IInv, ProcessQueue  PROVE IInv'
<1>1. TakeReply
  BY DEF ProcessQueue, ReplySent, ReplyDropped
<1>2. /\ UNCHANGED <<clientVars, mNextMachineID>> /\ UNCHANGED bindVars
      /\ received' = received /\ UNCHANGED <<stage, chat>> /\ UNCHANGED chatVars
      /\ netQueue # <<>> /\ netQueue' = Tail(netQueue)
  BY <1>1 DEF TakeReply, clientVars, chatVars
<1>3. /\ Reply \in Addressed
      /\ Tail(netQueue) \in Seq(Addressed) /\ Tail(netQueue) \in Seq(Request)
  BY <1>2, QueueHeads
<1>4. NetQueueOK'
  BY <1>2, <1>3, SetsUnchanged DEF NetQueueOK
<1>5. RegistryOK' /\ DbQueueOK' /\ DeliveredOK'
  <2>1. CASE ReplySent
    <3>1. PICK i \in Registered(Reply.stamp) :
              TCPSendDone(i, Reply) \/ TCPSendFails(i)
      BY <2>1 DEF ReplySent
    <3>2. i \in 1 .. Len(mMachines) /\ Reply \in MayHear(mMachines[i].conn)
      BY <1>3, StampFindsAsker DEF Addressed
    <3>. QED  BY <1>2, <3>1, <3>2, TCPSendKeeps
  <2>2. CASE ReplyDropped
    BY <1>2, <2>2, PartsUnchanged DEF ReplyDropped
  <2>. QED  BY <2>1, <2>2 DEF ProcessQueue
<1>. QED  BY <1>2, <1>4, <1>5, PartsUnchanged, EngineKeeps

LEMMA ProcessReceivedKeeps ==
  ASSUME IInv, TakeReceived,
         \/ ForwardToDataBase \/ PingAnswered \/ NothingToDo \/ PingAsserts
         \/ ChatBegins
  PROVE  IInv'
<1>1. /\ UNCHANGED <<clientVars, mNextMachineID>> /\ UNCHANGED bindVars
      /\ netQueue' = netQueue /\ received # <<>> /\ received' = Tail(received)
  BY DEF TakeReceived, clientVars
<1>2. /\ Ev \in Traceable /\ Ev \in Request /\ ReceivedOK'
  BY <1>1, QueueHeads, SetsUnchanged DEF ReceivedOK
<1>3. CASE ForwardToDataBase
  <2>1. Ev \in DbEvent /\ Ev \in Traceable \cup AccountEvent
    BY <1>2 DEF DbEvent
  <2>2. DbQueueOK'
    BY <1>1, <1>3, <2>1, PartsOfIInv, SetsUnchanged, AppendProperties
       DEF DbQueueOK, ForwardToDataBase
  <2>3. UNCHANGED <<stage, mMachines, chatVars, delivered>>
    BY <1>3 DEF ForwardToDataBase
  <2>4. UNCHANGED <<stage, chat>>
    BY <2>3 DEF chatVars
  <2>. QED  BY <1>1, <1>2, <2>2, <2>3, <2>4, PartsUnchanged, EngineKeeps
<1>4. CASE PingAnswered
  <2>1. PICK i \in Registered(Ev.stamp) : TCPSendDone(i, Ev) \/ TCPSendFails(i)
    BY <1>4 DEF PingAnswered
  <2>2. i \in 1 .. Len(mMachines) /\ Ev \in MayHear(mMachines[i].conn)
    BY <1>2, <1>4, StampFindsAsker DEF Traceable, PingAnswered
  <2>3. RegistryOK' /\ DbQueueOK' /\ DeliveredOK'
    BY <1>1, <2>1, <2>2, TCPSendKeeps
  <2>4. UNCHANGED <<stage, chatVars>> /\ UNCHANGED <<stage, chat>>
    BY <1>4 DEF PingAnswered, chatVars
  <2>. QED  BY <1>1, <1>2, <2>3, <2>4, PartsUnchanged, EngineKeeps
<1>5. CASE NothingToDo
  <2>1. UNCHANGED <<stage, dbQueue, mMachines, chatVars, delivered>>
    BY <1>5 DEF NothingToDo
  <2>2. UNCHANGED <<stage, chat>>
    BY <2>1 DEF chatVars
  <2>. QED  BY <1>1, <1>2, <2>1, <2>2, PartsUnchanged, EngineKeeps
<1>6. CASE PingAsserts
  <2>1. UNCHANGED <<dbQueue, mMachines, chatVars, delivered>>
    BY <1>6 DEF PingAsserts
  <2>2. StageOK'
    <3>1. Eager
      BY <1>2, <1>6 DEF PingAsserts, Traceable, Request, IInv, NumbersDistinct
    <3>. QED  BY <1>6, <3>1 DEF PingAsserts, StageOK
  <2>. QED  BY <1>1, <1>2, <2>1, <2>2, PartsUnchanged, EngineKeeps
<1>7. CASE ChatBegins
  <2>1. /\ stage' = "chat" /\ chat' = <<Ev>> /\ at' = 1 /\ start' = mMachines
        /\ tried' = {} /\ failed' = {}
        /\ UNCHANGED <<dbQueue, mMachines, delivered>>
        /\ Ev.kind = "CHAT_EVENT"
    BY <1>7 DEF ChatBegins
  <2>2. ChatOK' /\ StageOK'
    BY <1>2, <2>1, PartsOfIInv DEF ChatOK, StageOK, RegistryOK
  <2>. QED  BY <1>1, <1>2, <2>1, <2>2, PartsUnchanged, EngineKeeps
<1>. QED  BY <1>3, <1>4, <1>5, <1>6, <1>7

LEMMA AuthIgnoredKeeps ==
  ASSUME IInv, AuthIgnored  PROVE IInv'
<1>1. /\ UNCHANGED <<clientVars, mNextMachineID>> /\ UNCHANGED bindVars
      /\ netQueue' = netQueue /\ dbQueue' = dbQueue /\ mMachines' = mMachines
      /\ delivered' = delivered /\ UNCHANGED chatVars
      /\ received # <<>> /\ received' = Tail(received)
      /\ stage' = stage \/ stage' = "dead"
  BY DEF AuthIgnored, AuthReceived, clientVars, registry
<1>2. ReceivedOK'
  BY <1>1, QueueHeads, SetsUnchanged DEF ReceivedOK
<1>3. StageOK'
  BY <1>1, PartsOfIInv DEF StageOK, chatVars
<1>. QED  BY <1>1, <1>2, <1>3, PartsUnchanged, EngineKeeps

LEMMA ChatTurnKeeps ==
  ASSUME IInv, ChatTurn  PROVE IInv'
<1>1. /\ UNCHANGED <<clientVars, mNextMachineID>> /\ UNCHANGED bindVars
      /\ received' = received /\ netQueue' = netQueue
      /\ UNCHANGED <<stage, chat>> /\ stage = "chat"
      /\ start' = start /\ at' = at + 1 /\ at <= Len(mMachines)
      /\ tried' = tried \cup {mMachines[at].id}
      /\ \/ TCPSendDone(at, chat[1]) /\ failed' = failed
         \/ TCPSendFails(at) /\ failed' = failed \cup {mMachines[at].id}
  BY DEF ChatTurn, clientVars
<1>2. ChatOK /\ StageOK /\ RegistryOK
  BY PartsOfIInv
<1>3. Len(mMachines) \in Nat
  BY <1>2, LenProperties DEF RegistryOK
<1>4. at \in 1 .. Len(mMachines)
  BY <1>1, <1>2, <1>3 DEF ChatOK
<1>5. mMachines[at].id \in Nat /\ mMachines[at].conn \in Conn
  BY <1>4, MachineType DEF IInv
<1>6. chat[1] \in MayHear(mMachines[at].conn)
  <2>1. chat[1] \in {e \in Request : e.kind = "CHAT_EVENT"}
    <3>1. chat # <<>> /\ chat \in Seq({e \in Request : e.kind = "CHAT_EVENT"})
      BY <1>1, <1>2 DEF ChatOK, StageOK
    <3>. QED  BY <3>1, EmptySeq, ElementOfSeq, LenProperties
  <2>. QED  BY <2>1 DEF MayHear
<1>7. RegistryOK' /\ DbQueueOK' /\ DeliveredOK'
  BY <1>1, <1>4, <1>6, TCPSendKeeps
<1>8. ChatOK'
  <2>1. chat' = chat /\ start' = start /\ at' \in Nat \ {0}
    BY <1>1, <1>2 DEF ChatOK
  <2>2. tried' \subseteq Nat
    BY <1>1, <1>2, <1>5 DEF ChatOK
  <2>3. failed' = failed \/ failed' = failed \cup {mMachines[at].id}
    BY <1>1
  <2>4. failed' \subseteq tried'
    BY <1>1, <1>2, <2>3 DEF ChatOK
  <2>. QED  BY <1>2, <2>1, <2>2, <2>4 DEF ChatOK
<1>. QED  BY <1>1, <1>7, <1>8, PartsUnchanged, EngineKeeps

LEMMA ChatEndsKeeps ==
  ASSUME IInv, ChatEnds  PROVE IInv'
<1>1. /\ UNCHANGED <<clientVars, engineQueues, registry, delivered>>
      /\ stage' = "recv" /\ chat' = <<>> /\ at' = 1
      /\ start' = <<>> /\ tried' = {} /\ failed' = {}
  BY DEF ChatEnds
<1>2. /\ UNCHANGED bindVars /\ received' = received /\ dbQueue' = dbQueue
      /\ netQueue' = netQueue /\ mMachines' = mMachines
      /\ mNextMachineID' = mNextMachineID
  BY <1>1 DEF clientVars, engineQueues, registry
<1>3. StageOK' /\ ChatOK'
  BY <1>1, EmptySeq DEF StageOK, ChatOK
<1>. QED  BY <1>1, <1>2, <1>3, PartsUnchanged, EngineKeeps

LEMMA DataBaseFrameKeeps ==
  ASSUME IInv, DataBaseFrame  PROVE IInv'
<1>1. TakeQuery
  BY DEF DataBaseFrame, QueryReplied, QueryDone, QueryAsserts, QueryThrows
<1>2. /\ UNCHANGED <<clientVars, mNextMachineID>> /\ UNCHANGED bindVars
      /\ received' = received /\ mMachines' = mMachines /\ delivered' = delivered
      /\ UNCHANGED chatVars /\ chat' = chat
      /\ dbQueue # <<>> /\ dbQueue' = Tail(dbQueue)
  BY <1>1 DEF TakeQuery, clientVars, registry, chatVars
<1>3. Query \in Traceable \cup AccountEvent /\ DbQueueOK'
  BY <1>2, QueueHeads, SetsUnchanged DEF DbQueueOK
<1>4. NetQueueOK'
  <2>1. CASE QueryReplied
    <3>1. /\ netQueue' = Append(netQueue, Query)
          /\ Query.kind \in Replied /\ Query.stamp # 0
      BY <2>1 DEF QueryReplied, ReplyTo
    <3>2. Query \in Traceable
      BY <1>3, <3>1 DEF AccountEvent, Replied
    <3>3. Query \in Addressed /\ Query \in Request
      BY <3>1, <3>2 DEF Traceable, Addressed, Replied
    <3>. QED
      BY <1>2, <3>1, <3>3, PartsOfIInv, SetsUnchanged, AppendProperties
         DEF NetQueueOK
  <2>2. CASE netQueue' = netQueue
    BY <1>2, <2>2, PartsUnchanged
  <2>. QED
    BY <2>1, <2>2 DEF DataBaseFrame, QueryDone, QueryAsserts, QueryThrows
<1>5. StageOK'
  <2>1. CASE stage' = stage
    BY <1>2, <2>1, PartsUnchanged
  <2>2. CASE QueryAsserts
    <3>1. Query.kind \in Stamped /\ Query.stamp = 0 /\ stage' = "aborted"
      BY <2>2 DEF QueryAsserts
    <3>2. Query \in Traceable
      BY <1>3, <3>1 DEF AccountEvent, Stamped, Replied
    <3>3. Eager
      BY <3>1, <3>2 DEF Traceable, Request, IInv, NumbersDistinct
    <3>. QED  BY <3>1, <3>3 DEF StageOK
  <2>3. CASE QueryThrows
    BY <2>3 DEF QueryThrows, StageOK
  <2>. QED  BY <2>1, <2>2, <2>3 DEF DataBaseFrame, QueryReplied, QueryDone
<1>. QED  BY <1>2, <1>3, <1>4, <1>5, PartsUnchanged, EngineKeeps

-------------------------------------------------------------------------------
LEMMA NextIInv == IInv /\ [Next]_vars => IInv'
<1>. SUFFICES ASSUME IInv, [Next]_vars  PROVE IInv'
  OBVIOUS
<1>1. ASSUME NEW c \in Conn, Network(c)  PROVE IInv'
  BY <1>1, ClientSendsKeeps, ClientClosesKeeps, ReceiveKeeps, AsyncReadKeeps,
     AcceptAuthKeeps, RejectAuthKeeps, SendWaitsKeeps
     DEF Network
<1>2. CASE Engine
  <2>1. CASE FrameEnds
    BY <2>1, FrameEndsKeeps
  <2>2. CASE ProcessQueue
    BY <2>2, ProcessQueueKeeps
  <2>3. CASE ProcessReceivedEvent
    <3>1. CASE \/ ForwardToDataBase \/ PingAnswered \/ NothingToDo
               \/ PingAsserts \/ ChatBegins
      <4>1. TakeReceived
        BY <3>1 DEF ForwardToDataBase, PingAnswered, NothingToDo, PingAsserts,
                    ChatBegins
      <4>. QED  BY <3>1, <4>1, ProcessReceivedKeeps
    <3>2. CASE ChatTurn
      BY <3>2, ChatTurnKeeps
    <3>3. CASE ChatEnds
      BY <3>3, ChatEndsKeeps
    <3>4. CASE AuthIgnored
      BY <3>4, AuthIgnoredKeeps
    <3>. QED  BY <2>3, <3>1, <3>2, <3>3, <3>4 DEF ProcessReceivedEvent
  <2>4. CASE DataBaseFrame
    BY <2>4, DataBaseFrameKeeps
  <2>. QED  BY <1>2, <2>1, <2>2, <2>3, <2>4 DEF Engine
<1>3. CASE UNCHANGED vars
  <2>1. /\ UNCHANGED <<clientVars, mNextMachineID>> /\ UNCHANGED bindVars
        /\ received' = received /\ dbQueue' = dbQueue /\ netQueue' = netQueue
        /\ mMachines' = mMachines /\ delivered' = delivered
        /\ UNCHANGED chatVars /\ UNCHANGED <<stage, chat>>
    BY <1>3 DEF vars, clientVars, engineQueues, registry, chatVars
  <2>. QED  BY <2>1, PartsUnchanged, EngineKeeps
<1>. QED  BY <1>1, <1>2, <1>3 DEF Next

THEOREM Invariance == Spec => []IInv
BY InitIInv, NextIInv, PTL DEF Spec

(* Every variable keeps its type: queues hold events, the registry holds   *)
(* machines, a client sends no more than its bound.                        *)
THEOREM TypeCorrect == Spec => []TypeOK
<1>1. IInv => TypeOK
  BY DEF IInv
<1>. QED  BY <1>1, Invariance, PTL

(* However connections are accepted, one socket perhaps several times, and *)
(* machines removed, the registry (AcceptAuth, RemoveMachine) holds each   *)
(* number once, in ascending order, none above the last its socket was     *)
(* given, and no number was ever given to two connections.                 *)
THEOREM RegistryAlwaysConsistent == Spec => []RegistryConsistent
<1>1. IInv => RegistryConsistent
  <2>. SUFFICES ASSUME IInv  PROVE RegistryConsistent
    OBVIOUS
  <2>. USE DEF IInv
  <2>1. ASSUME NEW i \in 1 .. Len(mMachines)
        PROVE  /\ mMachines[i].id \in numbers[mMachines[i].conn]
               /\ mMachines[i].id <= parent[mMachines[i].conn]
               /\ parent[mMachines[i].conn] < mNextMachineID
    BY MachineType DEF NumbersDistinct
  <2>. QED  BY <2>1 DEF RegistryConsistent, RegistryProper, NumbersDistinct
<1>. QED  BY <1>1, Invariance, PTL

(* What a client is sent in answer to an event stamped by a machine is an  *)
(* answer to an event of its own: the number copied into a request         *)
(* (NetMachine::PushReceivedEvent) leads the reply (GetMachineFromID) to   *)
(* the asker or to nobody.                                                 *)
THEOREM RepliesReachAsker == Spec => []RepliesToAsker
<1>1. IInv => RepliesToAsker
  <2>. SUFFICES ASSUME IInv, NEW c \in Conn, NEW i \in 1 .. Len(delivered[c]),
                       delivered[c][i].marked, delivered[c][i].kind # "CHAT_EVENT"
                PROVE  delivered[c][i].from = c
    BY DEF RepliesToAsker
  <2>1. delivered[c] \in Seq(MayHear(c))
    BY DEF IInv, Deliveries
  <2>2. delivered[c][i] \in MayHear(c)
    BY <2>1, ElementOfSeq
  <2>. QED  BY <2>2 DEF MayHear
<1>. QED  BY <1>1, Invariance, PTL

(* If no client sends before it hears that it is accepted, no handler's    *)
(* assertion on an event's ID or ACCT_ID fails.                            *)
THEOREM PatientClientsAbortNothing == ~ Eager => (Spec => []AssertionsHold)
<1>. SUFFICES ASSUME ~ Eager  PROVE Spec => []AssertionsHold
  OBVIOUS
<1>1. IInv => AssertionsHold
  BY DEF IInv, Asserted, AssertionsHold
<1>. QED  BY <1>1, Invariance, PTL-------------------------------------------------------------------------------
(* The order of replies.  A request goes through six places in turn: the   *)
(* wire, the socket's buffer, the received queue, the database's, the      *)
(* network engine's, and what its client was sent.  In each of them the    *)
(* requests of one client stand in ascending order, and what is further    *)
(* along is not later than what is behind it; not strictly, for a request  *)
(* can be read from the buffer twice.                                      *)
Mine(e, c) == e.kind \in Replied /\ e.from = c

NumbersOf(q, c) == {q[i].n : i \in {j \in 1 .. Len(q) : Mine(q[j], c)}}

Ascending(q, c) ==
    \A i, j \in 1 .. Len(q) :
        i < j /\ Mine(q[i], c) /\ Mine(q[j], c) => q[i].n <= q[j].n

Line(c) == <<delivered[c], netQueue, dbQueue, received, mBuffer[c], wire[c]>>

InLine(L, c, N) ==
    /\ \A k \in 1 .. 6 : Ascending(L[k], c) /\ NumbersOf(L[k], c) \subseteq 0 .. N
    /\ \A k, l \in 1 .. 6 : k < l =>
          \A x \in NumbersOf(L[k], c), y \in NumbersOf(L[l], c) : x <= y

Lines == \A c \in Conn : InLine(Line(c), c, sent[c])

(* A place loses requests, or gets ones of other clients.                  *)
Fewer(r, q, c) == Ascending(r, c) /\ NumbersOf(r, c) \subseteq NumbersOf(q, c)

LEMMA SameIsFewer ==
  ASSUME NEW q, NEW c, Ascending(q, c)  PROVE Fewer(q, q, c)
BY DEF Fewer

LEMMA EmptyIsFewer ==
  ASSUME NEW q, NEW c  PROVE Fewer(<<>>, q, c)
<1>1. Len(<<>>) = 0 /\ 1 .. 0 = {}
  OBVIOUS
<1>. QED  BY <1>1 DEF Fewer, Ascending, NumbersOf

LEMMA AppendOther ==
  ASSUME NEW S, NEW q \in Seq(S), NEW e \in S, NEW c, Ascending(q, c), ~ Mine(e, c)
  PROVE  Fewer(Append(q, e), q, c)
<1>. DEFINE r == Append(q, e)
<1>1. /\ Len(q) \in Nat /\ Len(r) = Len(q) + 1
      /\ \A i \in 1 .. Len(r) : \/ i \in 1 .. Len(q) /\ r[i] = q[i]
                                \/ i = Len(q) + 1 /\ r[i] = e
  BY AppendElements
<1>. HIDE DEF r
<1>2. \A i \in 1 .. Len(r) : Mine(r[i], c) => i \in 1 .. Len(q) /\ r[i] = q[i]
  BY <1>1
<1>3. Ascending(r, c)
  BY <1>2 DEF Ascending
<1>4. NumbersOf(r, c) \subseteq NumbersOf(q, c)
  BY <1>2 DEF NumbersOf
<1>. QED  BY <1>3, <1>4 DEF Fewer, r

LEMMA AppendLater ==
  ASSUME NEW S, NEW q \in Seq(S), NEW e \in S, NEW c, Ascending(q, c),
         \A x \in NumbersOf(q, c) : x <= e.n
  PROVE  /\ Ascending(Append(q, e), c)
         /\ NumbersOf(Append(q, e), c) \subseteq NumbersOf(q, c) \cup {e.n}
<1>. DEFINE r == Append(q, e)
<1>1. /\ Len(q) \in Nat /\ Len(r) = Len(q) + 1
      /\ \A i \in 1 .. Len(r) : \/ i \in 1 .. Len(q) /\ r[i] = q[i]
                                \/ i = Len(q) + 1 /\ r[i] = e
  BY AppendElements
<1>. HIDE DEF r
<1>2. ASSUME NEW i \in 1 .. Len(r), NEW j \in 1 .. Len(r), i < j,
             Mine(r[i], c), Mine(r[j], c)
      PROVE  r[i].n <= r[j].n
  <2>1. i \in 1 .. Len(q) /\ r[i] = q[i]
    BY <1>1, <1>2
  <2>2. CASE j \in 1 .. Len(q) /\ r[j] = q[j]
    BY <1>2, <2>1, <2>2 DEF Ascending
  <2>3. CASE r[j] = e
    <3>1. q[i].n \in NumbersOf(q, c)
      BY <1>2, <2>1 DEF NumbersOf
    <3>. QED  BY <2>1, <2>3, <3>1
  <2>. QED  BY <1>1, <2>2, <2>3
<1>3. Ascending(r, c)
  BY <1>2 DEF Ascending
<1>4. NumbersOf(r, c) \subseteq NumbersOf(q, c) \cup {e.n}
  BY <1>1 DEF NumbersOf
<1>. QED  BY <1>3, <1>4 DEF r

(* Taking the first ones: those that stay are not earlier than they.       *)
LEMMA SuffixFewer ==
  ASSUME NEW S, NEW q \in Seq(S), NEW k \in 1 .. Len(q), NEW c, Ascending(q, c)
  PROVE  LET r == SubSeq(q, k + 1, Len(q))
         IN  /\ Fewer(r, q, c)
             /\ Mine(q[1], c) => /\ q[1].n \in NumbersOf(q, c)
                                 /\ \A y \in NumbersOf(r, c) : q[1].n <= y
<1>. DEFINE r == SubSeq(q, k + 1, Len(q))
<1>0. Len(q) \in Nat /\ k \in Nat /\ k >= 1 /\ k <= Len(q)
  BY LenProperties
<1>1. /\ Len(r) = Len(q) - k
      /\ \A j \in 1 .. Len(r) : r[j] = q[k + j]
  <2>1. \A i \in k + 1 .. Len(q) : q[i] \in S
    BY <1>0, ElementOfSeq
  <2>2. /\ Len(r) = IF k + 1 <= Len(q) THEN Len(q) - (k + 1) + 1 ELSE 0
        /\ \A j \in 1 .. Len(q) - (k + 1) + 1 : r[j] = q[(k + 1) + j - 1]
    BY <1>0, <2>1, SubSeqProperties
  <2>. QED  BY <1>0, <2>2
<1>. HIDE DEF r
<1>2. \A j \in 1 .. Len(r) : k + j \in 1 .. Len(q) /\ r[j] = q[k + j]
  BY <1>0, <1>1
<1>3. Ascending(r, c)
  <2>. SUFFICES ASSUME NEW i \in 1 .. Len(r), NEW j \in 1 .. Len(r), i < j,
                       Mine(r[i], c), Mine(r[j], c)
                PROVE  r[i].n <= r[j].n
    BY DEF Ascending
  <2>1. k + i < k + j
    BY <1>0
  <2>. QED  BY <1>2, <2>1 DEF Ascending
<1>4. NumbersOf(r, c) \subseteq NumbersOf(q, c)
  BY <1>2 DEF NumbersOf
<1>5. ASSUME Mine(q[1], c)
      PROVE  q[1].n \in NumbersOf(q, c) /\ \A y \in NumbersOf(r, c) : q[1].n <= y
  <2>1. 1 \in 1 .. Len(q)
    BY <1>0
  <2>2. ASSUME NEW y \in NumbersOf(r, c)  PROVE q[1].n <= y
    <3>1. PICK j \in 1 .. Len(r) : Mine(r[j], c) /\ y = r[j].n
      BY <2>2 DEF NumbersOf
    <3>2. 1 < k + j
      BY <1>0
    <3>. QED  BY <1>2, <1>5, <2>1, <3>1, <3>2 DEF Ascending
  <2>. QED  BY <1>5, <2>1, <2>2 DEF NumbersOf
<1>. QED  BY <1>3, <1>4, <1>5 DEF Fewer, r

LEMMA TailFewer ==
  ASSUME NEW S, NEW q \in Seq(S), q # <<>>, NEW c, Ascending(q, c)
  PROVE  /\ Fewer(Tail(q), q, c)
         /\ Mine(Head(q), c) =>
               /\ Head(q).n \in NumbersOf(q, c)
               /\ \A y \in NumbersOf(Tail(q), c) : Head(q).n <= y
<1>1. /\ Len(q) \in Nat /\ 1 \in 1 .. Len(q) /\ Head(q) = q[1]
      /\ \A i \in 1 .. Len(Tail(q)) : i + 1 \in 1 .. Len(q) /\ Tail(q)[i] = q[i + 1]
  BY TailElements
<1>2. Ascending(Tail(q), c)
  <2>. SUFFICES ASSUME NEW i \in 1 .. Len(Tail(q)), NEW j \in 1 .. Len(Tail(q)),
                       i < j, Mine(Tail(q)[i], c), Mine(Tail(q)[j], c)
                PROVE  Tail(q)[i].n <= Tail(q)[j].n
    BY DEF Ascending
  <2>1. i + 1 < j + 1
    OBVIOUS
  <2>. QED  BY <1>1, <2>1 DEF Ascending
<1>3. NumbersOf(Tail(q), c) \subseteq NumbersOf(q, c)
  BY <1>1 DEF NumbersOf
<1>4. ASSUME Mine(q[1], c)
      PROVE  /\ q[1].n \in NumbersOf(q, c)
             /\ \A y \in NumbersOf(Tail(q), c) : q[1].n <= y
  <2>1. ASSUME NEW y \in NumbersOf(Tail(q), c)  PROVE q[1].n <= y
    <3>1. PICK j \in 1 .. Len(Tail(q)) : Mine(Tail(q)[j], c) /\ y = Tail(q)[j].n
      BY <2>1 DEF NumbersOf
    <3>2. 1 < j + 1
      OBVIOUS
    <3>. QED  BY <1>1, <1>4, <3>1, <3>2 DEF Ascending
  <2>. QED  BY <1>1, <1>4, <2>1 DEF NumbersOf
<1>. QED  BY <1>1, <1>2, <1>3, <1>4 DEF Fewer

(* Nothing of this client's moves on, or one request moves to place k.     *)
LEMMA LineFewer ==
  ASSUME NEW L, NEW M, NEW c, NEW N, InLine(L, c, N),
         \A k \in 1 .. 6 : Fewer(M[k], L[k], c)
  PROVE  InLine(M, c, N)
BY DEF InLine, Fewer

LEMMA LineMoves ==
  ASSUME NEW L, NEW M, NEW c, NEW N, InLine(L, c, N), NEW k \in 1 .. 6,
         NEW P \in Nat, N \in Nat, N <= P, NEW x \in 0 .. P,
         \A l \in 1 .. 6 : l # k => Fewer(M[l], L[l], c),
         Ascending(M[k], c), NumbersOf(M[k], c) \subseteq NumbersOf(L[k], c) \cup {x},
         \A l \in 1 .. 6 : l < k => \A y \in NumbersOf(L[l], c) : y <= x,
         \A l \in 1 .. 6 : k < l => \A y \in NumbersOf(M[l], c) : x <= y
  PROVE  InLine(M, c, P)
<1>1. \A l \in 1 .. 6 : Ascending(M[l], c)
  BY DEF Fewer
<1>2. \A l \in 1 .. 6 : NumbersOf(M[l], c) \subseteq NumbersOf(L[l], c)
                           \cup IF l = k THEN {x} ELSE {}
  BY DEF Fewer
<1>3. \A l \in 1 .. 6 : NumbersOf(M[l], c) \subseteq 0 .. P
  <2>1. 0 .. N \subseteq 0 .. P
    OBVIOUS
  <2>. QED  BY <1>2, <2>1 DEF InLine
<1>4. ASSUME NEW l \in 1 .. 6, NEW m \in 1 .. 6, l < m,
             NEW y \in NumbersOf(M[l], c), NEW z \in NumbersOf(M[m], c)
      PROVE  y <= z
  <2>1. CASE y \in NumbersOf(L[l], c) /\ z \in NumbersOf(L[m], c)
    BY <1>4, <2>1 DEF InLine
  <2>2. CASE l = k /\ y = x
    BY <1>4, <2>2
  <2>3. CASE m = k /\ z = x /\ l # k
    <3>1. y \in NumbersOf(L[l], c)
      BY <1>2, <2>3
    <3>. QED  BY <1>4, <2>3, <3>1
  <2>. QED  BY <1>2, <1>4, <2>1, <2>2, <2>3
<1>. QED  BY <1>1, <1>3, <1>4 DEF InLine

LEMMA LinePlaces ==
  ASSUME NEW c \in Conn
  PROVE  /\ 1 \in 1 .. 6 /\ Line(c)[1] = delivered[c]
         /\ 2 \in 1 .. 6 /\ Line(c)[2] = netQueue
         /\ 3 \in 1 .. 6 /\ Line(c)[3] = dbQueue
         /\ 4 \in 1 .. 6 /\ Line(c)[4] = received
         /\ 5 \in 1 .. 6 /\ Line(c)[5] = mBuffer[c]
         /\ 6 \in 1 .. 6 /\ Line(c)[6] = wire[c]
         /\ \A k \in 1 .. 6 : k = 1 \/ k = 2 \/ k = 3 \/ k = 4 \/ k = 5 \/ k = 6
BY DEF Line

LEMMA LineAscending ==
  ASSUME Lines, NEW c \in Conn
  PROVE  /\ Ascending(delivered[c], c) /\ Ascending(netQueue, c)
         /\ Ascending(dbQueue, c) /\ Ascending(received, c)
         /\ Ascending(mBuffer[c], c) /\ Ascending(wire[c], c)
<1>1. \A k \in 1 .. 6 : Ascending(Line(c)[k], c)
  BY DEF Lines, InLine
<1>. QED  BY <1>1, LinePlaces

(* The elements of the places that all clients' requests share are events, *)
(* and every place of a client's own holds requests.                       *)
LEMMA LineTypes ==
  ASSUME IInv, NEW c \in Conn
  PROVE  /\ delivered[c] \in Seq(Request) /\ netQueue \in Seq(Request)
         /\ dbQueue \in Seq(DbEvent) /\ received \in Seq(Request)
         /\ mBuffer[c] \in Seq(Request) /\ wire[c] \in Seq(Request)
         /\ sent[c] \in Nat
<1>1. sent[c] \in 0 .. MaxRequest
  BY DEF IInv, TypeOK
<1>. QED  BY <1>1 DEF IInv, TypeOK

(* What WELCOME and REMOVE_MACHINE do to the database's queue.             *)
LEMMA AccountEventFewer ==
  ASSUME IInv, Lines, NEW c \in Conn, NEW e \in AccountEvent
  PROVE  Fewer(Append(dbQueue, e), dbQueue, c)
<1>1. e \in DbEvent /\ ~ Mine(e, c)
  BY DEF AccountEvent, DbEvent, Mine, Replied
<1>. QED  BY <1>1, LineTypes, LineAscending, AppendOther

LEMMA LineStays ==
  ASSUME Lines, NEW c \in Conn, sent'[c] = sent[c],
         Fewer(delivered'[c], delivered[c], c), Fewer(netQueue', netQueue, c),
         Fewer(dbQueue', dbQueue, c), Fewer(received', received, c),
         Fewer(mBuffer'[c], mBuffer[c], c), Fewer(wire'[c], wire[c], c)
  PROVE  InLine(Line(c), c, sent[c])'
<1>. DEFINE M == Line(c)'
<1>1. /\ M[1] = delivered'[c] /\ M[2] = netQueue' /\ M[3] = dbQueue'
      /\ M[4] = received' /\ M[5] = mBuffer'[c] /\ M[6] = wire'[c]
  BY DEF Line
<1>. HIDE DEF M
<1>2. ASSUME NEW k \in 1 .. 6  PROVE Fewer(M[k], Line(c)[k], c)
  BY <1>1, LinePlaces
<1>3. InLine(Line(c), c, sent[c])
  BY DEF Lines
<1>4. InLine(M, c, sent[c])
  BY <1>2, <1>3, LineFewer
<1>. QED  BY <1>4 DEF M, InLine

(* The machines' part of what a send does.                                 *)
LEMMA TCPSendLine ==
  ASSUME IInv, Lines, NEW c \in Conn, NEW i \in 1 .. Len(mMachines), NEW ev,
         TCPSendDone(i, ev) \/ TCPSendFails(i)
  PROVE  /\ Fewer(dbQueue', dbQueue, c)
         /\ delivered'[c] = delivered[c] \/ delivered'[c] = Append(delivered[c], ev)
<1>1. CASE TCPSendDone(i, ev)
  <2>1. dbQueue' = dbQueue
    BY <1>1 DEF TCPSendDone
  <2>2. delivered'[c] = delivered[c] \/ delivered'[c] = Append(delivered[c], ev)
    BY <1>1 DEF TCPSendDone, IInv, TypeOK
  <2>. QED  BY <2>1, <2>2, LineAscending, SameIsFewer
<1>2. CASE TCPSendFails(i)
  <2>. DEFINE e == [kind |-> "REMOVE_MACHINE", conn |-> mMachines[i].conn]
  <2>1. e \in AccountEvent
    BY MachineType DEF IInv, AccountEvent
  <2>2. dbQueue' = Append(dbQueue, e) /\ delivered' = delivered
    BY <1>2 DEF TCPSendFails
  <2>. HIDE DEF e
  <2>. QED  BY <2>1, <2>2, AccountEventFewer
<1>. QED  BY <1>1, <1>2

(* A send of something the database does not reply with.                   *)
LEMMA TCPSendOther ==
  ASSUME IInv, Lines, NEW c \in Conn, NEW i \in 1 .. Len(mMachines),
         NEW ev \in Request, ~ Mine(ev, c), TCPSendDone(i, ev) \/ TCPSendFails(i)
  PROVE  Fewer(dbQueue', dbQueue, c) /\ Fewer(delivered'[c], delivered[c], c)
<1>1. Fewer(Append(delivered[c], ev), delivered[c], c)
  BY LineTypes, LineAscending, AppendOther
<1>2. Fewer(delivered[c], delivered[c], c)
  BY LineAscending, SameIsFewer
<1>. QED  BY <1>1, <1>2, TCPSendLine

LEMMA InitLines == Init => Lines
<1>. SUFFICES ASSUME Init, NEW c \in Conn  PROVE InLine(Line(c), c, sent[c])
  BY DEF Lines
<1>1. /\ delivered[c] = <<>> /\ netQueue = <<>> /\ dbQueue = <<>> /\ received = <<>>
      /\ mBuffer[c] = <<>> /\ wire[c] = <<>>
  BY DEF Init
<1>2. \A k \in 1 .. 6 : Line(c)[k] = <<>>
  BY <1>1, LinePlaces
<1>3. Ascending(<<>>, c) /\ NumbersOf(<<>>, c) = {}
  <2>1. Fewer(<<>>, <<>>, c)
    BY EmptyIsFewer
  <2>2. 1 .. Len(<<>>) = {}
    OBVIOUS
  <2>. QED  BY <2>1, <2>2 DEF Fewer, NumbersOf
<1>. QED  BY <1>2, <1>3 DEF InLine

LEMMA ClientSendsLine ==
  ASSUME IInv, Lines, NEW d \in Conn, ClientSends(d), NEW c \in Conn
  PROVE  InLine(Line(c), c, sent[c])'
<1>0. UNCHANGED <<mBuffer, received, dbQueue, netQueue, delivered>>
  BY DEF ClientSends, engineQueues
<1>1. PICK k \in Kind, id \in OwnStamp : wire' = [wire EXCEPT ![d] = Append(@,
                      [kind |-> k, from |-> d, n |-> sent[d] + 1, stamp |-> id,
                       marked |-> FALSE])]
  BY DEF ClientSends
<1>2. sent' = [sent EXCEPT ![d] = @ + 1]
  BY DEF ClientSends
<1>3. /\ Fewer(delivered'[c], delivered[c], c) /\ Fewer(netQueue', netQueue, c)
      /\ Fewer(dbQueue', dbQueue, c) /\ Fewer(received', received, c)
      /\ Fewer(mBuffer'[c], mBuffer[c], c)
  BY <1>0, LineAscending, SameIsFewer
<1>4. CASE d # c
  <2>1. wire'[c] = wire[c] /\ sent'[c] = sent[c]
    BY <1>1, <1>2, <1>4 DEF IInv, TypeOK
  <2>. QED  BY <1>3, <2>1, LineAscending, SameIsFewer, LineStays
<1>5. CASE d = c
  <2>. DEFINE e == [kind |-> k, from |-> c, n |-> sent[c] + 1, stamp |-> id,
                    marked |-> FALSE]
              L == Line(c)
              M == Line(c)'
  <2>1. sent[c] \in Nat /\ sent'[c] = sent[c] + 1 /\ wire'[c] = Append(wire[c], e)
    BY <1>1, <1>2, <1>5, LineTypes DEF IInv, TypeOK
  <2>2. e \in Request /\ e.n = sent[c] + 1
    BY <2>1, MachinesAssumption DEF Request
  <2>3. InLine(L, c, sent[c])
    BY DEF Lines
  <2>4. \A l \in 1 .. 6 : \A y \in NumbersOf(L[l], c) : y <= e.n
    <3>1. \A y \in 0 .. sent[c] : y <= sent[c] + 1
      BY <2>1
    <3>. QED  BY <2>2, <2>3, <3>1 DEF InLine
  <2>5. /\ Ascending(wire'[c], c)
        /\ NumbersOf(wire'[c], c) \subseteq NumbersOf(wire[c], c) \cup {e.n}
    <3>1. \A y \in NumbersOf(wire[c], c) : y <= e.n
      BY <2>4, LinePlaces
    <3>. HIDE DEF e
    <3>. QED  BY <2>1, <2>2, <3>1, LineTypes, LineAscending, AppendLater
  <2>6. /\ M[1] = delivered'[c] /\ M[2] = netQueue' /\ M[3] = dbQueue'
        /\ M[4] = received' /\ M[5] = mBuffer'[c] /\ M[6] = wire'[c]
    BY DEF Line
  <2>. HIDE DEF e, L, M
  <2>7. ASSUME NEW l \in 1 .. 6, l # 6  PROVE Fewer(M[l], L[l], c)
    BY <1>3, <2>6, <2>7, LinePlaces DEF L
  <2>8. Ascending(M[6], c) /\ NumbersOf(M[6], c) \subseteq NumbersOf(L[6], c) \cup {e.n}
    BY <2>5, <2>6, LinePlaces DEF L
  <2>9. sent'[c] \in Nat /\ sent[c] <= sent'[c] /\ e.n \in 0 .. sent'[c]
        /\ 6 \in 1 .. 6 /\ \A l \in 1 .. 6 : ~ (6 < l)
    BY <2>1, <2>2
  <2>10. InLine(M, c, sent'[c])
    BY <2>1, <2>3, <2>4, <2>7, <2>8, <2>9, LineMoves
  <2>. QED  BY <2>10 DEF M, InLine
<1>. QED  BY <1>4, <1>5

(* One request of c's moves from place k + 1 to place k, whose head or     *)
(* first element it was.                                                   *)
LEMMA LineStep ==
  ASSUME IInv, Lines, NEW c \in Conn, sent'[c] = sent[c], NEW k \in 1 .. 5,
         NEW x \in NumbersOf(Line(c)[k + 1], c),
         \A y \in NumbersOf(Line(c)'[k + 1], c) : x <= y,
         \A l \in 1 .. 6 : l # k => Fewer(Line(c)'[l], Line(c)[l], c),
         Ascending(Line(c)'[k], c),
         NumbersOf(Line(c)'[k], c) \subseteq NumbersOf(Line(c)[k], c) \cup {x}
  PROVE  InLine(Line(c), c, sent[c])'
<1>. DEFINE L == Line(c)
            M == Line(c)'
<1>1. InLine(L, c, sent[c]) /\ sent[c] \in Nat
  BY LineTypes DEF Lines
<1>. HIDE DEF L, M
<1>2. /\ k \in 1 .. 6 /\ k + 1 \in 1 .. 6 /\ k < k + 1
      /\ \A l \in 1 .. 6 : l < k => l < k + 1
      /\ \A l \in 1 .. 6 : k < l => l = k + 1 \/ k + 1 < l
  OBVIOUS
<1>3. x \in 0 .. sent[c]
  BY <1>1, <1>2 DEF InLine, L
<1>4. \A l \in 1 .. 6 : l < k => \A y \in NumbersOf(L[l], c) : y <= x
  BY <1>1, <1>2 DEF InLine, L
<1>5. ASSUME NEW l \in 1 .. 6, k < l, NEW y \in NumbersOf(M[l], c)  PROVE x <= y
  <2>1. CASE l = k + 1
    BY <1>5, <2>1 DEF M
  <2>2. CASE k + 1 < l
    <3>1. y \in NumbersOf(L[l], c)
      BY <1>5 DEF Fewer, L, M
    <3>. QED  BY <1>1, <1>2, <2>2, <3>1 DEF InLine, L
  <2>. QED  BY <1>2, <1>5, <2>1, <2>2
<1>6. \A l \in 1 .. 6 : l # k => Fewer(M[l], L[l], c)
  BY DEF L, M
<1>7. Ascending(M[k], c) /\ NumbersOf(M[k], c) \subseteq NumbersOf(L[k], c) \cup {x}
  BY DEF L, M
<1>8. sent[c] <= sent[c]
  BY <1>1
<1>9. InLine(M, c, sent[c])
  BY <1>1, <1>2, <1>3, <1>4, <1>5, <1>6, <1>7, <1>8, LineMoves
<1>. QED  BY <1>9 DEF M, InLine

(* An element of place k + 1 is not earlier than any of place k.           *)
LEMMA NotEarlier ==
  ASSUME Lines, NEW c \in Conn, NEW k \in 1 .. 5,
         NEW x \in NumbersOf(Line(c)[k + 1], c)
  PROVE  \A y \in NumbersOf(Line(c)[k], c) : y <= x
<1>1. k \in 1 .. 6 /\ k + 1 \in 1 .. 6 /\ k < k + 1
  OBVIOUS
<1>. QED  BY <1>1 DEF Lines, InLine

LEMMA LinePrimes ==
  ASSUME NEW c \in Conn
  PROVE  /\ Line(c)'[1] = delivered'[c] /\ Line(c)'[2] = netQueue'
         /\ Line(c)'[3] = dbQueue' /\ Line(c)'[4] = received'
         /\ Line(c)'[5] = mBuffer'[c] /\ Line(c)'[6] = wire'[c]
BY DEF Line

LEMMA OneElement ==
  ASSUME NEW q, NEW e, NEW c, Len(q) = 1, q[1] = e
  PROVE  /\ Ascending(q, c) /\ NumbersOf(q, c) \subseteq {e.n}
         /\ ~ Mine(e, c) => NumbersOf(q, c) = {}
<1>1. 1 .. Len(q) = {1}
  OBVIOUS
<1>. QED  BY <1>1 DEF Ascending, NumbersOf

LEMMA ReceiveLine ==
  ASSUME IInv, Lines, NEW d \in Conn, Receive(d), NEW c \in Conn
  PROVE  InLine(Line(c), c, sent[c])'
<1>. DEFINE h == Head(wire[d])
<1>0. UNCHANGED <<sent, received, dbQueue, netQueue, delivered>>
  BY DEF Receive, engineQueues
<1>1. PICK k \in 1 .. Len(wire[d]) :
          wire' = [wire EXCEPT ![d] = SubSeq(@, k + 1, Len(@))]
  BY DEF Receive
<1>2. PICK first \in {<<h>>, <<>>} : mBuffer' = [mBuffer EXCEPT ![d] = first]
  BY DEF Receive
<1>3. /\ Fewer(delivered'[c], delivered[c], c) /\ Fewer(netQueue', netQueue, c)
      /\ Fewer(dbQueue', dbQueue, c) /\ Fewer(received', received, c)
      /\ sent'[c] = sent[c]
  BY <1>0, LineAscending, SameIsFewer
<1>4. CASE d # c
  <2>1. wire'[c] = wire[c] /\ mBuffer'[c] = mBuffer[c]
    BY <1>1, <1>2, <1>4 DEF IInv, TypeOK
  <2>. QED  BY <1>3, <2>1, LineAscending, SameIsFewer, LineStays
<1>5. CASE d = c
  <2>1. wire'[c] = SubSeq(wire[c], k + 1, Len(wire[c])) /\ mBuffer'[c] = first
    BY <1>1, <1>2, <1>5 DEF IInv, TypeOK
  <2>2. k \in 1 .. Len(wire[c]) /\ h = wire[c][1]
    BY <1>5
  <2>3. /\ Fewer(wire'[c], wire[c], c)
        /\ Mine(h, c) => /\ h.n \in NumbersOf(wire[c], c)
                         /\ \A y \in NumbersOf(wire'[c], c) : h.n <= y
    BY <2>1, <2>2, LineTypes, LineAscending, SuffixFewer
  <2>. HIDE DEF h
  <2>7. ASSUME first = <<h>>
        PROVE  /\ Ascending(mBuffer'[c], c) /\ NumbersOf(mBuffer'[c], c) \subseteq {h.n}
               /\ ~ Mine(h, c) => NumbersOf(mBuffer'[c], c) = {}
    <3>1. Len(mBuffer'[c]) = 1 /\ mBuffer'[c][1] = h
      BY <2>1, <2>7
    <3>. QED  BY <3>1, OneElement
  <2>4. CASE first = <<h>> /\ Mine(h, c)
    <3>1. /\ Ascending(mBuffer'[c], c)
          /\ NumbersOf(mBuffer'[c], c) \subseteq NumbersOf(mBuffer[c], c) \cup {h.n}
      BY <2>4, <2>7
    <3>2. /\ h.n \in NumbersOf(Line(c)[5 + 1], c)
          /\ \A y \in NumbersOf(Line(c)'[5 + 1], c) : h.n <= y
          /\ Ascending(Line(c)'[5], c)
          /\ NumbersOf(Line(c)'[5], c) \subseteq NumbersOf(Line(c)[5], c) \cup {h.n}
      BY <2>3, <2>4, <3>1, LinePlaces, LinePrimes
    <3>3. ASSUME NEW l \in 1 .. 6, l # 5  PROVE Fewer(Line(c)'[l], Line(c)[l], c)
      BY <1>3, <2>3, <3>3, LinePlaces, LinePrimes
    <3>4. 5 \in 1 .. 5
      OBVIOUS
    <3>. QED  BY <1>3, <3>2, <3>3, <3>4, LineStep
  <2>5. CASE first = <<h>> /\ ~ Mine(h, c)
    <3>1. Fewer(mBuffer'[c], mBuffer[c], c)
      BY <2>5, <2>7 DEF Fewer
    <3>. QED  BY <1>3, <2>3, <3>1, LineStays
  <2>6. CASE first = <<>>
    BY <1>3, <2>1, <2>3, <2>6, EmptyIsFewer, LineStays
  <2>. QED  BY <2>4, <2>5, <2>6
<1>. QED  BY <1>4, <1>5

LEMMA AsyncReadLine ==
  ASSUME IInv, Lines, NEW d \in Conn, AsyncRead(d), NEW c \in Conn
  PROVE  InLine(Line(c), c, sent[c])'
<1>0. UNCHANGED <<wire, sent, dbQueue, netQueue, delivered>>
  BY DEF AsyncRead
<1>1. mBuffer'[c] = mBuffer[c] \/ mBuffer'[c] = <<>>
  BY DEF AsyncRead, IInv, TypeOK
<1>2. /\ Fewer(delivered'[c], delivered[c], c) /\ Fewer(netQueue', netQueue, c)
      /\ Fewer(dbQueue', dbQueue, c) /\ Fewer(mBuffer'[c], mBuffer[c], c)
      /\ Fewer(wire'[c], wire[c], c) /\ sent'[c] = sent[c]
  BY <1>0, <1>1, LineAscending, SameIsFewer, EmptyIsFewer
<1>3. CASE received' = received
  BY <1>2, <1>3, LineAscending, SameIsFewer, LineStays
<1>4. CASE mBuffer[d] # <<>> /\ received' = Append(received, StampedBy(mBuffer[d][1], d))
  <2>. DEFINE h == mBuffer[d][1]
              e == StampedBy(h, d)
  <2>1. 1 \in 1 .. Len(mBuffer[d]) /\ h \in Request /\ h.from = d
    <3>1. mBuffer[d] \in Seq(OnWire(d)) /\ mBuffer[d] # <<>>
      BY <1>4 DEF IInv, EventsTraceable
    <3>2. 1 \in 1 .. Len(mBuffer[d])
      BY <3>1, LenProperties, EmptySeq
    <3>3. h \in OnWire(d)
      BY <3>1, <3>2, ElementOfSeq
    <3>. QED  BY <3>2, <3>3 DEF OnWire
  <2>2. e \in Request /\ e.from = d /\ e.n = h.n /\ e.kind = h.kind
    BY <2>1 DEF StampedBy, Request, IInv, TypeOK
  <2>3. received' = Append(received, e)
    BY <1>4
  <2>. HIDE DEF e
  <2>4. CASE ~ Mine(e, c)
    <3>1. Fewer(received', received, c)
      BY <2>2, <2>3, <2>4, LineTypes, LineAscending, AppendOther
    <3>. QED  BY <1>2, <3>1, LineStays
  <2>5. CASE Mine(e, c)
    <3>1. d = c /\ Mine(mBuffer[c][1], c) /\ e.n = mBuffer[c][1].n /\ e.n \in Nat
          /\ 1 \in 1 .. Len(mBuffer[c])
      BY <2>1, <2>2, <2>5 DEF Mine, Request
    <3>2. e.n \in NumbersOf(mBuffer[c], c)
      BY <3>1 DEF NumbersOf
    <3>3. ASSUME NEW y \in NumbersOf(mBuffer'[c], c)  PROVE e.n <= y
      <4>1. y \in NumbersOf(mBuffer[c], c)
        BY <1>2 DEF Fewer
      <4>2. PICK j \in 1 .. Len(mBuffer[c]) :
                Mine(mBuffer[c][j], c) /\ y = mBuffer[c][j].n
        BY <4>1 DEF NumbersOf
      <4>3. CASE j = 1
        BY <3>1, <4>2, <4>3
      <4>4. CASE 1 < j
        BY <3>1, <4>2, <4>4, LineAscending DEF Ascending
      <4>. QED  BY <4>2, <4>3, <4>4
    <3>4. 4 \in 1 .. 5 /\ e.n \in NumbersOf(Line(c)[4 + 1], c)
          /\ \A y \in NumbersOf(Line(c)'[4 + 1], c) : e.n <= y
      BY <3>2, <3>3, LinePlaces, LinePrimes
    <3>5. \A y \in NumbersOf(received, c) : y <= e.n
      <4>1. \A y \in NumbersOf(Line(c)[4], c) : y <= e.n
        BY <3>4, NotEarlier
      <4>. QED  BY <4>1, LinePlaces
    <3>6. /\ Ascending(received', c)
          /\ NumbersOf(received', c) \subseteq NumbersOf(received, c) \cup {e.n}
      BY <2>2, <2>3, <3>5, LineTypes, LineAscending, AppendLater
    <3>7. /\ Ascending(Line(c)'[4], c)
          /\ NumbersOf(Line(c)'[4], c) \subseteq NumbersOf(Line(c)[4], c) \cup {e.n}
      BY <3>6, LinePlaces, LinePrimes
    <3>8. ASSUME NEW l \in 1 .. 6, l # 4  PROVE Fewer(Line(c)'[l], Line(c)[l], c)
      BY <1>2, <3>8, LinePlaces, LinePrimes
    <3>. QED  BY <1>2, <3>4, <3>7, <3>8, LineStep
  <2>. QED  BY <2>4, <2>5
<1>. QED  BY <1>3, <1>4 DEF AsyncRead

(* Closing a connection, accepting or rejecting one, and a send that waits *)
(* for ever move no request.                                               *)
LEMMA NetworkOtherLine ==
  ASSUME IInv, Lines, NEW d \in Conn,
         ClientCloses(d) \/ AcceptAuth(d) \/ RejectAuth(d) \/ SendWaits(d),
         NEW c \in Conn
  PROVE  InLine(Line(c), c, sent[c])'
<1>1. /\ UNCHANGED <<wire, mBuffer, sent, netQueue, delivered>>
      /\ received' = received \/ (received # <<>> /\ received' = Tail(received))
  BY ProcessAuthTakes DEF ClientCloses, AcceptAuth, RejectAuth, SendWaits, engineQueues
<1>2. Fewer(dbQueue', dbQueue, c)
  <2>1. CASE ClientCloses(d) \/ RejectAuth(d) \/ SendWaits(d)
    BY <2>1, LineAscending, SameIsFewer
       DEF ClientCloses, RejectAuth, SendWaits, engineQueues
  <2>2. CASE AcceptAuth(d)
    <3>1. [kind |-> "WELCOME", conn |-> d] \in AccountEvent
      BY DEF AccountEvent
    <3>. QED  BY <2>2, <3>1, AccountEventFewer DEF AcceptAuth
  <2>. QED  BY <2>1, <2>2
<1>. QED  BY <1>1, <1>2, LineTypes, LineAscending, SameIsFewer, TailFewer, LineStays

(* The head of place k + 1 is appended to place k.                         *)
LEMMA HeadMoves ==
  ASSUME IInv, Lines, NEW c \in Conn, sent'[c] = sent[c], NEW k \in 1 .. 5,
         NEW S, NEW q \in Seq(S), q = Line(c)[k],
         NEW T, NEW r \in Seq(T), r = Line(c)[k + 1], r # <<>>,
         Head(r) \in S, Line(c)'[k] = Append(q, Head(r)), Line(c)'[k + 1] = Tail(r),
         \A l \in 1 .. 6 : l # k /\ l # k + 1 => Fewer(Line(c)'[l], Line(c)[l], c)
  PROVE  InLine(Line(c), c, sent[c])'
<1>. DEFINE x == Head(r)
            L == Line(c)
            M == Line(c)'
<1>1. k \in 1 .. 6 /\ k + 1 \in 1 .. 6
  OBVIOUS
<1>2. InLine(L, c, sent[c]) /\ Ascending(q, c) /\ Ascending(r, c)
  BY <1>1 DEF Lines, InLine
<1>3. /\ Fewer(Tail(r), r, c)
      /\ Mine(x, c) => /\ x.n \in NumbersOf(r, c)
                       /\ \A y \in NumbersOf(Tail(r), c) : x.n <= y
  BY <1>2, TailFewer
<1>4. L[k] = q /\ L[k + 1] = r /\ M[k] = Append(q, x) /\ M[k + 1] = Tail(r) /\ x \in S
  OBVIOUS
<1>5. CASE Mine(x, c)
  <2>1. x.n \in NumbersOf(Line(c)[k + 1], c)
    BY <1>3, <1>5
  <2>2. \A y \in NumbersOf(q, c) : y <= x.n
    BY <2>1, NotEarlier
  <2>. HIDE DEF x
  <2>3. /\ Ascending(Append(q, x), c)
        /\ NumbersOf(Append(q, x), c) \subseteq NumbersOf(q, c) \cup {x.n}
    BY <1>2, <1>4, <2>2, AppendLater
  <2>. HIDE DEF L, M
  <2>4. \A l \in 1 .. 6 : l # k => Fewer(M[l], L[l], c)
    BY <1>3, <1>4 DEF L, M
  <2>5. /\ Ascending(M[k], c) /\ NumbersOf(M[k], c) \subseteq NumbersOf(L[k], c) \cup {x.n}
        /\ \A y \in NumbersOf(M[k + 1], c) : x.n <= y
    BY <1>3, <1>4, <1>5, <2>3
  <2>. QED  BY <2>1, <2>4, <2>5, LineStep DEF L, M
<1>6. CASE ~ Mine(x, c)
  <2>. HIDE DEF x
  <2>1. Fewer(Append(q, x), q, c)
    BY <1>2, <1>4, <1>6, AppendOther
  <2>. HIDE DEF L, M
  <2>2. \A l \in 1 .. 6 : Fewer(M[l], L[l], c)
    BY <1>3, <1>4, <2>1 DEF L, M
  <2>3. InLine(M, c, sent[c])
    BY <1>2, <2>2, LineFewer
  <2>. QED  BY <2>3 DEF M, InLine
<1>. QED  BY <1>5, <1>6

LEMMA ProcessQueueLine ==
  ASSUME IInv, Lines, ProcessQueue, NEW c \in Conn
  PROVE  InLine(Line(c), c, sent[c])'
<1>0. TakeReply
  BY DEF ProcessQueue, ReplySent, ReplyDropped
<1>1. /\ UNCHANGED <<wire, mBuffer, sent, received>>
      /\ netQueue # <<>> /\ netQueue' = Tail(netQueue)
  BY <1>0 DEF TakeReply, clientVars
<1>2. /\ Fewer(received', received, c) /\ Fewer(mBuffer'[c], mBuffer[c], c)
      /\ Fewer(wire'[c], wire[c], c) /\ Fewer(netQueue', netQueue, c)
      /\ sent'[c] = sent[c]
  BY <1>1, LineTypes, LineAscending, SameIsFewer, TailFewer
<1>3. /\ Fewer(dbQueue', dbQueue, c)
      /\ delivered'[c] = delivered[c] \/ delivered'[c] = Append(delivered[c], Reply)
  <2>1. CASE ReplySent
    <3>1. PICK i \in Registered(Reply.stamp) :
              TCPSendDone(i, Reply) \/ TCPSendFails(i)
      BY <2>1 DEF ReplySent
    <3>2. i \in 1 .. Len(mMachines)
      BY DEF Registered
    <3>. QED  BY <3>1, <3>2, TCPSendLine
  <2>2. CASE ReplyDropped
    BY <2>2, LineAscending, SameIsFewer DEF ReplyDropped
  <2>. QED  BY <2>1, <2>2 DEF ProcessQueue
<1>4. CASE delivered'[c] = delivered[c]
  BY <1>2, <1>3, <1>4, LineAscending, SameIsFewer, LineStays
<1>5. CASE delivered'[c] = Append(delivered[c], Reply)
  <2>1. /\ 1 \in 1 .. 5 /\ 1 + 1 = 2
        /\ delivered[c] = Line(c)[1] /\ netQueue = Line(c)[1 + 1]
        /\ Line(c)'[1] = Append(delivered[c], Head(netQueue))
        /\ Line(c)'[1 + 1] = Tail(netQueue)
    BY <1>1, <1>5, LinePlaces, LinePrimes DEF Reply
  <2>2. ASSUME NEW l \in 1 .. 6, l # 1, l # 1 + 1
        PROVE  Fewer(Line(c)'[l], Line(c)[l], c)
    BY <1>2, <1>3, <2>2, LinePlaces, LinePrimes
  <2>3. /\ delivered[c] \in Seq(Request) /\ netQueue \in Seq(Request)
        /\ Head(netQueue) \in Request
    BY <1>1, LineTypes, QueueHeads DEF Reply
  <2>. QED  BY <1>1, <1>2, <2>1, <2>2, <2>3, HeadMoves
<1>. QED  BY <1>3, <1>4, <1>5

LEMMA ProcessReceivedLine ==
  ASSUME IInv, Lines, ProcessReceivedEvent, NEW c \in Conn
  PROVE  InLine(Line(c), c, sent[c])'
<1>1. /\ UNCHANGED <<wire, mBuffer, sent, netQueue>>
      /\ received' = received \/ (received # <<>> /\ received' = Tail(received))
  BY DEF ProcessReceivedEvent, ForwardToDataBase, PingAnswered, NothingToDo,
         PingAsserts, AuthIgnored, AuthReceived, ChatBegins, ChatTurn, ChatEnds,
         TakeReceived, clientVars, engineQueues
<1>2. /\ Fewer(received', received, c) /\ Fewer(mBuffer'[c], mBuffer[c], c)
      /\ Fewer(wire'[c], wire[c], c) /\ Fewer(netQueue', netQueue, c)
      /\ sent'[c] = sent[c]
  BY <1>1, LineTypes, LineAscending, SameIsFewer, TailFewer
<1>3. CASE ForwardToDataBase
  <2>1. /\ received # <<>> /\ received' = Tail(received)
        /\ dbQueue' = Append(dbQueue, Ev) /\ delivered' = delivered
    BY <1>3 DEF ForwardToDataBase, TakeReceived
  <2>2. /\ 3 \in 1 .. 5 /\ 3 + 1 = 4
        /\ dbQueue = Line(c)[3] /\ received = Line(c)[3 + 1]
        /\ Line(c)'[3] = Append(dbQueue, Head(received))
        /\ Line(c)'[3 + 1] = Tail(received)
    BY <2>1, LinePlaces, LinePrimes DEF Ev
  <2>3. ASSUME NEW l \in 1 .. 6, l # 3, l # 3 + 1
        PROVE  Fewer(Line(c)'[l], Line(c)[l], c)
    <3>1. Fewer(delivered'[c], delivered[c], c)
      BY <2>1, LineAscending, SameIsFewer
    <3>. QED  BY <1>2, <2>3, <3>1, LinePlaces, LinePrimes
  <2>4. dbQueue \in Seq(DbEvent) /\ received \in Seq(Request) /\ Head(received) \in DbEvent
    BY <2>1, LineTypes, QueueHeads DEF Ev, DbEvent
  <2>. QED  BY <1>2, <2>1, <2>2, <2>3, <2>4, HeadMoves
<1>4. CASE PingAnswered
  <2>1. PICK i \in Registered(Ev.stamp) : TCPSendDone(i, Ev) \/ TCPSendFails(i)
    BY <1>4 DEF PingAnswered
  <2>2. i \in 1 .. Len(mMachines) /\ Ev \in Request /\ ~ Mine(Ev, c)
    BY <1>4, QueueHeads DEF PingAnswered, TakeReceived, Registered, Mine, Replied
  <2>. QED  BY <1>2, <2>1, <2>2, TCPSendOther, LineStays
<1>5. CASE ChatTurn
  <2>1. /\ at \in 1 .. Len(mMachines) /\ chat[1] \in Request
        /\ ~ Mine(chat[1], c)
        /\ TCPSendDone(at, chat[1]) \/ TCPSendFails(at)
    <3>1. chat # <<>> /\ chat \in Seq({e \in Request : e.kind = "CHAT_EVENT"})
      BY <1>5 DEF ChatTurn, IInv, TypeOK, EventsTraceable
    <3>2. chat[1] \in {e \in Request : e.kind = "CHAT_EVENT"}
      BY <3>1, EmptySeq, ElementOfSeq, LenProperties
    <3>3. Len(mMachines) \in Nat /\ at \in Nat \ {0} /\ at <= Len(mMachines)
      BY <1>5, LenProperties DEF ChatTurn, IInv, TypeOK
    <3>. QED  BY <1>5, <3>2, <3>3 DEF ChatTurn, Mine, Replied
  <2>. QED  BY <1>2, <2>1, TCPSendOther, LineStays
<1>6. CASE NothingToDo \/ PingAsserts \/ AuthIgnored \/ ChatBegins \/ ChatEnds
  <2>1. dbQueue' = dbQueue /\ delivered' = delivered
    BY <1>6 DEF NothingToDo, PingAsserts, AuthIgnored, ChatBegins, ChatEnds, engineQueues
  <2>. QED  BY <1>2, <2>1, LineAscending, SameIsFewer, LineStays
<1>. QED  BY <1>3, <1>4, <1>5, <1>6 DEF ProcessReceivedEvent

LEMMA DataBaseFrameLine ==
  ASSUME IInv, Lines, DataBaseFrame, NEW c \in Conn
  PROVE  InLine(Line(c), c, sent[c])'
<1>0. TakeQuery
  BY DEF DataBaseFrame, QueryReplied, QueryDone, QueryAsserts, QueryThrows
<1>1. /\ UNCHANGED <<wire, mBuffer, sent, received, delivered>>
      /\ dbQueue # <<>> /\ dbQueue' = Tail(dbQueue)
  BY <1>0 DEF TakeQuery, clientVars
<1>2. /\ Fewer(received', received, c) /\ Fewer(mBuffer'[c], mBuffer[c], c)
      /\ Fewer(wire'[c], wire[c], c) /\ Fewer(delivered'[c], delivered[c], c)
      /\ Fewer(dbQueue', dbQueue, c) /\ sent'[c] = sent[c]
  BY <1>1, LineTypes, LineAscending, SameIsFewer, TailFewer
<1>3. CASE QueryReplied
  <2>1. netQueue' = Append(netQueue, Query) /\ Query.kind \in Replied
    BY <1>3 DEF QueryReplied, ReplyTo
  <2>2. /\ 2 \in 1 .. 5 /\ 2 + 1 = 3
        /\ netQueue = Line(c)[2] /\ dbQueue = Line(c)[2 + 1]
        /\ Line(c)'[2] = Append(netQueue, Head(dbQueue))
        /\ Line(c)'[2 + 1] = Tail(dbQueue)
    BY <1>1, <2>1, LinePlaces, LinePrimes DEF Query
  <2>3. ASSUME NEW l \in 1 .. 6, l # 2, l # 2 + 1
        PROVE  Fewer(Line(c)'[l], Line(c)[l], c)
    BY <1>2, <2>3, LinePlaces, LinePrimes
  <2>4. netQueue \in Seq(Request) /\ dbQueue \in Seq(DbEvent) /\ Head(dbQueue) \in Request
    <3>1. Query \in DbEvent /\ Query.kind \in Replied
      BY <1>1, <2>1, QueueHeads
    <3>2. Query \in Request
      BY <3>1 DEF DbEvent, Replied
    <3>. QED  BY <3>2, LineTypes DEF Query
  <2>. QED  BY <1>1, <1>2, <2>2, <2>3, <2>4, HeadMoves
<1>4. CASE netQueue' = netQueue
  BY <1>2, <1>4, LineAscending, SameIsFewer, LineStays
<1>. QED  BY <1>3, <1>4 DEF DataBaseFrame, QueryDone, QueryAsserts, QueryThrows

LEMMA NextLines == IInv /\ Lines /\ [Next]_vars => Lines'
<1>. SUFFICES ASSUME IInv, Lines, [Next]_vars, NEW c \in Conn
              PROVE  InLine(Line(c), c, sent[c])'
  BY DEF Lines
<1>1. ASSUME NEW d \in Conn, Network(d)  PROVE InLine(Line(c), c, sent[c])'
  BY <1>1, ClientSendsLine, ReceiveLine, AsyncReadLine, NetworkOtherLine DEF Network
<1>2. CASE FrameEnds \/ UNCHANGED vars
  <2>1. UNCHANGED <<wire, mBuffer, sent, received, dbQueue, netQueue, delivered>>
    BY <1>2 DEF FrameEnds, vars, clientVars, engineQueues
  <2>. QED  BY <2>1, LineAscending, SameIsFewer, LineStays
<1>. QED
  BY <1>1, <1>2, ProcessQueueLine, ProcessReceivedLine, DataBaseFrameLine
     DEF Next, Engine

(* The replies to a client's requests reach it in the order it asked,      *)
(* through the received queue, the database engine's and the network       *)
(* engine's, for any number of clients and whatever becomes of machines.   *)
THEOREM RepliesKeepOrder == Spec => []RepliesInOrder
<1>1. Spec => []Lines
  BY InitLines, NextLines, Invariance, PTL DEF Spec
<1>2. IInv /\ Lines => RepliesInOrder
  <2>. SUFFICES ASSUME IInv, Lines, NEW c \in Conn,
                       NEW i \in 1 .. Len(delivered[c]), NEW j \in 1 .. Len(delivered[c]),
                       i < j, Mine(delivered[c][i], c), Mine(delivered[c][j], c)
                PROVE  delivered[c][i].n <= delivered[c][j].n
    BY DEF RepliesInOrder, Mine
  <2>. QED  BY LineAscending DEF Ascending
<1>. QED  BY <1>1, <1>2, Invariance, PTL
-------------------------------------------------------------------------------
(* The chat loop.  A turn removes nothing behind the index, so that what   *)
(* is still ahead of it is the end of the registry the loop began with,    *)
(* moved down by as many places as machines have been removed.             *)
Removed == Len(start) - Len(mMachines)

ChatAhead ==
    stage = "chat" =>
        /\ Removed \in Nat
        /\ \A i \in at .. Len(mMachines) : mMachines[i] = start[i + Removed]
        /\ \A j \in 1 .. Len(start) : j < at + Removed =>
              \/ start[j].id \in tried
              \/ j > 1 /\ start[j - 1].id \in failed

LEMMA ChatTurnAhead ==
  ASSUME IInv, ChatAhead, ChatTurn  PROVE ChatAhead'
<1>. DEFINE r == Removed
<1>1. /\ stage = "chat" /\ start' = start /\ at' = at + 1 /\ at <= Len(mMachines)
      /\ tried' = tried \cup {mMachines[at].id}
      /\ \/ TCPSendDone(at, chat[1]) /\ failed' = failed
         \/ TCPSendFails(at) /\ failed' = failed \cup {mMachines[at].id}
  BY DEF ChatTurn
<1>2. /\ mMachines \in Seq(Machine) /\ Len(mMachines) \in Nat /\ at \in Nat \ {0}
      /\ start \in Seq(Machine) /\ Len(start) \in Nat
  BY LenProperties DEF IInv, TypeOK
<1>3. /\ r \in Nat /\ r = Len(start) - Len(mMachines)
      /\ \A i \in at .. Len(mMachines) : mMachines[i] = start[i + r]
      /\ \A j \in 1 .. Len(start) : j < at + r =>
            start[j].id \in tried \/ (j > 1 /\ start[j - 1].id \in failed)
  BY <1>1 DEF ChatAhead, Removed
<1>. HIDE DEF r
<1>7. /\ at' = at + 1 /\ at <= Len(mMachines) /\ at \in Nat \ {0} /\ r \in Nat
      /\ Len(mMachines) \in Nat /\ Len(start) \in Nat
      /\ at \in at .. Len(mMachines)
  BY <1>1, <1>2, <1>3
<1>4. mMachines[at].id = start[at + r].id
  BY <1>3, <1>7
<1>5. CASE TCPSendDone(at, chat[1]) /\ failed' = failed
  <2>1. mMachines' = mMachines /\ Removed' = r
    BY <1>1, <1>5 DEF TCPSendDone, Removed, r
  <2>2. \A i \in at' .. Len(mMachines') : mMachines'[i] = start'[i + r]
    <3>1. \A i \in at' .. Len(mMachines') : i \in at .. Len(mMachines)
      BY <1>7, <2>1
    <3>. QED  BY <1>1, <1>3, <2>1, <3>1
  <2>3. ASSUME NEW j \in 1 .. Len(start), j < at' + r
        PROVE  start[j].id \in tried' \/ (j > 1 /\ start[j - 1].id \in failed')
    <3>1. j < at + r \/ j = at + r
      BY <1>7, <2>3
    <3>. QED  BY <1>1, <1>3, <1>4, <1>5, <3>1
  <2>. QED  BY <1>1, <1>3, <2>1, <2>2, <2>3 DEF ChatAhead
<1>6. CASE TCPSendFails(at) /\ failed' = failed \cup {mMachines[at].id}
  <2>1. /\ mMachines' = Without(at) /\ Len(mMachines') = Len(mMachines) - 1
        /\ \A j \in 1 .. Len(mMachines') :
              mMachines'[j] = mMachines[IF j < at THEN j ELSE j + 1]
    <3>1. at \in 1 .. Len(mMachines)
      BY <1>1, <1>2
    <3>. QED  BY <1>2, <1>6, <3>1, RemoveOne DEF TCPSendFails, Without
  <2>2. Removed' = r + 1
    BY <1>1, <1>2, <2>1 DEF Removed, r
  <2>3. ASSUME NEW i \in at' .. Len(mMachines')
        PROVE  mMachines'[i] = start[i + (r + 1)]
    <3>1. i \in 1 .. Len(mMachines') /\ ~ i < at /\ i + 1 \in at .. Len(mMachines)
          /\ (i + 1) + r = i + (r + 1)
      BY <1>7, <2>1
    <3>2. mMachines'[i] = mMachines[i + 1]
      BY <2>1, <3>1
    <3>3. mMachines[i + 1] = start[(i + 1) + r]
      BY <1>3, <3>1
    <3>. QED  BY <3>1, <3>2, <3>3
  <2>4. ASSUME NEW j \in 1 .. Len(start), j < at' + (r + 1)
        PROVE  start[j].id \in tried' \/ (j > 1 /\ start[j - 1].id \in failed')
    <3>1. j < at + r \/ j = at + r \/ (j > 1 /\ j - 1 = at + r)
      BY <1>7, <2>4
    <3>. QED  BY <1>1, <1>3, <1>4, <1>6, <3>1
  <2>5. r + 1 \in Nat
    BY <1>3
  <2>. QED  BY <1>1, <2>2, <2>3, <2>4, <2>5 DEF ChatAhead
<1>. QED  BY <1>1, <1>5, <1>6

LEMMA NextAhead == IInv /\ ChatAhead /\ [Next]_vars => ChatAhead'
<1>. SUFFICES ASSUME IInv, ChatAhead, [Next]_vars, stage' = "chat"  PROVE ChatAhead'
  BY DEF ChatAhead
<1>1. CASE ChatTurn
  BY <1>1, ChatTurnAhead
<1>2. CASE ChatBegins
  <2>1. start' = mMachines' /\ at' = 1
    BY <1>2 DEF ChatBegins
  <2>2. Len(mMachines) \in Nat /\ mMachines' = mMachines
    BY <1>2, LenProperties DEF ChatBegins, IInv, TypeOK
  <2>3. Removed' = 0
    BY <2>1, <2>2 DEF Removed
  <2>. QED  BY <2>1, <2>2, <2>3 DEF ChatAhead
<1>3. CASE UNCHANGED <<stage, mMachines, start, at, tried, failed>>
  BY <1>3 DEF ChatAhead, Removed
<1>4. ASSUME NEW c \in Conn, Network(c)
      PROVE  UNCHANGED <<stage, mMachines, start, at, tried, failed>>
  <2>1. CASE ClientSends(c) \/ ClientCloses(c) \/ Receive(c) \/ AsyncRead(c)
    BY <2>1 DEF ClientSends, ClientCloses, Receive, AsyncRead, registry, chatVars
  <2>2. CASE RejectAuth(c)
    BY <2>2 DEF RejectAuth, ProcessAuth, registry, chatVars
  <2>3. ~ AcceptAuth(c) /\ ~ SendWaits(c)
    BY DEF AcceptAuth, ProcessAuth, AuthReceived, SendWaits
  <2>. QED  BY <1>4, <2>1, <2>2, <2>3 DEF Network
<1>5. CASE FrameEnds \/ ProcessQueue \/ ChatEnds \/ DataBaseFrame
  BY <1>5 DEF FrameEnds, ProcessQueue, ReplySent, ReplyDropped, TakeReply, ChatEnds,
              DataBaseFrame, QueryReplied, QueryDone, QueryAsserts, QueryThrows,
              TakeQuery
<1>6. CASE ForwardToDataBase \/ PingAnswered \/ NothingToDo \/ PingAsserts \/ AuthIgnored
  BY <1>6 DEF ForwardToDataBase, PingAnswered, NothingToDo, PingAsserts, AuthIgnored,
              AuthReceived, TakeReceived
<1>7. CASE UNCHANGED vars
  BY <1>3, <1>7 DEF vars, registry, chatVars
<1>. QED
  BY <1>1, <1>2, <1>3, <1>4, <1>5, <1>6, <1>7 DEF Next, Engine, ProcessReceivedEvent

(* The chat loop (ProcessReceivedChatEvent) passes over a machine only if  *)
(* the one registered just before it was removed by the same loop.         *)
THEOREM ChatPassesOverOnlyAfterRemoval == Spec => []ChatMissesOnlyAfterRemoval
<1>1. Init => ChatAhead
  BY DEF Init, ChatAhead
<1>2. Spec => []ChatAhead
  BY <1>1, NextAhead, Invariance, PTL DEF Spec
<1>3. IInv /\ ChatAhead => ChatMissesOnlyAfterRemoval
  <2>. SUFFICES ASSUME IInv, ChatAhead, stage = "chat", at > Len(mMachines),
                       NEW j \in 1 .. Len(start)
                PROVE  \/ start[j].id \in tried
                       \/ j > 1 /\ start[j - 1].id \in failed
    BY DEF ChatMissesOnlyAfterRemoval
  <2>1. Len(mMachines) \in Nat /\ Len(start) \in Nat /\ at \in Nat
    BY LenProperties DEF IInv, TypeOK
  <2>2. j < at + Removed
    BY <2>1 DEF Removed
  <2>. QED  BY <2>2 DEF ChatAhead
<1>. QED  BY <1>2, <1>3, Invariance, PTL

-------------------------------------------------------------------------------
(* How many answers a client can still get: a receive takes at least one   *)
(* event off the wire, and whatever its handler reads in mBuffer, it reads *)
(* one event only.  That number and the answers given never exceed what    *)
(* the client has sent.                                                    *)
Own(e, c) == e \in Request /\ e.from = c /\ e.kind # "CHAT_EVENT"
OwnPlaces(q, c) == {i \in 1 .. Len(q) : Own(q[i], c)}
Count(q, c) == Cardinality(OwnPlaces(q, c))

Owed(c) == Count(netQueue, c) + Count(dbQueue, c) + Count(received, c)
           + done[c] + Len(wire[c])

Budget == \A c \in Conn : Count(delivered[c], c) + Owed(c) <= sent[c]

LEMMA CountType ==
  ASSUME NEW S, NEW q \in Seq(S), NEW c
  PROVE  IsFiniteSet(OwnPlaces(q, c)) /\ Count(q, c) \in Nat
<1>1. Len(q) \in Nat
  BY LenProperties
<1>2. IsFiniteSet(1 .. Len(q))
  BY <1>1, FS_Interval
<1>3. OwnPlaces(q, c) \in SUBSET (1 .. Len(q))
  BY DEF OwnPlaces
<1>4. IsFiniteSet(OwnPlaces(q, c))
  BY <1>2, <1>3, FS_Subset
<1>. QED  BY <1>4, FS_CardinalityType DEF Count

LEMMA CountEmpty ==
  ASSUME NEW c  PROVE Count(<<>>, c) = 0
<1>1. OwnPlaces(<<>>, c) = {}
  BY DEF OwnPlaces
<1>. QED  BY <1>1, FS_EmptySet DEF Count

LEMMA CountAppend ==
  ASSUME NEW S, NEW q \in Seq(S), NEW e \in S, NEW c
  PROVE  Count(Append(q, e), c) = IF Own(e, c) THEN Count(q, c) + 1 ELSE Count(q, c)
<1>. DEFINE r == Append(q, e)
<1>1. /\ Len(q) \in Nat /\ Len(r) = Len(q) + 1
      /\ r[Len(q) + 1] = e
      /\ \A i \in 1 .. Len(q) : r[i] = q[i]
  BY AppendProperties, LenProperties
<1>. HIDE DEF r
<1>2. CASE Own(e, c)
  <2>1. OwnPlaces(r, c) = OwnPlaces(q, c) \cup {Len(q) + 1}
    BY <1>1, <1>2 DEF OwnPlaces
  <2>2. Len(q) + 1 \notin OwnPlaces(q, c)
    BY <1>1 DEF OwnPlaces
  <2>3. IsFiniteSet(OwnPlaces(q, c))
    BY CountType
  <2>. QED  BY <1>2, <2>1, <2>2, <2>3, FS_AddElement DEF Count, r
<1>3. CASE ~ Own(e, c)
  <2>1. OwnPlaces(r, c) = OwnPlaces(q, c)
    BY <1>1, <1>3 DEF OwnPlaces
  <2>. QED  BY <1>3, <2>1 DEF Count, r
<1>. QED  BY <1>2, <1>3

LEMMA CountTail ==
  ASSUME NEW S, NEW q \in Seq(S), q # <<>>, NEW c
  PROVE  Count(q, c) = IF Own(Head(q), c) THEN Count(Tail(q), c) + 1
                       ELSE Count(Tail(q), c)
<1>. DEFINE r == Tail(q)
            A == OwnPlaces(r, c)
            B == OwnPlaces(q, c) \ {1}
            f == [i \in A |-> i + 1]
<1>1. /\ r \in Seq(S) /\ Len(q) \in Nat /\ Len(r) = Len(q) - 1
      /\ 1 \in 1 .. Len(q) /\ Head(q) = q[1]
      /\ \A i \in 1 .. Len(r) : i + 1 \in 1 .. Len(q) /\ r[i] = q[i + 1]
  BY TailElements
<1>. HIDE DEF r
<1>2. IsFiniteSet(A) /\ IsFiniteSet(OwnPlaces(q, c))
  BY <1>1, CountType
<1>3. f \in Bijection(A, B)
  <2>1. \A i \in A : i + 1 \in B
    BY <1>1 DEF OwnPlaces
  <2>2. \A i, j \in A : f[i] = f[j] => i = j
    BY <1>1 DEF OwnPlaces
  <2>3. ASSUME NEW j \in B  PROVE \E i \in A : f[i] = j
    <3>1. j \in 1 .. Len(q) /\ j # 1 /\ Own(q[j], c)
      BY DEF OwnPlaces
    <3>2. j - 1 \in 1 .. Len(r) /\ (j - 1) + 1 = j
      BY <1>1, <3>1
    <3>3. j - 1 \in A
      BY <1>1, <3>1, <3>2 DEF OwnPlaces
    <3>. QED  BY <3>2, <3>3
  <2>4. f \in [A -> B]
    BY <2>1
  <2>. QED  BY <2>2, <2>3, <2>4 DEF Bijection, Injection, Surjection, IsInjective
<1>4. Cardinality(B) = Cardinality(A)
  BY <1>2, <1>3, FS_Bijection DEF ExistsBijection
<1>5. Cardinality(B) = IF 1 \in OwnPlaces(q, c) THEN Count(q, c) - 1 ELSE Count(q, c)
  BY <1>2, FS_RemoveElement DEF Count
<1>6. 1 \in OwnPlaces(q, c) <=> Own(Head(q), c)
  BY <1>1 DEF OwnPlaces
<1>7. Count(q, c) \in Nat /\ Count(r, c) \in Nat
  BY <1>1, CountType
<1>. QED  BY <1>4, <1>5, <1>6, <1>7 DEF Count, r

LEMMA BudgetTypes ==
  ASSUME IInv, NEW c \in Conn
  PROVE  /\ Count(delivered[c], c) \in Nat /\ Count(netQueue, c) \in Nat
         /\ Count(dbQueue, c) \in Nat /\ Count(received, c) \in Nat
         /\ done[c] \in Nat /\ Len(wire[c]) \in Nat /\ sent[c] \in Nat
<1>1. done[c] \in Nat
  BY DEF IInv, TypeOK
<1>. QED  BY <1>1, LineTypes, LenProperties, CountType

LEMMA BudgetTypesNext ==
  ASSUME IInv', NEW c \in Conn
  PROVE  /\ Count(delivered'[c], c) \in Nat /\ Count(netQueue', c) \in Nat
         /\ Count(dbQueue', c) \in Nat /\ Count(received', c) \in Nat
         /\ done'[c] \in Nat /\ Len(wire'[c]) \in Nat /\ sent'[c] \in Nat
<1>1. done'[c] \in Nat /\ sent'[c] \in 0 .. MaxRequest
  BY DEF IInv, TypeOK
<1>2. /\ delivered'[c] \in Seq(Request) /\ netQueue' \in Seq(Request)
      /\ dbQueue' \in Seq(DbEvent) /\ received' \in Seq(Request)
      /\ wire'[c] \in Seq(Request)
  BY DEF IInv, TypeOK
<1>3. Count(delivered'[c], c) \in Nat
  BY <1>2, CountType
<1>4. Count(netQueue', c) \in Nat
  BY <1>2, CountType
<1>5. Count(dbQueue', c) \in Nat
  BY <1>2, CountType
<1>6. Count(received', c) \in Nat
  BY <1>2, CountType
<1>7. Len(wire'[c]) \in Nat
  BY <1>2, LenProperties
<1>. QED  BY <1>1, <1>3, <1>4, <1>5, <1>6, <1>7

BudgetNext(c) ==
    Count(delivered'[c], c) + (Count(netQueue', c) + Count(dbQueue', c)
        + Count(received', c) + done'[c] + Len(wire'[c])) <= sent'[c]

Kept(x, y) == y <= x
Gained(x, y) == y <= x + 1
Lost(x, y) == y + 1 <= x

(* It is enough that a number grows by one only if one before it shrinks. *)
LEMMA BudgetKept ==
  ASSUME IInv, IInv', Budget, NEW c \in Conn,
         \/ Kept(Count(delivered[c], c), Count(delivered'[c], c))
         \/ /\ Gained(Count(delivered[c], c), Count(delivered'[c], c))
            /\ \/ Lost(Count(netQueue, c), Count(netQueue', c))
               \/ /\ Lost(Count(received, c), Count(received', c))
                  /\ Kept(Count(dbQueue, c), Count(dbQueue', c)),
         \/ Kept(Count(netQueue, c), Count(netQueue', c))
         \/ /\ Gained(Count(netQueue, c), Count(netQueue', c))
            /\ Lost(Count(dbQueue, c), Count(dbQueue', c)),
         \/ Kept(Count(dbQueue, c), Count(dbQueue', c))
         \/ /\ Gained(Count(dbQueue, c), Count(dbQueue', c))
            /\ Lost(Count(received, c), Count(received', c)),
         \/ Kept(Count(received, c), Count(received', c))
         \/ /\ Gained(Count(received, c), Count(received', c))
            /\ Lost(done[c], done'[c]),
         \/ Kept(done[c], done'[c])
         \/ Gained(done[c], done'[c]) /\ Lost(Len(wire[c]), Len(wire'[c])),
         \/ Kept(Len(wire[c]), Len(wire'[c])) /\ Kept(sent'[c], sent[c])
         \/ Gained(Len(wire[c]), Len(wire'[c])) /\ Lost(sent'[c], sent[c])
  PROVE  BudgetNext(c)
<1>. DEFINE a == Count(delivered[c], c)
            b == Count(netQueue, c)
            d == Count(dbQueue, c)
            e == Count(received, c)
            f == done[c]
            g == Len(wire[c])
            h == sent[c]
            aa == Count(delivered'[c], c)
            bb == Count(netQueue', c)
            dd == Count(dbQueue', c)
            ee == Count(received', c)
            ff == done'[c]
            gg == Len(wire'[c])
            hh == sent'[c]
<1>1. /\ aa \in Nat /\ bb \in Nat /\ dd \in Nat /\ ee \in Nat
      /\ ff \in Nat /\ gg \in Nat /\ hh \in Nat
  BY BudgetTypesNext
<1>2. /\ a \in Nat /\ b \in Nat /\ d \in Nat /\ e \in Nat
      /\ f \in Nat /\ g \in Nat /\ h \in Nat
  BY BudgetTypes
<1>3. a + (b + d + e + f + g) <= h
  BY DEF Budget, Owed
<1>4. /\ Kept(a, aa) \/ (Gained(a, aa) /\ (Lost(b, bb) \/ (Lost(e, ee) /\ Kept(d, dd))))
      /\ Kept(b, bb) \/ (Gained(b, bb) /\ Lost(d, dd))
      /\ Kept(d, dd) \/ (Gained(d, dd) /\ Lost(e, ee))
      /\ Kept(e, ee) \/ (Gained(e, ee) /\ Lost(f, ff))
      /\ Kept(f, ff) \/ (Gained(f, ff) /\ Lost(g, gg))
      /\ (Kept(g, gg) /\ Kept(hh, h)) \/ (Gained(g, gg) /\ Lost(hh, h))
  OBVIOUS
<1>5. SUFFICES aa + (bb + dd + ee + ff + gg) <= hh
  BY DEF BudgetNext
<1>. HIDE DEF a, b, d, e, f, g, h, aa, bb, dd, ee, ff, gg, hh
<1>. QED  BY <1>1, <1>2, <1>3, <1>4 DEF Kept, Gained, Lost

LEMMA UnchangedKept ==
  ASSUME IInv, NEW c \in Conn
  PROVE  /\ delivered'[c] = delivered[c] =>
               Kept(Count(delivered[c], c), Count(delivered'[c], c))
         /\ netQueue' = netQueue => Kept(Count(netQueue, c), Count(netQueue', c))
         /\ dbQueue' = dbQueue => Kept(Count(dbQueue, c), Count(dbQueue', c))
         /\ received' = received => Kept(Count(received, c), Count(received', c))
         /\ done'[c] = done[c] => Kept(done[c], done'[c])
         /\ wire'[c] = wire[c] => Kept(Len(wire[c]), Len(wire'[c]))
         /\ sent'[c] = sent[c] => Kept(sent'[c], sent[c])
<1>1. \A x \in Nat : \A y : y = x => Kept(x, y)
  BY DEF Kept
<1>. QED  BY <1>1, BudgetTypes

(* An event is appended to a queue, or the head of one is taken. *)
LEMMA AppendCounts ==
  ASSUME NEW S, NEW q \in Seq(S), NEW e \in S, NEW c
  PROVE  /\ Gained(Count(q, c), Count(Append(q, e), c))
         /\ ~ Own(e, c) => Kept(Count(q, c), Count(Append(q, e), c))
<1>1. Count(q, c) \in Nat
  BY CountType
<1>2. \A x \in Nat : Gained(x, x + 1) /\ Gained(x, x) /\ Kept(x, x)
  BY DEF Gained, Kept
<1>3. Count(Append(q, e), c) = IF Own(e, c) THEN Count(q, c) + 1 ELSE Count(q, c)
  BY CountAppend
<1>. QED  BY <1>1, <1>2, <1>3

LEMMA TailCounts ==
  ASSUME NEW S, NEW q \in Seq(S), q # <<>>, NEW c
  PROVE  /\ Kept(Count(q, c), Count(Tail(q), c))
         /\ Own(Head(q), c) => Lost(Count(q, c), Count(Tail(q), c))
<1>1. Count(q, c) \in Nat /\ Count(Tail(q), c) \in Nat
  BY CountType, TailElements
<1>2. \A x \in Nat : Kept(x, x) /\ Kept(x + 1, x) /\ Lost(x + 1, x)
  BY DEF Kept, Lost
<1>. QED  BY <1>1, <1>2, CountTail

LEMMA ClientSendsBudget ==
  ASSUME IInv, IInv', Budget, NEW d \in Conn, ClientSends(d), NEW c \in Conn
  PROVE  BudgetNext(c)
<1>1. UNCHANGED <<delivered, netQueue, dbQueue, received, done>>
  BY DEF ClientSends, engineQueues
<1>2. PICK k \in Kind, id \in OwnStamp : wire' = [wire EXCEPT ![d] = Append(@,
              [kind |-> k, from |-> d, n |-> sent[d] + 1, stamp |-> id,
               marked |-> FALSE])]
  BY DEF ClientSends
<1>3. sent' = [sent EXCEPT ![d] = @ + 1]
  BY DEF ClientSends
<1>4. CASE d = c
  <2>. DEFINE e == [kind |-> k, from |-> c, n |-> sent[c] + 1, stamp |-> id,
                    marked |-> FALSE]
  <2>1. sent[c] \in Nat /\ sent'[c] = sent[c] + 1 /\ wire'[c] = Append(wire[c], e)
    BY <1>2, <1>3, <1>4, LineTypes DEF IInv, TypeOK
  <2>2. e \in Request
    BY <2>1, MachinesAssumption DEF Request
  <2>. HIDE DEF e
  <2>3. Len(wire'[c]) = Len(wire[c]) + 1 /\ Len(wire[c]) \in Nat
    BY <2>1, <2>2, LineTypes, AppendProperties, LenProperties
  <2>4. Gained(Len(wire[c]), Len(wire'[c])) /\ Lost(sent'[c], sent[c])
    BY <2>1, <2>3 DEF Gained, Lost
  <2>. QED  BY <1>1, <2>4, UnchangedKept, BudgetKept
<1>5. CASE d # c
  <2>1. wire'[c] = wire[c] /\ sent'[c] = sent[c]
    BY <1>2, <1>3, <1>5 DEF IInv, TypeOK
  <2>. QED  BY <1>1, <2>1, UnchangedKept, BudgetKept
<1>. QED  BY <1>4, <1>5

LEMMA ReceiveBudget ==
  ASSUME IInv, IInv', Budget, NEW d \in Conn, Receive(d), NEW c \in Conn
  PROVE  BudgetNext(c)
<1>1. UNCHANGED <<delivered, netQueue, dbQueue, received, sent>>
  BY DEF Receive, engineQueues
<1>2. PICK k \in 1 .. Len(wire[d]) :
          wire' = [wire EXCEPT ![d] = SubSeq(@, k + 1, Len(@))]
  BY DEF Receive
<1>3. done' = [done EXCEPT ![d] = @ + 1]
  BY DEF Receive
<1>4. CASE d = c
  <2>1. /\ done'[c] = done[c] + 1 /\ wire'[c] = SubSeq(wire[c], k + 1, Len(wire[c]))
        /\ k \in 1 .. Len(wire[c])
    BY <1>2, <1>3, <1>4 DEF IInv, TypeOK
  <2>2. Len(wire[c]) \in Nat /\ k \in Nat /\ k >= 1 /\ k <= Len(wire[c])
    BY <2>1, BudgetTypes
  <2>3. \A i \in k + 1 .. Len(wire[c]) : wire[c][i] \in Request
    BY <2>2, LineTypes, ElementOfSeq
  <2>4. Len(wire'[c]) = IF k + 1 <= Len(wire[c]) THEN Len(wire[c]) - (k + 1) + 1 ELSE 0
    BY <2>1, <2>2, <2>3, SubSeqProperties
  <2>5. Lost(Len(wire[c]), Len(wire'[c])) /\ Kept(Len(wire[c]), Len(wire'[c]))
    BY <2>2, <2>4 DEF Lost, Kept
  <2>6. Gained(done[c], done'[c])
    BY <2>1, BudgetTypes DEF Gained
  <2>. QED  BY <1>1, <2>5, <2>6, UnchangedKept, BudgetKept
<1>5. CASE d # c
  <2>1. done'[c] = done[c] /\ wire'[c] = wire[c]
    BY <1>2, <1>3, <1>5 DEF IInv, TypeOK
  <2>. QED  BY <1>1, <2>1, UnchangedKept, BudgetKept
<1>. QED  BY <1>4, <1>5

LEMMA AsyncReadBudget ==
  ASSUME IInv, IInv', Budget, NEW d \in Conn, AsyncRead(d), NEW c \in Conn
  PROVE  BudgetNext(c)
<1>1. UNCHANGED <<delivered, netQueue, dbQueue, wire, sent>>
  BY DEF AsyncRead
<1>2. done' = [done EXCEPT ![d] = @ - 1]
  BY DEF AsyncRead, OneHandled
<1>3. /\ Gained(Count(received, c), Count(received', c))
      /\ d # c => Kept(Count(received, c), Count(received', c))
  <2>1. CASE received' = received
    <3>1. \A x \in Nat : \A y : y = x => Gained(x, y) /\ Kept(x, y)
      BY DEF Gained, Kept
    <3>. QED  BY <2>1, <3>1, BudgetTypes
  <2>2. CASE mBuffer[d] # <<>> /\ received' = Append(received, StampedBy(mBuffer[d][1], d))
    <3>. DEFINE e == StampedBy(mBuffer[d][1], d)
    <3>1. mBuffer[d][1] \in OnWire(d)
      BY <2>2, EmptySeq, ElementOfSeq, LenProperties DEF IInv, EventsTraceable
    <3>2. e \in Request /\ e.from = d
      BY <3>1 DEF StampedBy, Request, OnWire, IInv, TypeOK
    <3>3. received' = Append(received, e)
      BY <2>2
    <3>. HIDE DEF e
    <3>4. d # c => ~ Own(e, c)
      BY <3>2 DEF Own
    <3>. QED  BY <3>2, <3>3, <3>4, LineTypes, AppendCounts
  <2>. QED  BY <2>1, <2>2 DEF AsyncRead
<1>4. CASE d = c
  <2>1. done'[c] = done[c] - 1 /\ done[c] \in Nat
    BY <1>2, <1>4, BudgetTypes DEF IInv, TypeOK
  <2>2. Lost(done[c], done'[c]) /\ Kept(done[c], done'[c])
    BY <2>1 DEF Lost, Kept
  <2>. QED  BY <1>1, <1>3, <2>2, UnchangedKept, BudgetKept
<1>5. CASE d # c
  <2>1. done'[c] = done[c]
    BY <1>2, <1>5 DEF IInv, TypeOK
  <2>. QED  BY <1>1, <1>3, <1>5, <2>1, UnchangedKept, BudgetKept
<1>. QED  BY <1>4, <1>5

(* WELCOME and REMOVE_MACHINE are no client's own. *)
LEMMA AccountEventKept ==
  ASSUME IInv, NEW c \in Conn, NEW e \in AccountEvent
  PROVE  Kept(Count(dbQueue, c), Count(Append(dbQueue, e), c))
<1>1. e \in DbEvent /\ e.kind \in {"WELCOME", "REMOVE_MACHINE"}
  BY DEF AccountEvent, DbEvent
<1>2. ~ Own(e, c)
  BY <1>1, MachinesAssumption DEF Own, Request, Forwarded, Replied, Handled
<1>. QED  BY <1>1, <1>2, LineTypes, AppendCounts

LEMMA NetworkBudget ==
  ASSUME IInv, IInv', Budget, NEW d \in Conn, Network(d), NEW c \in Conn
  PROVE  BudgetNext(c)
<1>1. CASE ClientCloses(d) \/ SendWaits(d)
  <2>1. UNCHANGED <<delivered, netQueue, dbQueue, received, done, wire, sent>>
    BY <1>1 DEF ClientCloses, SendWaits, engineQueues
  <2>. QED  BY <2>1, UnchangedKept, BudgetKept
<1>2. CASE AcceptAuth(d) \/ RejectAuth(d)
  <2>1. /\ UNCHANGED <<delivered, netQueue, done, wire, sent>>
        /\ received' = received \/ (received # <<>> /\ received' = Tail(received))
    BY <1>2, ProcessAuthTakes DEF AcceptAuth, RejectAuth
  <2>2. Kept(Count(dbQueue, c), Count(dbQueue', c))
    <3>1. [kind |-> "WELCOME", conn |-> d] \in AccountEvent
      BY DEF AccountEvent
    <3>2. CASE AcceptAuth(d)
      BY <3>1, <3>2, AccountEventKept DEF AcceptAuth
    <3>3. CASE RejectAuth(d)
      BY <3>3, UnchangedKept DEF RejectAuth
    <3>. QED  BY <1>2, <3>2, <3>3
  <2>3. Kept(Count(received, c), Count(received', c))
    BY <2>1, LineTypes, TailCounts, UnchangedKept
  <2>. QED  BY <2>1, <2>2, <2>3, UnchangedKept, BudgetKept
<1>. QED
  BY <1>1, <1>2, ClientSendsBudget, ReceiveBudget, AsyncReadBudget DEF Network

(* What a send does to the numbers.                                        *)
LEMMA TCPSendCounts ==
  ASSUME IInv, NEW c \in Conn, NEW i \in 1 .. Len(mMachines), NEW ev \in Request,
         TCPSendDone(i, ev) \/ TCPSendFails(i)
  PROVE  /\ Kept(Count(dbQueue, c), Count(dbQueue', c))
         /\ Gained(Count(delivered[c], c), Count(delivered'[c], c))
         /\ Own(ev, c) \/ Kept(Count(delivered[c], c), Count(delivered'[c], c))
<1>1. \A x \in Nat : \A y : y = x => Gained(x, y) /\ Kept(x, y)
  BY DEF Gained, Kept
<1>2. CASE TCPSendDone(i, ev)
  <2>1. dbQueue' = dbQueue
    BY <1>2 DEF TCPSendDone
  <2>2. delivered'[c] = delivered[c] \/ delivered'[c] = Append(delivered[c], ev)
    BY <1>2 DEF TCPSendDone, IInv, TypeOK
  <2>. QED  BY <1>1, <2>1, <2>2, BudgetTypes, LineTypes, AppendCounts
<1>3. CASE TCPSendFails(i)
  <2>. DEFINE e == [kind |-> "REMOVE_MACHINE", conn |-> mMachines[i].conn]
  <2>1. e \in AccountEvent
    BY MachineType DEF IInv, AccountEvent
  <2>2. dbQueue' = Append(dbQueue, e) /\ delivered' = delivered
    BY <1>3 DEF TCPSendFails
  <2>. HIDE DEF e
  <2>. QED  BY <1>1, <2>1, <2>2, BudgetTypes, AccountEventKept
<1>. QED  BY <1>2, <1>3

LEMMA ProcessQueueBudget ==
  ASSUME IInv, IInv', Budget, ProcessQueue, NEW c \in Conn
  PROVE  BudgetNext(c)
<1>0. TakeReply
  BY DEF ProcessQueue, ReplySent, ReplyDropped
<1>1. /\ UNCHANGED <<wire, done, sent, received>>
      /\ netQueue # <<>> /\ netQueue' = Tail(netQueue)
  BY <1>0 DEF TakeReply, clientVars
<1>2. /\ Kept(Count(netQueue, c), Count(netQueue', c))
      /\ Own(Reply, c) => Lost(Count(netQueue, c), Count(netQueue', c))
  BY <1>1, LineTypes, TailCounts DEF Reply
<1>3. CASE ReplySent
  <2>1. PICK i \in Registered(Reply.stamp) : TCPSendDone(i, Reply) \/ TCPSendFails(i)
    BY <1>3 DEF ReplySent
  <2>2. i \in 1 .. Len(mMachines) /\ Reply \in Request
    BY <1>1, QueueHeads DEF Registered
  <2>3. /\ Kept(Count(dbQueue, c), Count(dbQueue', c))
        /\ Gained(Count(delivered[c], c), Count(delivered'[c], c))
        /\ Own(Reply, c) \/ Kept(Count(delivered[c], c), Count(delivered'[c], c))
    BY <2>1, <2>2, TCPSendCounts
  <2>. QED  BY <1>1, <1>2, <2>3, UnchangedKept, BudgetKept
<1>4. CASE ReplyDropped
  <2>1. dbQueue' = dbQueue /\ delivered' = delivered
    BY <1>4 DEF ReplyDropped
  <2>. QED  BY <1>1, <1>2, <2>1, UnchangedKept, BudgetKept
<1>. QED  BY <1>3, <1>4 DEF ProcessQueue

LEMMA ProcessReceivedBudget ==
  ASSUME IInv, IInv', Budget, ProcessReceivedEvent, NEW c \in Conn
  PROVE  BudgetNext(c)
<1>1. UNCHANGED <<wire, done, sent, netQueue>>
  BY DEF ProcessReceivedEvent, ForwardToDataBase, PingAnswered, NothingToDo,
         PingAsserts, AuthIgnored, AuthReceived, ChatBegins, ChatTurn, ChatEnds,
         TakeReceived, clientVars, engineQueues
<1>2. ASSUME TakeReceived
      PROVE  /\ received # <<>> /\ Ev \in Request
             /\ Kept(Count(received, c), Count(received', c))
             /\ Own(Ev, c) => Lost(Count(received, c), Count(received', c))
  BY <1>2, QueueHeads, LineTypes, TailCounts DEF TakeReceived, Ev
<1>3. CASE ForwardToDataBase
  <2>1. dbQueue' = Append(dbQueue, Ev) /\ delivered' = delivered /\ TakeReceived
    BY <1>3 DEF ForwardToDataBase
  <2>2. Ev \in DbEvent
    BY <1>2, <2>1 DEF DbEvent
  <2>3. /\ Gained(Count(dbQueue, c), Count(dbQueue', c))
        /\ Own(Ev, c) \/ Kept(Count(dbQueue, c), Count(dbQueue', c))
    BY <2>1, <2>2, LineTypes, AppendCounts
  <2>. QED  BY <1>1, <1>2, <2>1, <2>3, UnchangedKept, BudgetKept
<1>4. CASE PingAnswered
  <2>1. PICK i \in Registered(Ev.stamp) : TCPSendDone(i, Ev) \/ TCPSendFails(i)
    BY <1>4 DEF PingAnswered
  <2>2. TakeReceived /\ i \in 1 .. Len(mMachines)
    BY <1>4 DEF PingAnswered, Registered
  <2>3. /\ Kept(Count(dbQueue, c), Count(dbQueue', c))
        /\ Gained(Count(delivered[c], c), Count(delivered'[c], c))
        /\ Own(Ev, c) \/ Kept(Count(delivered[c], c), Count(delivered'[c], c))
    BY <1>2, <2>1, <2>2, TCPSendCounts
  <2>. QED  BY <1>1, <1>2, <2>2, <2>3, UnchangedKept, BudgetKept
<1>5. CASE ChatTurn
  <2>1. /\ at \in 1 .. Len(mMachines) /\ chat[1] \in Request
        /\ ~ Own(chat[1], c) /\ received' = received
        /\ TCPSendDone(at, chat[1]) \/ TCPSendFails(at)
    <3>1. chat # <<>> /\ chat \in Seq({e \in Request : e.kind = "CHAT_EVENT"})
      BY <1>5 DEF ChatTurn, IInv, TypeOK, EventsTraceable
    <3>2. chat[1] \in {e \in Request : e.kind = "CHAT_EVENT"}
      BY <3>1, EmptySeq, ElementOfSeq, LenProperties
    <3>3. Len(mMachines) \in Nat /\ at \in Nat \ {0} /\ at <= Len(mMachines)
      BY <1>5, LenProperties DEF ChatTurn, IInv, TypeOK
    <3>. QED  BY <1>5, <3>2, <3>3 DEF ChatTurn, Own
  <2>2. /\ Kept(Count(dbQueue, c), Count(dbQueue', c))
        /\ Kept(Count(delivered[c], c), Count(delivered'[c], c))
    BY <2>1, TCPSendCounts
  <2>. QED  BY <1>1, <2>1, <2>2, UnchangedKept, BudgetKept
<1>6. CASE NothingToDo \/ PingAsserts \/ ChatBegins
  <2>1. dbQueue' = dbQueue /\ delivered' = delivered /\ TakeReceived
    BY <1>6 DEF NothingToDo, PingAsserts, ChatBegins
  <2>. QED  BY <1>1, <1>2, <2>1, UnchangedKept, BudgetKept
<1>8. CASE AuthIgnored
  <2>1. /\ dbQueue' = dbQueue /\ delivered' = delivered
        /\ received # <<>> /\ received' = Tail(received)
    BY <1>8 DEF AuthIgnored, AuthReceived
  <2>2. Kept(Count(received, c), Count(received', c))
    BY <2>1, LineTypes, TailCounts
  <2>. QED  BY <1>1, <2>1, <2>2, UnchangedKept, BudgetKept
<1>7. CASE ChatEnds
  <2>1. dbQueue' = dbQueue /\ delivered' = delivered /\ received' = received
    BY <1>7 DEF ChatEnds, engineQueues
  <2>. QED  BY <1>1, <2>1, UnchangedKept, BudgetKept
<1>. QED  BY <1>3, <1>4, <1>5, <1>6, <1>7, <1>8 DEF ProcessReceivedEvent

LEMMA DataBaseFrameBudget ==
  ASSUME IInv, IInv', Budget, DataBaseFrame, NEW c \in Conn
  PROVE  BudgetNext(c)
<1>0. TakeQuery
  BY DEF DataBaseFrame, QueryReplied, QueryDone, QueryAsserts, QueryThrows
<1>1. /\ UNCHANGED <<wire, done, sent, received, delivered>>
      /\ dbQueue # <<>> /\ dbQueue' = Tail(dbQueue)
  BY <1>0 DEF TakeQuery, clientVars
<1>2. /\ Kept(Count(dbQueue, c), Count(dbQueue', c))
      /\ Own(Query, c) => Lost(Count(dbQueue, c), Count(dbQueue', c))
  BY <1>1, LineTypes, TailCounts DEF Query
<1>3. CASE QueryReplied
  <2>1. netQueue' = Append(netQueue, Query) /\ Query.kind \in Replied
    BY <1>3 DEF QueryReplied, ReplyTo
  <2>2. Query \in Request
    BY <1>1, <2>1, QueueHeads DEF DbEvent, Replied
  <2>3. /\ Gained(Count(netQueue, c), Count(netQueue', c))
        /\ Own(Query, c) \/ Kept(Count(netQueue, c), Count(netQueue', c))
    BY <2>1, <2>2, LineTypes, AppendCounts
  <2>. QED  BY <1>1, <1>2, <2>3, UnchangedKept, BudgetKept
<1>4. CASE netQueue' = netQueue
  BY <1>1, <1>2, <1>4, UnchangedKept, BudgetKept
<1>. QED  BY <1>3, <1>4 DEF DataBaseFrame, QueryDone, QueryAsserts, QueryThrows

LEMMA NextBudget == IInv /\ Budget /\ [Next]_vars => Budget'
<1>. SUFFICES ASSUME IInv, Budget, [Next]_vars  PROVE Budget'
  OBVIOUS
<1>1. IInv'
  BY NextIInv
<1>2. ASSUME NEW c \in Conn  PROVE BudgetNext(c)
  <2>1. ASSUME NEW d \in Conn, Network(d)  PROVE BudgetNext(c)
    BY <1>1, <2>1, NetworkBudget
  <2>2. CASE FrameEnds \/ UNCHANGED vars
    <3>1. UNCHANGED <<wire, done, sent, received, dbQueue, netQueue, delivered>>
      BY <2>2 DEF FrameEnds, vars, clientVars, engineQueues
    <3>. QED  BY <1>1, <3>1, UnchangedKept, BudgetKept
  <2>. QED
    BY <1>1, <2>1, <2>2, ProcessQueueBudget, ProcessReceivedBudget,
       DataBaseFrameBudget
       DEF Next, Engine
<1>. QED  BY <1>2 DEF Budget, Owed, BudgetNext, Count, OwnPlaces, Own, Request

(* A client is never sent more answers than it has sent requests, although *)
(* its socket's receives share a buffer and an event in it may be handled  *)
(* twice.                                                          *)
THEOREM NoMoreAnswersThanRequests == Spec => []AnswersPaidFor
<1>1. Init => Budget
  <2>. SUFFICES ASSUME Init, NEW c \in Conn
                PROVE  Count(delivered[c], c) + Owed(c) <= sent[c]
    BY DEF Budget
  <2>1. /\ delivered[c] = <<>> /\ netQueue = <<>> /\ dbQueue = <<>> /\ received = <<>>
        /\ done[c] = 0 /\ wire[c] = <<>> /\ sent[c] = 0
    BY DEF Init
  <2>2. Count(<<>>, c) = 0 /\ Len(<<>>) = 0
    BY CountEmpty
  <2>. QED  BY <2>1, <2>2 DEF Owed
<1>2. Spec => []Budget
  BY <1>1, NextBudget, Invariance, PTL DEF Spec
<1>3. IInv /\ Budget => AnswersPaidFor
  <2>. SUFFICES ASSUME IInv, Budget, NEW c \in Conn
                PROVE  Cardinality(Answers(c)) <= sent[c]
    BY DEF AnswersPaidFor
  <2>1. ASSUME NEW i \in 1 .. Len(delivered[c])
        PROVE  delivered[c][i].kind # "CHAT_EVENT" /\ delivered[c][i].from = c
                   <=> Own(delivered[c][i], c)
    <3>1. delivered[c][i] \in MayHear(c)
      BY ElementOfSeq DEF IInv, Deliveries
    <3>. QED  BY <3>1 DEF MayHear, Own
  <2>2. Answers(c) = OwnPlaces(delivered[c], c)
    BY <2>1 DEF Answers, OwnPlaces
  <2>3. Cardinality(Answers(c)) = Count(delivered[c], c)
    BY <2>2 DEF Count
  <2>4. Count(delivered[c], c) + (Count(netQueue, c) + Count(dbQueue, c)
            + Count(received, c) + done[c] + Len(wire[c])) <= sent[c]
    BY DEF Budget, Owed
  <2>. DEFINE a == Count(delivered[c], c)
              b == Count(netQueue, c)
              d == Count(dbQueue, c)
              e == Count(received, c)
              f == done[c]
              g == Len(wire[c])
              h == sent[c]
  <2>5. /\ a \in Nat /\ b \in Nat /\ d \in Nat /\ e \in Nat /\ f \in Nat
        /\ g \in Nat /\ h \in Nat
    BY BudgetTypes
  <2>6. a + (b + d + e + f + g) <= h
    BY <2>4
  <2>7. a <= h
    <3>. HIDE DEF a, b, d, e, f, g, h
    <3>. QED  BY <2>5, <2>6
  <2>. QED  BY <2>3, <2>7
<1>. QED  BY <1>2, <1>3, Invariance, PTL
=================================================================================

------------------------------- MODULE LoginProofs -------------------------------
(***************************************************************************)
(* What holds of logins for any number of connections and of accounts.     *)
(* The argument follows the credentials: whatever overlaps, an event that  *)
(* says a login is accepted carries an account whose right password some   *)
(* client sent, or that a received AUTH event has named, and only such     *)
(* events register machines.  The invariant says of every queue that its   *)
(* elements are of a set defined from cred and claims; since a client      *)
(* sends its credentials once, these sets only grow.                       *)
(***************************************************************************)
EXTENDS Login, DataLemmas

(* The accounts whose right password was sent, or that a claim named. *)
Proved ==
    {a \in Account : (\E c \in Conn : cred[c] = [acct |-> a, right |-> TRUE]) \/ Named(a)}

AuthEvent == [type : {"AUTH"}, id : Nat, cred : Cred]
AccountEvent == [type : {"WELCOME", "REMOVE_MACHINE"}, acct : Account]
ProperAuth == {e \in AuthEvent : e.cred.right => e.cred.acct \in Proved}
ProperAnswer == {e \in NetEvent : e.accepted => e.acct \in Proved}
ProperMachine == {m \in Machine : m.acct \in Proved}
ProperStamp == {s \in Stamp \cup {NoStamp} : s = NoStamp \/ s.acct \in Proved}

(* Where a thread is says whether its client has sent credentials. *)
Credentials ==
    \A c \in Conn :
        /\ thread[c] \in {"idle", "receive"} => cred[c] = NoCred
        /\ thread[c] \notin {"idle", "receive", "done"} => cred[c] \in Cred

Verified ==
    /\ dbQueue \in Seq(ProperAuth \cup AccountEvent)
    /\ netQueue \in Seq(ProperAnswer)
    /\ mMachines \in Seq(ProperMachine)
    /\ received \in Seq(ProperStamp)
    /\ mParent \in [Conn -> ProperStamp]

-------------------------------------------------------------------------------
LEMMA InitVerified == Init => TypeOK /\ Credentials /\ Verified
<1>. SUFFICES ASSUME Init  PROVE TypeOK /\ Credentials /\ Verified
  OBVIOUS
<1>1. \A S : <<>> \in Seq(S)
  BY EmptySeq
<1>2. DOMAIN mAuth = {} /\ mAuth \in [DOMAIN mAuth -> Conn]
  BY DEF Init
<1>3. TypeOK
  BY <1>1, <1>2 DEF Init, TypeOK, ThreadState
<1>4. Credentials /\ Verified
  BY <1>1 DEF Init, Credentials, Verified, ProperStamp
<1>. QED  BY <1>3, <1>4

(* The sets are of the right types, and only grow. *)
LEMMA ProperTypes ==
  /\ ProperAuth \cup AccountEvent \subseteq DbEvent
  /\ ProperAnswer \subseteq NetEvent
  /\ ProperMachine \subseteq Machine
  /\ ProperStamp \subseteq Stamp \cup {NoStamp}
BY DEF ProperAuth, AuthEvent, AccountEvent, ProperAnswer, ProperMachine, ProperStamp, DbEvent

(* Where the event that ProcessAuth handles comes from. *)
LEMMA Taken ==
  ASSUME NEW ans, ProcessAuth(ans)
  PROVE  \/ /\ stage = "net" /\ netQueue # <<>> /\ ans = Head(netQueue)
            /\ netQueue' = Tail(netQueue) /\ UNCHANGED <<received, claims>>
         \/ /\ stage = "received" /\ received # <<>> /\ ans \in Said(Head(received))
            /\ received' = Tail(received) /\ claims' = claims \cup ClaimsOf(ans)
            /\ netQueue' = netQueue
BY DEF ProcessAuth, Answers, TakeAnswer, TakeReceived

LEMMA ClaimsGrow == ASSUME [Next]_vars  PROVE claims \subseteq claims'
<1>1. ASSUME NEW ans, ProcessAuth(ans)  PROVE claims \subseteq claims'
  BY <1>1, Taken
<1>2. UNCHANGED claims \/ \E ans : ProcessAuth(ans)
  BY DEF Next, vars, receivedVars, Client, ThreadRuns, HandleAcceptTcp, ClientCloses,
     RefuseAtOnce, NickReceived, ReadId, WriteId, InsertAuth, LinkAuth, FillAuth, PushAuth,
     FrameEnds, HandleAnswer, HandleDbEvent, AuthNotFound, RejectAuth, AcceptAuth,
     AcceptAuthSendFails, AcceptAuthThrows, RemoveMachine, VerifyPass, ChangeAccountState,
     DataBaseThrows, AuthReceived, AuthAsserts, SendWaits
<1>. QED  BY <1>1, <1>2

(* Only a thread's own steps move it, or change id and mAuth. *)
LEMMA ThreadMoves ==
  ASSUME [Next]_vars
  PROVE  \/ UNCHANGED <<thread, cred, tmp, seen, id, mAuth>>
         \/ \E c \in Conn : \/ HandleAcceptTcp(c) \/ RefuseAtOnce(c) \/ NickReceived(c)
                            \/ ReadId(c) \/ WriteId(c) \/ InsertAuth(c) \/ FillAuth(c)
                            \/ PushAuth(c) \/ LinkAuth(c)
<1>. DEFINE Same == UNCHANGED <<thread, cred, tmp, seen, id, mAuth>>
<1>1. CASE UNCHANGED vars
  BY <1>1 DEF vars, threadVars
<1>2. ASSUME NEW c \in Conn, ClientCloses(c)
      PROVE  Same
  BY <1>2 DEF ClientCloses, threadVars
<1>3. CASE HandleAnswer
  <2>1. ASSUME NEW ans, ProcessAuth(ans)
        PROVE  Same
    BY <2>1 DEF ProcessAuth, threadVars
  <2>2. \E ans \in Answers : ProcessAuth(ans)
    BY <1>3 DEF HandleAnswer, AuthNotFound, RejectAuth, AcceptAuth, AcceptAuthSendFails,
       AcceptAuthThrows
  <2>. QED  BY <2>1, <2>2
<1>4. CASE AuthReceived \/ FrameEnds \/ AuthAsserts \/ HandleDbEvent
  BY <1>4 DEF AuthReceived, FrameEnds, AuthAsserts, HandleDbEvent, VerifyPass,
     ChangeAccountState, DataBaseThrows, threadVars
<1>5. ASSUME NEW i \in 1 .. Len(mMachines), RemoveMachine(i) \/ SendWaits(i)
      PROVE  Same
  BY <1>5 DEF RemoveMachine, SendWaits, threadVars
<1>. QED  BY <1>1, <1>2, <1>3, <1>4, <1>5 DEF Next, Client, ThreadRuns

LEMMA SetsGrow ==
  ASSUME TypeOK, Credentials, [Next]_vars
  PROVE  /\ \A c \in Conn : cred[c] # NoCred => cred'[c] = cred[c]
         /\ Proved \subseteq Proved'
         /\ ProperAuth \cup AccountEvent \subseteq ProperAuth' \cup AccountEvent'
         /\ ProperAnswer \subseteq ProperAnswer'
         /\ ProperMachine \subseteq ProperMachine'
         /\ ProperStamp \subseteq ProperStamp'
<1>1. \A c \in Conn : cred[c] # NoCred => cred'[c] = cred[c]
  <2>1. CASE cred' = cred
    BY <2>1
  <2>2. CASE \E c \in Conn : NickReceived(c)
    <3>. SUFFICES ASSUME NEW c \in Conn, NickReceived(c)
                  PROVE  \A d \in Conn : cred[d] # NoCred => cred'[d] = cred[d]
      BY <2>2
    <3>1. cred[c] = NoCred
      BY DEF NickReceived, Credentials
    <3>2. \A d \in Conn \ {c} : cred'[d] = cred[d]
      BY DEF NickReceived, TypeOK
    <3>. QED  BY <3>1, <3>2
  <2>3. cred' = cred \/ \E c \in Conn : NickReceived(c)
    BY DEF Next, vars, threadVars, Client, ThreadRuns, HandleAcceptTcp, ClientCloses,
       RefuseAtOnce, ReadId, WriteId, InsertAuth, LinkAuth, FillAuth, PushAuth, FrameEnds,
       HandleAnswer, HandleDbEvent, AuthNotFound, RejectAuth, AcceptAuth,
       AcceptAuthSendFails, AcceptAuthThrows, ProcessAuth, RemoveMachine, VerifyPass,
       ChangeAccountState, DataBaseThrows,
     AuthReceived, AuthAsserts, SendWaits
  <2>. QED  BY <2>1, <2>2, <2>3
<1>2. Proved \subseteq Proved'
  <2>. SUFFICES ASSUME NEW a \in Proved  PROVE a \in Proved'
    OBVIOUS
  <2>1. ASSUME NEW c \in Conn, cred[c] = [acct |-> a, right |-> TRUE]
        PROVE  a \in Proved'
    <3>1. a \in Account /\ cred[c] \in Cred
      BY <2>1 DEF Proved, Cred
    <3>2. cred'[c] = cred[c]
      BY <1>1, <3>1, NoCredAssumption
    <3>. QED  BY <2>1, <3>1, <3>2 DEF Proved
  <2>2. CASE Named(a)
    BY <2>2, ClaimsGrow DEF Proved, Named
  <2>. QED  BY <2>1, <2>2 DEF Proved
<1>3. AccountEvent' = AccountEvent /\ AuthEvent' = AuthEvent /\ NetEvent' = NetEvent
      /\ Machine' = Machine /\ Stamp' = Stamp /\ NoStamp' = NoStamp
  BY DEF AccountEvent, AuthEvent, NetEvent, Machine, Stamp, NoStamp
<1>. QED  BY <1>1, <1>2, <1>3 DEF ProperAuth, ProperAnswer, ProperMachine, ProperStamp

(* So what is left of a queue or of the registry stays proper. *)
LEMMA SeqGrows ==
  ASSUME NEW S, NEW T, S \subseteq T, NEW q \in Seq(S)
  PROVE  q \in Seq(T)
<1>1. \A i \in 1 .. Len(q) : q[i] \in T
  BY ElementOfSeq
<1>2. Len(q) \in Nat /\ q = [i \in 1 .. Len(q) |-> q[i]]
  BY LenProperties
<1>. QED  BY <1>1, <1>2, IsASeq

(* The head of a queue and what is left. *)
LEMMA Heads ==
  ASSUME TypeOK, Verified
  PROVE  /\ dbQueue # <<>> =>
               /\ Event \in ProperAuth \cup AccountEvent
               /\ Tail(dbQueue) \in Seq(ProperAuth \cup AccountEvent)
               /\ Tail(dbQueue) \in Seq(DbEvent)
         /\ netQueue # <<>> =>
               /\ Head(netQueue) \in ProperAnswer
               /\ Tail(netQueue) \in Seq(ProperAnswer)
               /\ Tail(netQueue) \in Seq(NetEvent)
         /\ received # <<>> =>
               /\ Head(received) \in ProperStamp
               /\ Tail(received) \in Seq(ProperStamp)
<1>1. /\ dbQueue \in Seq(DbEvent) /\ dbQueue \in Seq(ProperAuth \cup AccountEvent)
      /\ netQueue \in Seq(NetEvent) /\ netQueue \in Seq(ProperAnswer)
      /\ received \in Seq(ProperStamp)
  BY DEF TypeOK, Verified
<1>. QED  BY <1>1, HeadTailProperties DEF Event

(* What is left of the queues when an answer is taken. *)
LEMMA Left ==
  ASSUME TypeOK, Verified, NEW ans, ProcessAuth(ans)
  PROVE  netQueue' \in Seq(ProperAnswer) /\ received' \in Seq(ProperStamp)
BY Taken, Heads DEF Verified

(* What is accepted names a proved account, if only now.                   *)
LEMMA MachineFromAnswer ==
  ASSUME TypeOK, Credentials, Verified, [Next]_vars, NEW ans, NEW c \in Conn,
         ProcessAuth(ans), c \in FindAuth(ans.id), ans.accepted
  PROVE  /\ ans.acct \in Account
         /\ [id |-> mNextMachineID, conn |-> c, acct |-> ans.acct] \in ProperMachine'
         /\ [id |-> mNextMachineID, acct |-> ans.acct] \in ProperStamp'
         /\ Welcome(ans.acct) \in AccountEvent /\ Removed(ans.acct) \in AccountEvent
<1>1. Proved \subseteq Proved'
  BY SetsGrow
<1>2. ans.acct \in Account /\ ans.acct \in Proved'
  <2>1. CASE netQueue # <<>> /\ ans = Head(netQueue)
    <3>1. ans.acct \in Proved
      BY <2>1, Heads DEF ProperAnswer
    <3>. QED  BY <1>1, <3>1 DEF Proved
  <2>2. CASE /\ received # <<>> /\ ans \in Said(Head(received))
             /\ claims' = claims \cup ClaimsOf(ans)
    <3>1. Head(received) \in ProperStamp
      BY <2>2, Heads
    <3>2. CASE Head(received) = NoStamp
      <4>1. ans.acct \in Account
        BY <2>2, <3>2 DEF Said
      <4>2. [conn |-> c, acct |-> ans.acct] \in claims'
        BY <2>2, <3>2 DEF ClaimsOf
      <4>. QED  BY <4>1, <4>2 DEF Proved, Named
    <3>3. CASE Head(received) # NoStamp
      <4>1. ans.acct = Head(received).acct /\ ans.acct \in Proved
        BY <2>2, <3>1, <3>3 DEF Said, ProperStamp
      <4>. QED  BY <1>1, <4>1 DEF Proved
    <3>. QED  BY <3>2, <3>3
  <2>. QED  BY <2>1, <2>2, Taken
<1>. QED  BY <1>2 DEF TypeOK, ProperMachine, Machine, ProperStamp, Stamp, Welcome, Removed,
                      AccountEvent

(* A login's event. *)
LEMMA AuthIsProper ==
  ASSUME TypeOK, Credentials, NEW c \in Conn, thread[c] = "push"
  PROVE  [type |-> "AUTH", id |-> tmp[c], cred |-> cred[c]] \in ProperAuth
<1>1. cred[c] \in Cred /\ tmp[c] \in Nat
  BY DEF Credentials, TypeOK
<1>2. cred[c].right => cred[c].acct \in Proved
  <2>. SUFFICES ASSUME cred[c].right  PROVE cred[c].acct \in Proved
    OBVIOUS
  <2>1. cred[c].right = TRUE /\ cred[c].acct \in Account
    BY <1>1 DEF Cred
  <2>2. cred[c] = [acct |-> cred[c].acct, right |-> TRUE]
    BY <1>1, <2>1 DEF Cred
  <2>. QED  BY <2>1, <2>2 DEF Proved
<1>. QED  BY <1>1, <1>2 DEF ProperAuth, AuthEvent

(* The answer to it. *)
LEMMA AnswerIsProper ==
  ASSUME TypeOK, Verified, dbQueue # <<>>, Event.type = "AUTH"
  PROVE  [type |-> "AUTH", id |-> Event.id, accepted |-> RightPass(Event.cred),
          acct |-> IF RightPass(Event.cred) THEN Event.cred.acct ELSE NoAccount]
            \in ProperAnswer
<1>1. Event \in ProperAuth
  BY Heads DEF AccountEvent
<1>2. Event.id \in Nat /\ Event.cred \in Cred /\ (Event.cred.right => Event.cred.acct \in Proved)
  BY <1>1 DEF ProperAuth, AuthEvent
<1>. QED  BY <1>2 DEF ProperAnswer, NetEvent, RightPass, Cred

LEMMA NextCredentials == TypeOK /\ Credentials /\ [Next]_vars => Credentials'
<1>. SUFFICES ASSUME TypeOK, Credentials, [Next]_vars
              PROVE  Credentials'
  OBVIOUS
<1>1. ASSUME NEW c \in Conn, HandleAcceptTcp(c) PROVE Credentials'
  BY <1>1 DEF HandleAcceptTcp, Credentials, TypeOK
<1>2. ASSUME NEW c \in Conn, RefuseAtOnce(c) PROVE Credentials'
  BY <1>2 DEF RefuseAtOnce, Credentials, TypeOK
<1>3. ASSUME NEW c \in Conn, NickReceived(c) PROVE Credentials'
  BY <1>3 DEF NickReceived, Credentials, TypeOK
<1>4. ASSUME NEW c \in Conn, ThreadRuns(c) PROVE Credentials'
  <2>1. /\ cred' = cred
        /\ thread[c] \in {"start", "push"} \cup Section
        /\ \E s \in {"push", "done"} \cup Section : thread' = [thread EXCEPT ![c] = s]
    BY <1>4 DEF ThreadRuns, ReadId, WriteId, InsertAuth, LinkAuth, FillAuth, PushAuth, Section
  <2>. QED  BY <2>1 DEF Credentials, TypeOK, Section
<1>5. CASE UNCHANGED <<thread, cred>>
  BY <1>5 DEF Credentials
<1>6. \/ UNCHANGED <<thread, cred>>
      \/ \E c \in Conn : HandleAcceptTcp(c) \/ RefuseAtOnce(c) \/ NickReceived(c)
                         \/ ThreadRuns(c)
  BY DEF Next, vars, threadVars, Client, ClientCloses, FrameEnds,
     HandleAnswer, HandleDbEvent, AuthNotFound, RejectAuth, AcceptAuth,
     AcceptAuthSendFails, AcceptAuthThrows, ProcessAuth, RemoveMachine, VerifyPass,
     ChangeAccountState, DataBaseThrows,
     AuthReceived, AuthAsserts, SendWaits
<1>. QED  BY <1>1, <1>2, <1>3, <1>4, <1>5, <1>6

(* The queues, the registry and the stamps stay proper. *)
LEMMA NextVerified == TypeOK /\ Credentials /\ Verified /\ [Next]_vars => Verified'
<1>. SUFFICES ASSUME TypeOK, Credentials, Verified, [Next]_vars
              PROVE  Verified'
  OBVIOUS
<1>. DEFINE D == ProperAuth \cup AccountEvent
<1>0. /\ D \subseteq D' /\ ProperAnswer \subseteq ProperAnswer'
      /\ ProperMachine \subseteq ProperMachine' /\ ProperStamp \subseteq ProperStamp'
  BY SetsGrow
<1>1. SUFFICES /\ dbQueue' \in Seq(D)
               /\ netQueue' \in Seq(ProperAnswer)
               /\ mMachines' \in Seq(ProperMachine')
               /\ received' \in Seq(ProperStamp)
               /\ mParent' \in [Conn -> ProperStamp']
  BY <1>0, SeqGrows DEF Verified
<1>2. /\ dbQueue \in Seq(D) /\ netQueue \in Seq(ProperAnswer)
      /\ mMachines \in Seq(ProperMachine) /\ mMachines \in Seq(ProperMachine')
      /\ received \in Seq(ProperStamp)
      /\ mParent \in [Conn -> ProperStamp] /\ mParent \in [Conn -> ProperStamp']
  BY <1>0, SeqGrows DEF Verified
<1>3. CASE UNCHANGED <<dbQueue, netQueue, mMachines, received, mParent>>
  BY <1>2, <1>3
<1>4. ASSUME NEW c \in Conn, PushAuth(c)
      PROVE  dbQueue' \in Seq(D) /\ UNCHANGED <<netQueue, mMachines, received, mParent>>
  <2>1. [type |-> "AUTH", id |-> tmp[c], cred |-> cred[c]] \in D
    BY <1>4, AuthIsProper DEF PushAuth
  <2>. HIDE DEF D
  <2>. QED  BY <1>2, <1>4, <2>1, AppendProperties DEF PushAuth, engineVars, sockets, receivedVars
<1>5. ASSUME NEW ans, ProcessAuth(ans)
      PROVE  netQueue' \in Seq(ProperAnswer) /\ received' \in Seq(ProperStamp)
  BY <1>5, Left
<1>6. ASSUME NEW ans, AuthNotFound(ans) \/ \E c \in Conn : RejectAuth(ans, c)
      PROVE  ProcessAuth(ans) /\ UNCHANGED <<dbQueue, mMachines, mParent>>
  BY <1>6 DEF AuthNotFound, RejectAuth
<1>7. ASSUME NEW ans, NEW c \in Conn,
             AcceptAuth(ans, c) \/ AcceptAuthSendFails(ans, c) \/ AcceptAuthThrows(ans, c)
      PROVE  /\ ProcessAuth(ans)
             /\ dbQueue' \in Seq(D) /\ mMachines' \in Seq(ProperMachine')
             /\ mParent' \in [Conn -> ProperStamp']
  <2>. DEFINE m == [id |-> mNextMachineID, conn |-> c, acct |-> ans.acct]
              s == [id |-> mNextMachineID, acct |-> ans.acct]
  <2>1. /\ ProcessAuth(ans) /\ c \in FindAuth(ans.id) /\ ans.accepted
        /\ mParent' = [mParent EXCEPT ![c] = s]
    BY <1>7 DEF AcceptAuth, AcceptAuthSendFails, AcceptAuthThrows, NetMachine
  <2>2. /\ m \in ProperMachine' /\ s \in ProperStamp'
        /\ Welcome(ans.acct) \in D /\ Removed(ans.acct) \in D
    BY <2>1, MachineFromAnswer
  <2>3. /\ mMachines' = mMachines \/ mMachines' = Append(mMachines, m)
        /\ \/ dbQueue' = dbQueue
           \/ dbQueue' = Append(dbQueue, Welcome(ans.acct))
           \/ dbQueue' = dbQueue \o WelcomedAndRemoved(ans.acct)
    BY <1>7 DEF AcceptAuth, AcceptAuthSendFails, AcceptAuthThrows
  <2>. HIDE DEF D, m, s
  <2>4. WelcomedAndRemoved(ans.acct) \in Seq(D)
    BY <2>2 DEF WelcomedAndRemoved
  <2>5. dbQueue' \in Seq(D)
    <3>1. /\ Append(dbQueue, Welcome(ans.acct)) \in Seq(D)
          /\ dbQueue \o WelcomedAndRemoved(ans.acct) \in Seq(D)
      BY <1>2, <2>2, <2>4, AppendProperties, ConcatProperties
    <3>. QED  BY <1>2, <2>3, <3>1, Zenon
  <2>6. mMachines' \in Seq(ProperMachine')
    <3>1. Append(mMachines, m) \in Seq(ProperMachine')
      BY <1>2, <2>2, AppendProperties
    <3>. QED  BY <1>2, <2>3, <3>1, Zenon
  <2>7. mParent' \in [Conn -> ProperStamp']
    BY <1>2, <2>1, <2>2
  <2>. QED  BY <2>1, <2>5, <2>6, <2>7
<1>8. ASSUME NEW i \in 1 .. Len(mMachines), RemoveMachine(i)
      PROVE  /\ dbQueue' \in Seq(D) /\ UNCHANGED <<netQueue, received, mParent>>
             /\ mMachines' \in Seq(ProperMachine')
  <2>1. mMachines[i] \in ProperMachine
    BY <1>2, ElementOfSeq
  <2>2. Removed(mMachines[i].acct) \in D
    BY <2>1 DEF ProperMachine, Machine, Removed, AccountEvent
  <2>. HIDE DEF D
  <2>3. dbQueue' \in Seq(D)
    BY <1>2, <1>8, <2>2, AppendProperties DEF RemoveMachine
  <2>4. mMachines' \in Seq(ProperMachine')
    BY <1>2, <1>8, RemoveOne DEF RemoveMachine
  <2>. QED  BY <1>8, <2>3, <2>4 DEF RemoveMachine, receivedVars, sockets
<1>9. CASE VerifyPass
  <2>1. dbQueue # <<>> /\ Event.type = "AUTH"
    BY <1>9 DEF VerifyPass
  <2>2. /\ dbQueue' \in Seq(D) /\ UNCHANGED <<mMachines, received, mParent>>
    BY <1>9, <2>1, Heads DEF VerifyPass, engineVars, receivedVars, sockets
  <2>3. netQueue' \in Seq(ProperAnswer)
    BY <1>2, <1>9, <2>1, AnswerIsProper, AppendProperties DEF VerifyPass
  <2>. QED  BY <1>2, <2>2, <2>3
<1>10. CASE ChangeAccountState \/ DataBaseThrows
  BY <1>2, <1>10, Heads DEF ChangeAccountState, DataBaseThrows, receivedVars, sockets
<1>11. CASE AuthReceived
  <2>1. PICK s \in {NoStamp} \cup {mParent[c] : c \in Conn} : received' = Append(received, s)
    BY <1>11 DEF AuthReceived
  <2>2. s \in ProperStamp
    BY <1>2 DEF ProperStamp
  <2>3. UNCHANGED <<dbQueue, netQueue, mMachines, mParent>>
    BY <1>11 DEF AuthReceived, engineVars, sockets
  <2>. QED  BY <1>2, <2>1, <2>2, <2>3, AppendProperties
<1>12. CASE AuthAsserts
  BY <1>2, <1>12, Heads DEF AuthAsserts, sockets
<1>13. \/ UNCHANGED <<dbQueue, netQueue, mMachines, received, mParent>>
       \/ \E c \in Conn : PushAuth(c)
       \/ \E ans \in Answers :
             \/ AuthNotFound(ans)
             \/ \E c \in Conn : \/ RejectAuth(ans, c) \/ AcceptAuth(ans, c)
                                \/ AcceptAuthSendFails(ans, c) \/ AcceptAuthThrows(ans, c)
       \/ VerifyPass \/ ChangeAccountState \/ DataBaseThrows
       \/ AuthReceived \/ AuthAsserts
       \/ \E i \in 1 .. Len(mMachines) : RemoveMachine(i)
  BY DEF Next, vars, engineVars, sockets, receivedVars, Client, ThreadRuns, HandleAcceptTcp,
     ClientCloses, RefuseAtOnce, NickReceived, ReadId, WriteId, InsertAuth, LinkAuth, FillAuth,
     FrameEnds, HandleAnswer, HandleDbEvent, SendWaits
<1>. QED
  BY <1>2, <1>3, <1>4, <1>5, <1>6, <1>7, <1>8, <1>9, <1>10, <1>11, <1>12, <1>13, Zenon

LEMMA NextTypeOK == TypeOK /\ Credentials /\ Verified /\ [Next]_vars => TypeOK'
<1>. SUFFICES ASSUME TypeOK, Credentials, Verified, [Next]_vars
              PROVE  TypeOK'
  OBVIOUS
<1>1. /\ dbQueue' \in Seq(DbEvent) /\ netQueue' \in Seq(NetEvent)
      /\ mMachines' \in Seq(Machine) /\ received' \in Seq(Stamp \cup {NoStamp})
      /\ mParent' \in [Conn -> Stamp \cup {NoStamp}]
  <2>1. Verified'
    BY NextVerified
  <2>2. /\ (ProperAuth \cup AccountEvent)' \subseteq DbEvent
        /\ ProperAnswer' \subseteq NetEvent /\ ProperMachine' \subseteq Machine
        /\ ProperStamp' \subseteq Stamp \cup {NoStamp}
    BY DEF ProperAuth, AuthEvent, AccountEvent, ProperAnswer, ProperMachine, ProperStamp,
           DbEvent
  <2>3. mParent' \in [Conn -> Stamp \cup {NoStamp}]
    BY <2>1, <2>2 DEF Verified
  <2>. QED  BY <2>1, <2>2, <2>3, SeqGrows DEF Verified
<1>2. /\ thread' \in [Conn -> ThreadState] /\ cred' \in [Conn -> Cred \cup {NoCred}]
      /\ tmp' \in [Conn -> Nat] /\ seen' \in [Conn -> SUBSET Nat] /\ id' \in Nat
      /\ DOMAIN mAuth' \subseteq Nat /\ mAuth' \in [DOMAIN mAuth' -> Conn]
  <2>1. CASE UNCHANGED <<thread, cred, tmp, seen, id, mAuth>>
    BY <2>1 DEF TypeOK
  <2>0. ASSUME NEW c \in Conn, NEW s \in ThreadState, thread' = [thread EXCEPT ![c] = s]
        PROVE  thread' \in [Conn -> ThreadState]
    BY <2>0 DEF TypeOK
  <2>01. {"receive", "done", "start", "write", "key", "link", "fill", "push"} \subseteq ThreadState
    BY DEF ThreadState, Section
  <2>2. ASSUME NEW c \in Conn, HandleAcceptTcp(c) \/ RefuseAtOnce(c) \/ NickReceived(c)
        PROVE  /\ thread' \in [Conn -> ThreadState] /\ cred' \in [Conn -> Cred \cup {NoCred}]
               /\ UNCHANGED <<tmp, seen, id, mAuth>>
    <3>1. thread' \in [Conn -> ThreadState]
      BY <2>0, <2>01, <2>2 DEF HandleAcceptTcp, RefuseAtOnce, NickReceived
    <3>2. cred' \in [Conn -> Cred \cup {NoCred}]
      BY <2>2 DEF HandleAcceptTcp, RefuseAtOnce, NickReceived, TypeOK
    <3>. QED  BY <2>2, <3>1, <3>2 DEF HandleAcceptTcp, RefuseAtOnce, NickReceived
  <2>3. ASSUME NEW c \in Conn, ReadId(c) \/ WriteId(c) \/ InsertAuth(c) \/ FillAuth(c)
                               \/ PushAuth(c)
        PROVE  /\ thread' \in [Conn -> ThreadState] /\ UNCHANGED <<cred, mAuth>>
               /\ tmp' \in [Conn -> Nat] /\ seen' \in [Conn -> SUBSET Nat] /\ id' \in Nat
    <3>1. thread' \in [Conn -> ThreadState]
      BY <2>0, <2>01, <2>3 DEF ReadId, WriteId, InsertAuth, FillAuth, PushAuth
    <3>2. tmp' \in [Conn -> Nat] /\ id' \in Nat
      <4>1. /\ tmp' = tmp \/ tmp' = [tmp EXCEPT ![c] = id]
            /\ id' = id \/ id' = tmp[c] + 1
        BY <2>3 DEF ReadId, WriteId, InsertAuth, FillAuth, PushAuth, Incremented
      <4>2. tmp \in [Conn -> Nat] /\ id \in Nat
        BY DEF TypeOK
      <4>. QED  BY <4>1, <4>2
    <3>3. seen' \in [Conn -> SUBSET Nat]
      <4>1. seen' = seen \/ seen' = [seen EXCEPT ![c] = DOMAIN mAuth]
        BY <2>3 DEF ReadId, WriteId, InsertAuth, FillAuth, PushAuth
      <4>2. seen \in [Conn -> SUBSET Nat] /\ DOMAIN mAuth \in SUBSET Nat
        BY DEF TypeOK
      <4>. QED  BY <4>1, <4>2
    <3>4. UNCHANGED <<cred, mAuth>>
      BY <2>3 DEF ReadId, WriteId, InsertAuth, FillAuth, PushAuth
    <3>. QED  BY <3>1, <3>2, <3>3, <3>4
  <2>4. ASSUME NEW c \in Conn, LinkAuth(c)
        PROVE  /\ thread' \in [Conn -> ThreadState] /\ UNCHANGED <<cred, tmp, seen, id>>
               /\ DOMAIN mAuth' \subseteq Nat /\ mAuth' \in [DOMAIN mAuth' -> Conn]
    <3>1. PICK kept \in {DOMAIN mAuth, seen[c] \cap DOMAIN mAuth},
               owner \in {c} \cup {mAuth[k] : k \in DOMAIN mAuth \cap {tmp[c]}} :
               mAuth' = Linked(kept, tmp[c], owner)
      BY <2>4 DEF LinkAuth
    <3>2. kept \subseteq DOMAIN mAuth /\ owner \in Conn /\ tmp[c] \in Nat
      BY <3>1 DEF TypeOK
    <3>3. /\ DOMAIN mAuth' = kept \cup {tmp[c]}
          /\ \A j \in kept \cup {tmp[c]} : mAuth'[j] \in Conn
          /\ mAuth' = [j \in kept \cup {tmp[c]} |-> mAuth'[j]]
      BY <3>1, <3>2 DEF Linked, TypeOK
    <3>4. mAuth' \in [DOMAIN mAuth' -> Conn] /\ DOMAIN mAuth' \subseteq Nat
      BY <3>2, <3>3 DEF TypeOK
    <3>5. thread' \in [Conn -> ThreadState] /\ UNCHANGED <<cred, tmp, seen, id>>
      BY <2>0, <2>01, <2>4 DEF LinkAuth
    <3>. QED  BY <3>4, <3>5
  <2>5. \/ UNCHANGED <<thread, cred, tmp, seen, id, mAuth>>
        \/ \E c \in Conn : \/ HandleAcceptTcp(c) \/ RefuseAtOnce(c) \/ NickReceived(c)
                           \/ ReadId(c) \/ WriteId(c) \/ InsertAuth(c) \/ FillAuth(c)
                           \/ PushAuth(c) \/ LinkAuth(c)
    BY ThreadMoves
  <2>. QED  BY <2>1, <2>2, <2>3, <2>4, <2>5 DEF TypeOK
<1>3. UNCHANGED claims \/ \E ans : ProcessAuth(ans)
  BY DEF Next, vars, receivedVars, Client, ThreadRuns, HandleAcceptTcp, ClientCloses,
     RefuseAtOnce, NickReceived, ReadId, WriteId, InsertAuth, LinkAuth, FillAuth, PushAuth,
     FrameEnds, HandleAnswer, HandleDbEvent, AuthNotFound, RejectAuth, AcceptAuth,
     AcceptAuthSendFails, AcceptAuthThrows, RemoveMachine, VerifyPass, ChangeAccountState,
     DataBaseThrows, AuthReceived, AuthAsserts, SendWaits
<1>4. claims' \subseteq Claim
  <2>1. ASSUME NEW ans, ProcessAuth(ans)  PROVE claims' \subseteq Claim
    <3>1. CASE claims' = claims
      BY <3>1 DEF TypeOK
    <3>2. CASE /\ received # <<>> /\ ans \in Said(Head(received))
               /\ claims' = claims \cup ClaimsOf(ans)
      <4>1. Head(received) \in Stamp \cup {NoStamp}
        BY <3>2, Heads, ProperTypes
      <4>2. ans.acct \in Account \cup {NoAccount}
        BY <3>2, <4>1 DEF Said, Stamp
      <4>3. FindAuth(ans.id) \subseteq Conn
        BY DEF FindAuth, TypeOK
      <4>. QED  BY <3>2, <4>2, <4>3 DEF ClaimsOf, Claim, TypeOK
    <3>. QED  BY <2>1, <3>1, <3>2, Taken
  <2>. QED  BY <1>3, <2>1 DEF TypeOK
<1>. DEFINE Stages == {"net", "received", "db", "dead", "waits"}
            Answered == {"accepted", "refused"}
            Rest == /\ stage' \in Stages /\ mNextMachineID' \in Nat
                    /\ raced' \in BOOLEAN /\ auths' \in Nat /\ waitsFor' \subseteq Conn
                    /\ open' \in [Conn -> BOOLEAN] /\ gone' \in [Conn -> BOOLEAN]
                    /\ online' \in [Account -> BOOLEAN]
                    /\ told' \in [Conn -> Seq(Answered)]
<1>5. Rest
  <2>0. ASSUME NEW c \in Conn, NEW a \in Answered, Tell(c, a)
        PROVE  told' \in [Conn -> Seq(Answered)]
    <3>1. Append(told[c], a) \in Seq(Answered)
      BY AppendProperties DEF TypeOK
    <3>. QED  BY <2>0, <3>1 DEF Tell, TypeOK
  <2>1. ASSUME NEW c \in Conn, Client(c) \/ ThreadRuns(c)
        PROVE  Rest
    <3>1. CASE RefuseAtOnce(c)
      BY <2>0, <3>1 DEF RefuseAtOnce, engineVars, receivedVars, TypeOK
    <3>2. CASE HandleAcceptTcp(c) \/ ClientCloses(c) \/ NickReceived(c)
      <4>1. /\ UNCHANGED <<engineVars, told, raced, auths, waitsFor>>
            /\ open' \in {open, [open EXCEPT ![c] = TRUE]}
            /\ gone' \in {gone, [gone EXCEPT ![c] = TRUE]}
        BY <3>2 DEF HandleAcceptTcp, ClientCloses, NickReceived, sockets, receivedVars
      <4>2. open' \in [Conn -> BOOLEAN] /\ gone' \in [Conn -> BOOLEAN]
        BY <4>1 DEF TypeOK
      <4>. QED  BY <4>1, <4>2 DEF engineVars, TypeOK
    <3>3. CASE ThreadRuns(c)
      <4>1. UNCHANGED <<engineVars, sockets, auths>> /\ raced' \in BOOLEAN
        BY <3>3 DEF ThreadRuns, ReadId, WriteId, InsertAuth, LinkAuth, FillAuth, PushAuth,
                    receivedVars, TypeOK
      <4>. QED  BY <4>1 DEF engineVars, sockets, TypeOK
    <3>. QED  BY <2>1, <3>1, <3>2, <3>3 DEF Client
  <2>2. CASE FrameEnds \/ AuthAsserts
    BY <2>2 DEF FrameEnds, AuthAsserts, sockets, receivedVars, TypeOK
  <2>3. CASE HandleAnswer
    <3>1. raced' \in BOOLEAN /\ UNCHANGED <<online, gone, auths>>
      BY <2>3 DEF HandleAnswer, AuthNotFound, RejectAuth, AcceptAuth, AcceptAuthSendFails,
                  AcceptAuthThrows, ProcessAuth, TypeOK
    <3>2. told' \in [Conn -> Seq(Answered)]
      BY <2>0, <2>3 DEF HandleAnswer, AuthNotFound, RejectAuth, AcceptAuth,
                        AcceptAuthSendFails, AcceptAuthThrows, Sends, TypeOK
    <3>3. open' \in [Conn -> BOOLEAN]
      <4>1. open' = open \/ \E c \in Conn : open' = [open EXCEPT ![c] = FALSE]
        BY <2>3, Zenon DEF HandleAnswer, AuthNotFound, RejectAuth, AcceptAuth,
                           AcceptAuthSendFails, AcceptAuthThrows
      <4>. QED  BY <4>1 DEF TypeOK
    <3>4. /\ stage' \in Stages /\ mNextMachineID' \in Nat /\ waitsFor' \subseteq Conn
      <4>1. /\ stage' \in {stage, "dead", "waits"}
            /\ mNextMachineID' \in {mNextMachineID, mNextMachineID + 1}
            /\ waitsFor' = waitsFor \/ \E c \in Conn : waitsFor' = {c}
        BY <2>3 DEF HandleAnswer, AuthNotFound, RejectAuth, AcceptAuth, Sends, WaitsForEver,
                    AcceptAuthSendFails, AcceptAuthThrows, NetMachine, NextMachineID
      <4>. QED  BY <4>1 DEF TypeOK
    <3>. QED  BY <3>1, <3>2, <3>3, <3>4 DEF TypeOK
  <2>4. CASE VerifyPass \/ DataBaseThrows
    BY <2>4 DEF VerifyPass, DataBaseThrows, engineVars, sockets, receivedVars, TypeOK
  <2>5. CASE ChangeAccountState
    <3>1. online' \in [Account -> BOOLEAN]
      BY <2>5 DEF ChangeAccountState, TypeOK
    <3>. QED  BY <2>5, <3>1 DEF ChangeAccountState, sockets, receivedVars, TypeOK
  <2>6. CASE \E i \in 1 .. Len(mMachines) : RemoveMachine(i)
    BY <2>6 DEF RemoveMachine, sockets, receivedVars, TypeOK
  <2>7. ASSUME NEW i \in 1 .. Len(mMachines), SendWaits(i)
        PROVE  Rest
    <3>0. mMachines[i] \in Machine
      BY ElementOfSeq DEF TypeOK
    <3>1. mMachines[i].conn \in Conn
      BY <3>0 DEF Machine
    <3>. QED  BY <2>7, <3>1 DEF SendWaits, WaitsForEver, receivedVars, TypeOK
  <2>8. CASE AuthReceived
    BY <2>8 DEF AuthReceived, engineVars, sockets, TypeOK
  <2>9. CASE UNCHANGED vars
    BY <2>9 DEF vars, engineVars, sockets, receivedVars, TypeOK
  <2>. QED  BY <2>1, <2>2, <2>3, <2>4, <2>5, <2>6, <2>7, <2>8, <2>9 DEF Next, HandleDbEvent
<1>. QED  BY <1>1, <1>2, <1>4, <1>5 DEF TypeOK

-------------------------------------------------------------------------------
(* The registry's order.                                                   *)

LEMMA NextInOrder ==
  TypeOK /\ Credentials /\ Verified /\ MachinesInOrder /\ [Next]_vars => MachinesInOrder'
<1>. SUFFICES ASSUME TypeOK, Credentials, Verified, MachinesInOrder, [Next]_vars
              PROVE  MachinesInOrder'
  OBVIOUS
<1>0. /\ mMachines \in Seq(Machine) /\ Len(mMachines) \in Nat /\ mNextMachineID \in Nat
      /\ \A i \in 1 .. Len(mMachines) : mMachines[i].id \in Nat
  <2>1. \A i \in 1 .. Len(mMachines) : mMachines[i] \in Machine
    BY ElementOfSeq DEF TypeOK
  <2>. QED  BY <2>1, LenProperties DEF TypeOK, Machine
<1>1. CASE UNCHANGED mMachines /\ mNextMachineID' \in {mNextMachineID, mNextMachineID + 1}
  <2>1. /\ \A i \in 1 .. Len(mMachines) : mMachines[i].id < mNextMachineID'
        /\ mMachines' = mMachines
    BY <1>0, <1>1 DEF MachinesInOrder
  <2>. QED  BY <2>1 DEF MachinesInOrder
<1>2. ASSUME NEW ans, NEW c \in Conn, AcceptAuth(ans, c)
      PROVE  MachinesInOrder'
  <2>. DEFINE m == [id |-> mNextMachineID, conn |-> c, acct |-> ans.acct]
  <2>1. m \in Machine /\ m.id = mNextMachineID
    BY <1>2, MachineFromAnswer DEF AcceptAuth, Machine, TypeOK
  <2>2. mMachines' = Append(mMachines, m) /\ mNextMachineID' = mNextMachineID + 1
    BY <1>2 DEF AcceptAuth, NetMachine, NextMachineID
  <2>. HIDE DEF m
  <2>3. /\ Len(mMachines') = Len(mMachines) + 1
        /\ \A i \in 1 .. Len(mMachines') :
              \/ i \in 1 .. Len(mMachines) /\ mMachines'[i] = mMachines[i]
              \/ i = Len(mMachines) + 1 /\ mMachines'[i] = m
    BY <1>0, <2>1, <2>2, AppendElements
  <2>. QED  BY <1>0, <2>1, <2>2, <2>3 DEF MachinesInOrder
<1>3. ASSUME NEW i \in 1 .. Len(mMachines), RemoveMachine(i)
      PROVE  MachinesInOrder'
  <2>1. /\ Len(mMachines') = Len(mMachines) - 1 /\ mNextMachineID' = mNextMachineID
        /\ \A j \in 1 .. Len(mMachines') :
              mMachines'[j] = mMachines[IF j < i THEN j ELSE j + 1]
    BY <1>0, <1>3, RemoveOne DEF RemoveMachine
  <2>2. ASSUME NEW j \in 1 .. Len(mMachines'), NEW k \in 1 .. Len(mMachines')
        PROVE  /\ mMachines'[j].id < mNextMachineID
               /\ j < k => mMachines'[j].id < mMachines'[k].id
    <3>. DEFINE p == IF j < i THEN j ELSE j + 1
                q == IF k < i THEN k ELSE k + 1
    <3>1. p \in 1 .. Len(mMachines) /\ q \in 1 .. Len(mMachines) /\ (j < k => p < q)
      BY <1>0, <2>1
    <3>2. mMachines'[j] = mMachines[p] /\ mMachines'[k] = mMachines[q]
      BY <2>1
    <3>. HIDE DEF p, q
    <3>. QED  BY <3>1, <3>2 DEF MachinesInOrder
  <2>. QED  BY <2>1, <2>2 DEF MachinesInOrder
<1>4. \/ UNCHANGED mMachines /\ mNextMachineID' \in {mNextMachineID, mNextMachineID + 1}
      \/ \E ans \in Answers, c \in Conn : AcceptAuth(ans, c)
      \/ \E i \in 1 .. Len(mMachines) : RemoveMachine(i)
  BY DEF Next, vars, engineVars, Client, ThreadRuns, HandleAcceptTcp, ClientCloses,
     RefuseAtOnce, NickReceived, ReadId, WriteId, InsertAuth, LinkAuth, FillAuth, PushAuth,
     FrameEnds, HandleAnswer, HandleDbEvent, AuthNotFound, RejectAuth,
     AcceptAuthSendFails, AcceptAuthThrows, NetMachine, NextMachineID, VerifyPass,
     ChangeAccountState, DataBaseThrows,
     AuthReceived, AuthAsserts, SendWaits
<1>. QED  BY <1>1, <1>2, <1>3, <1>4

-------------------------------------------------------------------------------
(* Who is online.                                                          *)

Present(a) == \E i \in 1 .. Len(mMachines) : mMachines[i].acct = a

(* An event behind the others decides about its own account only.          *)
LEMMA AppendedOnline ==
  ASSUME TypeOK, NEW a \in Account, NEW e \in DbEvent,
         dbQueue' = Append(dbQueue, e), online' = online, FinallyOnline(a)'
  PROVE  e # Removed(a) /\ (e = Welcome(a) \/ FinallyOnline(a))
<1>1. /\ Len(dbQueue) \in Nat /\ Len(dbQueue') = Len(dbQueue) + 1
      /\ dbQueue'[Len(dbQueue) + 1] = e
      /\ \A i \in 1 .. Len(dbQueue) : dbQueue'[i] = dbQueue[i]
  BY AppendProperties, LenProperties DEF TypeOK
<1>2. CASE online[a] /\ \A j \in 1 .. Len(dbQueue') : dbQueue'[j] # Removed(a)
  <2>1. \A j \in 1 .. Len(dbQueue) : dbQueue[j] # Removed(a)
    BY <1>1, <1>2
  <2>. QED  BY <1>1, <1>2, <2>1 DEF FinallyOnline
<1>3. ASSUME NEW i \in 1 .. Len(dbQueue'), dbQueue'[i] = Welcome(a),
             \A j \in i + 1 .. Len(dbQueue') : dbQueue'[j] # Removed(a)
      PROVE  e # Removed(a) /\ (e = Welcome(a) \/ FinallyOnline(a))
  <2>1. CASE i = Len(dbQueue) + 1
    BY <1>1, <1>3, <2>1 DEF Welcome, Removed
  <2>2. CASE i \in 1 .. Len(dbQueue)
    <3>1. \A j \in i + 1 .. Len(dbQueue) : dbQueue[j] # Removed(a)
      BY <1>1, <1>3, <2>2
    <3>2. dbQueue[i] = Welcome(a) /\ Len(dbQueue) + 1 \in i + 1 .. Len(dbQueue')
      BY <1>1, <1>3, <2>2
    <3>. QED  BY <1>1, <1>3, <2>2, <3>1, <3>2 DEF FinallyOnline
  <2>. QED  BY <1>1, <2>1, <2>2
<1>4. CASE online[a] /\ \A j \in 0 + 1 .. Len(dbQueue') : dbQueue'[j] # Removed(a)
  BY <1>2, <1>4
<1>. QED  BY <1>3, <1>4 DEF FinallyOnline, Removed

(* Handling the event in front does not change what the queue comes to.    *)
LEMMA HandledOnline ==
  ASSUME TypeOK, NEW a \in Account, dbQueue # <<>>, dbQueue' = Tail(dbQueue),
         \/ online'[a] = online[a] /\ Event # Removed(a)
         \/ online'[a] = TRUE /\ Event = Welcome(a)
         \/ online'[a] = FALSE,
         FinallyOnline(a)'
  PROVE  FinallyOnline(a)
<1>1. /\ Len(dbQueue) \in Nat /\ Len(dbQueue') = Len(dbQueue) - 1
      /\ 1 \in 1 .. Len(dbQueue) /\ Event = dbQueue[1]
      /\ \A i \in 1 .. Len(dbQueue') : i + 1 \in 1 .. Len(dbQueue) /\ dbQueue'[i] = dbQueue[i + 1]
  BY TailElements DEF TypeOK, Event
<1>2. ASSUME NEW k \in Nat, \A j \in k + 1 .. Len(dbQueue') : dbQueue'[j] # Removed(a)
      PROVE  \A j \in k + 2 .. Len(dbQueue) : dbQueue[j] # Removed(a)
  <2>. SUFFICES ASSUME NEW j \in k + 2 .. Len(dbQueue)  PROVE dbQueue[j] # Removed(a)
    OBVIOUS
  <2>1. j - 1 \in k + 1 .. Len(dbQueue') /\ j - 1 \in 1 .. Len(dbQueue')
    BY <1>1
  <2>2. dbQueue'[j - 1] = dbQueue[j]
    BY <1>1, <2>1
  <2>. QED  BY <1>2, <2>1, <2>2
<1>3. CASE online'[a] /\ \A j \in 0 + 1 .. Len(dbQueue') : dbQueue'[j] # Removed(a)
  <2>1. \A j \in 0 + 2 .. Len(dbQueue) : dbQueue[j] # Removed(a)
    BY <1>2, <1>3
  <2>2. CASE Event = Welcome(a)
    <3>1. 1 \in 1 .. Len(dbQueue) /\ dbQueue[1] = Welcome(a)
      BY <1>1, <2>2
    <3>2. \A j \in 1 + 1 .. Len(dbQueue) : dbQueue[j] # Removed(a)
      BY <2>1
    <3>. QED  BY <3>1, <3>2 DEF FinallyOnline
  <2>3. CASE online[a] /\ Event # Removed(a)
    <3>1. \A j \in 0 + 1 .. Len(dbQueue) : dbQueue[j] # Removed(a)
      BY <1>1, <2>1, <2>3
    <3>. QED  BY <2>3, <3>1 DEF FinallyOnline
  <2>. QED  BY <1>3, <2>2, <2>3
<1>4. ASSUME NEW i \in 1 .. Len(dbQueue'), dbQueue'[i] = Welcome(a),
             \A j \in i + 1 .. Len(dbQueue') : dbQueue'[j] # Removed(a)
      PROVE  FinallyOnline(a)
  <2>1. \A j \in i + 2 .. Len(dbQueue) : dbQueue[j] # Removed(a)
    BY <1>1, <1>2, <1>4
  <2>2. i + 1 \in 1 .. Len(dbQueue) /\ dbQueue[i + 1] = Welcome(a) /\ (i + 1) + 1 = i + 2
    BY <1>1, <1>4
  <2>. QED  BY <2>1, <2>2 DEF FinallyOnline
<1>. QED  BY <1>3, <1>4 DEF FinallyOnline, Removed, Welcome

LEMMA NextOnline ==
  TypeOK /\ Credentials /\ Verified /\ OnlineMeansPresent /\ [Next]_vars => OnlineMeansPresent'
<1>. SUFFICES ASSUME TypeOK, Credentials, Verified, OnlineMeansPresent, [Next]_vars,
                     NEW a \in Account, stage' # "dead", FinallyOnline(a)'
              PROVE  Present(a)'
  BY DEF OnlineMeansPresent, Present
<1>0. FinallyOnline(a) => Present(a)
  <2>1. stage = "dead" => stage' = "dead"
    <3>1. ASSUME NEW ans, ProcessAuth(ans)  PROVE stage # "dead"
      BY <3>1, Taken
    <3>2. UNCHANGED stage \/ stage # "dead" \/ \E ans : ProcessAuth(ans)
      BY DEF Next, vars, engineVars, Client, ThreadRuns, HandleAcceptTcp, ClientCloses,
         RefuseAtOnce, NickReceived, ReadId, WriteId, InsertAuth, LinkAuth, FillAuth, PushAuth,
         FrameEnds, HandleAnswer, HandleDbEvent, AuthNotFound, RejectAuth, AcceptAuth,
         AcceptAuthSendFails, AcceptAuthThrows, RemoveMachine, VerifyPass,
         ChangeAccountState, DataBaseThrows, AuthReceived, AuthAsserts, SendWaits
    <3>. QED  BY <3>1, <3>2
  <2>. QED  BY <2>1 DEF OnlineMeansPresent, Present
<1>1. CASE UNCHANGED <<dbQueue, online, mMachines>>
  BY <1>0, <1>1 DEF FinallyOnline, Present
<1>2. ASSUME NEW c \in Conn, PushAuth(c)
      PROVE  Present(a)'
  <2>. DEFINE e == [type |-> "AUTH", id |-> tmp[c], cred |-> cred[c]]
  <2>1. e \in DbEvent /\ e.type = "AUTH"
    BY <1>2, AuthIsProper, ProperTypes DEF PushAuth
  <2>2. dbQueue' = Append(dbQueue, e) /\ online' = online /\ mMachines' = mMachines
    BY <1>2 DEF PushAuth, engineVars
  <2>. HIDE DEF e
  <2>3. FinallyOnline(a)
    BY <2>1, <2>2, AppendedOnline DEF Welcome
  <2>. QED  BY <1>0, <2>2, <2>3 DEF Present
<1>3. ASSUME NEW ans, NEW c \in Conn, AcceptAuth(ans, c)
      PROVE  Present(a)'
  <2>. DEFINE m == [id |-> mNextMachineID, conn |-> c, acct |-> ans.acct]
  <2>1. m \in Machine /\ m.acct = ans.acct /\ Welcome(ans.acct) \in DbEvent
    BY <1>3, MachineFromAnswer, ProperTypes DEF AcceptAuth, Machine, TypeOK
  <2>2. /\ dbQueue' = Append(dbQueue, Welcome(ans.acct)) /\ online' = online
        /\ mMachines' = Append(mMachines, m)
    BY <1>3 DEF AcceptAuth, ProcessAuth
  <2>. HIDE DEF m
  <2>3. /\ Len(mMachines) \in Nat /\ Len(mMachines') = Len(mMachines) + 1
        /\ mMachines'[Len(mMachines) + 1] = m
        /\ \A i \in 1 .. Len(mMachines) : mMachines'[i] = mMachines[i]
    BY <2>1, <2>2, AppendProperties, LenProperties DEF TypeOK
  <2>4. CASE ans.acct = a
    BY <2>1, <2>3, <2>4 DEF Present
  <2>5. CASE ans.acct # a
    <3>1. FinallyOnline(a)
      BY <2>1, <2>2, <2>5, AppendedOnline DEF Welcome
    <3>. QED  BY <1>0, <2>3, <3>1 DEF Present
  <2>. QED  BY <2>4, <2>5
<1>4. ASSUME NEW ans, NEW c \in Conn, AcceptAuthSendFails(ans, c)
      PROVE  Present(a)'
  <2>. DEFINE b == ans.acct
  <2>1. Welcome(b) \in DbEvent /\ Removed(b) \in DbEvent
    BY <1>4, MachineFromAnswer, ProperTypes DEF AcceptAuthSendFails
  <2>2. /\ dbQueue' = dbQueue \o <<Welcome(b), Removed(b)>> /\ online' = online
        /\ mMachines' = mMachines
    BY <1>4 DEF AcceptAuthSendFails, ProcessAuth, WelcomedAndRemoved
  <2>. HIDE DEF b
  <2>3. /\ Len(dbQueue) \in Nat /\ Len(dbQueue') = Len(dbQueue) + 2
        /\ dbQueue'[Len(dbQueue) + 1] = Welcome(b) /\ dbQueue'[Len(dbQueue) + 2] = Removed(b)
        /\ \A i \in 1 .. Len(dbQueue) : dbQueue'[i] = dbQueue[i]
    <3>1. /\ dbQueue \in Seq(DbEvent) /\ <<Welcome(b), Removed(b)>> \in Seq(DbEvent)
          /\ Len(<<Welcome(b), Removed(b)>>) = 2
      BY <2>1 DEF TypeOK
    <3>. DEFINE w == <<Welcome(b), Removed(b)>>
    <3>2. w[1] = Welcome(b) /\ w[2] = Removed(b)
      OBVIOUS
    <3>. HIDE DEF w
    <3>3. /\ Len(dbQueue') = Len(dbQueue) + 2 /\ Len(dbQueue) \in Nat
          /\ \A i \in 1 .. Len(dbQueue) + 2 : dbQueue'[i] =
                IF i <= Len(dbQueue) THEN dbQueue[i] ELSE w[i - Len(dbQueue)]
      BY <2>2, <3>1, ConcatProperties, LenProperties DEF w
    <3>. QED  BY <3>2, <3>3
  <2>4. FinallyOnline(a)
    <3>1. CASE online[a] /\ \A j \in 0 + 1 .. Len(dbQueue') : dbQueue'[j] # Removed(a)
      <4>1. \A j \in 0 + 1 .. Len(dbQueue) : dbQueue[j] # Removed(a)
        BY <2>3, <3>1
      <4>. QED  BY <3>1, <4>1 DEF FinallyOnline
    <3>2. ASSUME NEW i \in 1 .. Len(dbQueue'), dbQueue'[i] = Welcome(a),
                 \A j \in i + 1 .. Len(dbQueue') : dbQueue'[j] # Removed(a)
          PROVE  FinallyOnline(a)
      <4>1. i # Len(dbQueue) + 2
        BY <2>3, <3>2 DEF Welcome, Removed
      <4>2. i # Len(dbQueue) + 1
        <5>. SUFFICES ASSUME i = Len(dbQueue) + 1  PROVE FALSE
          OBVIOUS
        <5>1. Welcome(a) = Welcome(b)
          BY <2>3, <3>2
        <5>2. a = b
          BY <5>1 DEF Welcome
        <5>3. Len(dbQueue) + 2 \in i + 1 .. Len(dbQueue')
          BY <2>3
        <5>. QED  BY <2>3, <3>2, <5>2, <5>3
      <4>3. i \in 1 .. Len(dbQueue) /\ dbQueue[i] = Welcome(a)
        BY <2>3, <3>2, <4>1, <4>2
      <4>4. \A j \in i + 1 .. Len(dbQueue) : dbQueue[j] # Removed(a)
        BY <2>3, <3>2, <4>3
      <4>. QED  BY <4>3, <4>4 DEF FinallyOnline
    <3>. QED  BY <2>2, <3>1, <3>2 DEF FinallyOnline, Removed, Welcome
  <2>. QED  BY <1>0, <2>2, <2>4 DEF Present
<1>5. ASSUME NEW i \in 1 .. Len(mMachines), RemoveMachine(i)
      PROVE  Present(a)'
  <2>. DEFINE b == mMachines[i].acct
  <2>0. mMachines \in Seq(Machine) /\ mMachines[i] \in Machine /\ Len(mMachines) \in Nat
    BY ElementOfSeq, LenProperties DEF TypeOK
  <2>1. Removed(b) \in DbEvent
    BY <2>0 DEF Machine, Removed, DbEvent
  <2>2. /\ dbQueue' = Append(dbQueue, Removed(b)) /\ online' = online
        /\ Len(mMachines') = Len(mMachines) - 1
        /\ \A j \in 1 .. Len(mMachines') :
              mMachines'[j] = mMachines[IF j < i THEN j ELSE j + 1]
    BY <1>5, <2>0, RemoveOne DEF RemoveMachine
  <2>. HIDE DEF b
  <2>3. Removed(b) # Removed(a) /\ FinallyOnline(a)
    BY <2>1, <2>2, AppendedOnline DEF Removed, Welcome
  <2>4. PICK k \in 1 .. Len(mMachines) : mMachines[k].acct = a
    BY <1>0, <2>3 DEF Present
  <2>5. k # i
    BY <2>3, <2>4 DEF b
  <2>6. CASE k < i
    BY <2>0, <2>2, <2>4, <2>6 DEF Present
  <2>7. CASE k > i
    <3>1. k - 1 \in 1 .. Len(mMachines') /\ mMachines'[k - 1] = mMachines[k]
      BY <2>0, <2>2, <2>7
    <3>. QED  BY <2>4, <3>1 DEF Present
  <2>. QED  BY <2>5, <2>6, <2>7
<1>6. CASE VerifyPass
  <2>1. /\ dbQueue # <<>> /\ dbQueue' = Tail(dbQueue) /\ Event.type = "AUTH"
        /\ online' = online /\ mMachines' = mMachines
    BY <1>6 DEF VerifyPass, engineVars
  <2>2. Event # Removed(a)
    BY <2>1 DEF Removed
  <2>3. FinallyOnline(a)
    BY <2>1, <2>2, HandledOnline
  <2>. QED  BY <1>0, <2>1, <2>3 DEF Present
<1>7. CASE ChangeAccountState
  <2>1. /\ dbQueue # <<>> /\ dbQueue' = Tail(dbQueue) /\ mMachines' = mMachines
        /\ Event.type \in {"WELCOME", "REMOVE_MACHINE"}
        /\ online' = [online EXCEPT ![Event.acct] = (Event.type = "WELCOME")]
    BY <1>7 DEF ChangeAccountState
  <2>2. Event \in AccountEvent
    BY <2>1, Heads DEF ProperAuth, AuthEvent
  <2>3. \/ online'[a] = online[a] /\ Event # Removed(a)
        \/ online'[a] = TRUE /\ Event = Welcome(a)
        \/ online'[a] = FALSE
    <3>1. CASE Event.acct # a
      BY <2>1, <3>1 DEF TypeOK, Removed
    <3>2. CASE Event.acct = a
      <4>1. online'[a] = (Event.type = "WELCOME")
        BY <2>1, <3>2 DEF TypeOK
      <4>2. CASE Event.type = "WELCOME"
        BY <2>2, <3>2, <4>1, <4>2 DEF Welcome, AccountEvent
      <4>3. CASE Event.type # "WELCOME"
        BY <4>1, <4>3
      <4>. QED  BY <4>2, <4>3
    <3>. QED  BY <3>1, <3>2
  <2>4. FinallyOnline(a)
    BY <2>1, <2>3, HandledOnline
  <2>. QED  BY <1>0, <2>1, <2>4 DEF Present
<1>8. \/ UNCHANGED <<dbQueue, online, mMachines>>
      \/ \E c \in Conn : PushAuth(c)
      \/ \E ans \in Answers, c \in Conn : AcceptAuth(ans, c) \/ AcceptAuthSendFails(ans, c)
      \/ \E i \in 1 .. Len(mMachines) : RemoveMachine(i)
      \/ VerifyPass \/ ChangeAccountState
  BY DEF Next, vars, engineVars, Client, ThreadRuns, HandleAcceptTcp, ClientCloses,
     RefuseAtOnce, NickReceived, ReadId, WriteId, InsertAuth, LinkAuth, FillAuth,
     FrameEnds, HandleAnswer, HandleDbEvent, AuthNotFound, RejectAuth,
     AcceptAuthThrows, ProcessAuth, DataBaseThrows, AuthReceived, AuthAsserts, SendWaits
<1>. QED  BY <1>1, <1>2, <1>3, <1>4, <1>5, <1>6, <1>7, <1>8

-------------------------------------------------------------------------------
(* Answers reach who asked: as long as the accesses to id and mAuth have   *)
(* not overlapped, a number leads to one connection for good.              *)

(* The thread in the section, if there is one, has the only use of id.     *)
Numbers ==
    /\ \A c, d \in Conn : thread[c] \in Section /\ thread[d] \in Section => c = d
    /\ \A k \in DOMAIN mAuth : k <= id
    /\ \A j, k \in DOMAIN mAuth : mAuth[j] = mAuth[k] => j = k
    /\ \A k \in DOMAIN mAuth :
          thread[mAuth[k]] \in {"fill", "push", "done"} /\ cred[mAuth[k]] \in Cred
    /\ \A c \in Conn :
          /\ thread[c] = "write" => tmp[c] = id
          /\ thread[c] = "key" => id \notin DOMAIN mAuth
          /\ thread[c] = "link" =>
                tmp[c] = id /\ seen[c] = DOMAIN mAuth /\ id \notin DOMAIN mAuth
          /\ thread[c] = "fill" => id \in DOMAIN mAuth /\ mAuth[id] = c
          /\ thread[c] = "push" => tmp[c] \in DOMAIN mAuth /\ mAuth[tmp[c]] = c

LEMMA RacedStays == TypeOK /\ [Next]_vars /\ ~ raced' => ~ raced
BY DEF Next, vars, Client, ThreadRuns, HandleAcceptTcp, ClientCloses,
   RefuseAtOnce, NickReceived, ReadId, WriteId, InsertAuth, LinkAuth, FillAuth, PushAuth,
   FrameEnds, HandleAnswer, HandleDbEvent, AuthNotFound, RejectAuth, AcceptAuth,
   AcceptAuthSendFails, AcceptAuthThrows, ProcessAuth, RemoveMachine, VerifyPass,
   ChangeAccountState, DataBaseThrows,
     AuthReceived, AuthAsserts, SendWaits

LEMMA LinkedAlone ==
  ASSUME TypeOK, Numbers, NEW c \in Conn, LinkAuth(c)
  PROVE  /\ DOMAIN mAuth' = DOMAIN mAuth \cup {id}
         /\ mAuth'[id] = c
         /\ \A k \in DOMAIN mAuth : mAuth'[k] = mAuth[k]
<1>1. tmp[c] = id /\ seen[c] = DOMAIN mAuth /\ id \notin DOMAIN mAuth
  BY DEF LinkAuth, Numbers
<1>2. mAuth' = Linked(DOMAIN mAuth, id, c)
  BY <1>1 DEF LinkAuth
<1>. QED  BY <1>1, <1>2 DEF Linked

LEMMA NextNumbers ==
  TypeOK /\ Credentials /\ Numbers /\ [Next]_vars /\ ~ raced' =>
      /\ Numbers'
      /\ \A k \in DOMAIN mAuth : k \in DOMAIN mAuth' /\ mAuth'[k] = mAuth[k]
<1>. SUFFICES ASSUME TypeOK, Credentials, Numbers, [Next]_vars, ~ raced'
              PROVE  /\ Numbers'
                     /\ \A k \in DOMAIN mAuth : k \in DOMAIN mAuth' /\ mAuth'[k] = mAuth[k]
  OBVIOUS
<1>. DEFINE Kept == \A k \in DOMAIN mAuth : k \in DOMAIN mAuth' /\ mAuth'[k] = mAuth[k]
<1>0. id \in Nat /\ \A k \in DOMAIN mAuth : k \in Nat /\ mAuth[k] \in Conn
  BY DEF TypeOK
<1>1. CASE UNCHANGED <<thread, cred, tmp, seen, id, mAuth>>
  BY <1>1 DEF Numbers
<1>2. ASSUME NEW c \in Conn, HandleAcceptTcp(c) \/ RefuseAtOnce(c) \/ NickReceived(c)
      PROVE  Numbers' /\ Kept
  <2>1. /\ UNCHANGED <<tmp, seen, id, mAuth>>
        /\ \A d \in Conn \ {c} : thread'[d] = thread[d] /\ cred'[d] = cred[d]
        /\ thread[c] \in {"idle", "receive"} /\ thread'[c] \in {"receive", "done", "start"}
    BY <1>2 DEF HandleAcceptTcp, RefuseAtOnce, NickReceived, TypeOK
  <2>2. \A k \in DOMAIN mAuth : mAuth[k] # c
    BY <2>1 DEF Numbers
  <2>. QED  BY <1>0, <2>1, <2>2 DEF Numbers, Section
<1>3. ASSUME NEW c \in Conn, ReadId(c)
      PROVE  Numbers' /\ Kept
  <2>1. /\ UNCHANGED <<cred, seen, id, mAuth>>
        /\ \A d \in Conn \ {c} : thread'[d] = thread[d] /\ tmp'[d] = tmp[d]
        /\ thread[c] = "start" /\ thread'[c] = "write" /\ tmp'[c] = id
        /\ \A d \in Conn : thread[d] \notin Section
    BY <1>3 DEF ReadId, TypeOK
  <2>2. \A k \in DOMAIN mAuth : mAuth[k] # c
    BY <2>1 DEF Numbers
  <2>. QED  BY <1>0, <2>1, <2>2 DEF Numbers, Section
<1>4. ASSUME NEW c \in Conn, WriteId(c)
      PROVE  Numbers' /\ Kept
  <2>1. /\ UNCHANGED <<cred, tmp, seen, mAuth>> /\ id' = id + 1
        /\ \A d \in Conn \ {c} : thread'[d] = thread[d] /\ thread[d] \notin Section
        /\ thread[c] = "write" /\ thread'[c] = "key"
    BY <1>4 DEF WriteId, Incremented, TypeOK, Numbers, Section
  <2>2. id + 1 \notin DOMAIN mAuth /\ \A k \in DOMAIN mAuth : k <= id + 1 /\ mAuth[k] # c
    BY <1>0, <2>1 DEF Numbers
  <2>. QED  BY <1>0, <2>1, <2>2 DEF Numbers, Section
<1>5. ASSUME NEW c \in Conn, InsertAuth(c)
      PROVE  Numbers' /\ Kept
  <2>1. /\ UNCHANGED <<cred, id, mAuth>> /\ id \notin DOMAIN mAuth
        /\ \A d \in Conn \ {c} : thread'[d] = thread[d] /\ thread[d] \notin Section
                                 /\ tmp'[d] = tmp[d] /\ seen'[d] = seen[d]
        /\ thread[c] = "key" /\ thread'[c] = "link" /\ tmp'[c] = id /\ seen'[c] = DOMAIN mAuth
    BY <1>5 DEF InsertAuth, TypeOK, Numbers, Section
  <2>2. \A k \in DOMAIN mAuth : mAuth[k] # c
    BY <2>1 DEF Numbers
  <2>. QED  BY <1>0, <2>1, <2>2 DEF Numbers, Section
<1>6. ASSUME NEW c \in Conn, LinkAuth(c)
      PROVE  Numbers' /\ Kept
  <2>1. /\ UNCHANGED <<cred, tmp, seen, id>>
        /\ \A d \in Conn \ {c} : thread'[d] = thread[d] /\ thread[d] \notin Section
        /\ thread[c] = "link" /\ thread'[c] = "fill"
    BY <1>6 DEF LinkAuth, TypeOK, Numbers, Section
  <2>2. \A k \in DOMAIN mAuth : mAuth[k] # c
    BY <2>1 DEF Numbers
  <2>3. /\ DOMAIN mAuth' = DOMAIN mAuth \cup {id} /\ mAuth'[id] = c
        /\ \A k \in DOMAIN mAuth : mAuth'[k] = mAuth[k]
    BY <1>6, LinkedAlone
  <2>4. cred[c] \in Cred
    BY <2>1 DEF Credentials
  <2>. QED  BY <1>0, <2>1, <2>2, <2>3, <2>4 DEF Numbers, Section
<1>7. ASSUME NEW c \in Conn, FillAuth(c)
      PROVE  Numbers' /\ Kept
  <2>1. /\ UNCHANGED <<cred, seen, id, mAuth>>
        /\ \A d \in Conn \ {c} : thread'[d] = thread[d] /\ thread[d] \notin Section
                                 /\ tmp'[d] = tmp[d]
        /\ thread[c] = "fill" /\ thread'[c] = "push" /\ tmp'[c] = id
    BY <1>7 DEF FillAuth, TypeOK, Numbers, Section
  <2>. QED  BY <1>0, <2>1 DEF Numbers, Section
<1>8. ASSUME NEW c \in Conn, PushAuth(c)
      PROVE  Numbers' /\ Kept
  <2>1. /\ UNCHANGED <<cred, tmp, seen, id, mAuth>>
        /\ \A d \in Conn \ {c} : thread'[d] = thread[d]
        /\ thread[c] = "push" /\ thread'[c] = "done"
    BY <1>8 DEF PushAuth, TypeOK
  <2>. QED  BY <1>0, <2>1 DEF Numbers, Section
<1>9. \/ UNCHANGED <<thread, cred, tmp, seen, id, mAuth>>
      \/ \E c \in Conn : \/ HandleAcceptTcp(c) \/ RefuseAtOnce(c) \/ NickReceived(c)
                         \/ ReadId(c) \/ WriteId(c) \/ InsertAuth(c) \/ FillAuth(c)
                         \/ PushAuth(c) \/ LinkAuth(c)
  BY ThreadMoves
<1>. QED  BY <1>1, <1>2, <1>3, <1>4, <1>5, <1>6, <1>7, <1>8, <1>9

(* What the queues and the registry say is what the connection sent, and   *)
(* its thread has ended; but for the connections that a received AUTH      *)
(* event was about.                                                        *)
Asked(k) == k \in DOMAIN mAuth /\ thread[mAuth[k]] = "done"
TracedAuth == {e \in AuthEvent : Asked(e.id) /\ cred[mAuth[e.id]] = e.cred}
TracedAnswer ==
    {e \in NetEvent : /\ Asked(e.id)
                      /\ cred[mAuth[e.id]].right = e.accepted
                      /\ e.accepted => cred[mAuth[e.id]].acct = e.acct}
TracedMachine ==
    {m \in Machine :
        \/ Claimed(m.conn)
        \/ thread[m.conn] = "done" /\ cred[m.conn] = [acct |-> m.acct, right |-> TRUE]}

Traced ==
    /\ dbQueue \in Seq(TracedAuth \cup AccountEvent)
    /\ netQueue \in Seq(TracedAnswer)
    /\ mMachines \in Seq(TracedMachine)

(* A login is in the queues once, and no more once it is settled.          *)
Registered(c) == \E i \in 1 .. Len(mMachines) : mMachines[i].conn = c
Settled(c) == ~ Claimed(c) /\ (told[c] # <<>> \/ Registered(c))
Asks(i) == i \in 1 .. Len(dbQueue) /\ dbQueue[i].type = "AUTH"

Once ==
    /\ \A i, j \in 1 .. Len(dbQueue) :
          Asks(i) /\ Asks(j) /\ dbQueue[i].id = dbQueue[j].id => i = j
    /\ \A i, j \in 1 .. Len(netQueue) : netQueue[i].id = netQueue[j].id => i = j
    /\ \A i \in 1 .. Len(dbQueue), j \in 1 .. Len(netQueue) :
          Asks(i) => dbQueue[i].id # netQueue[j].id
    /\ \A i \in 1 .. Len(dbQueue) : Asks(i) => ~ Settled(mAuth[dbQueue[i].id])
    /\ \A i \in 1 .. Len(netQueue) : ~ Settled(mAuth[netQueue[i].id])
    /\ \A c \in Conn : thread[c] # "done" => ~ Settled(c)
    /\ \A i, j \in 1 .. Len(mMachines) :
          mMachines[i].conn = mMachines[j].conn => i = j \/ Claimed(mMachines[i].conn)

ToldRight ==
    \A c \in Conn :
        \/ told[c] = <<>>
        \/ Claimed(c)
        \/ told[c] = <<"accepted">> /\ cred[c] \in Cred /\ cred[c].right
        \/ told[c] = <<"refused">> /\ (cred[c] = NoCred \/ ~ cred[c].right)

(* As above, these sets only grow. *)
LEMMA TracedGrow ==
  ASSUME TypeOK, Credentials, Numbers, [Next]_vars, ~ raced'
  PROVE  /\ \A c \in Conn : thread[c] = "done" => thread'[c] = "done" /\ cred'[c] = cred[c]
         /\ \A k : Asked(k) => Asked(k)' /\ mAuth'[k] = mAuth[k]
         /\ TracedAuth \cup AccountEvent \subseteq TracedAuth' \cup AccountEvent'
         /\ TracedAnswer \subseteq TracedAnswer'
         /\ TracedMachine \subseteq TracedMachine'
         /\ \A c \in Conn : Claimed(c) => Claimed(c)'
<1>1. \A c \in Conn : thread[c] = "done" => thread'[c] = "done" /\ cred'[c] = cred[c]
  <2>1. ASSUME NEW c \in Conn, Client(c)
        PROVE  \A d \in Conn : thread[d] = "done" => thread'[d] = "done" /\ cred'[d] = cred[d]
    BY <2>1 DEF Client, HandleAcceptTcp, ClientCloses, RefuseAtOnce, NickReceived,
                threadVars, TypeOK
  <2>2. ASSUME NEW c \in Conn, ThreadRuns(c)
        PROVE  \A d \in Conn : thread[d] = "done" => thread'[d] = "done" /\ cred'[d] = cred[d]
    <3>1. cred' = cred /\ thread[c] # "done" /\ \A d \in Conn \ {c} : thread'[d] = thread[d]
      BY <2>2 DEF ThreadRuns, ReadId, WriteId, InsertAuth, LinkAuth, FillAuth, PushAuth, TypeOK
    <3>. QED  BY <3>1
  <2>3. UNCHANGED <<thread, cred>> \/ \E c \in Conn : Client(c) \/ ThreadRuns(c)
    BY DEF Next, vars, threadVars, FrameEnds, HandleAnswer, HandleDbEvent, AuthNotFound,
       RejectAuth, AcceptAuth, AcceptAuthSendFails, AcceptAuthThrows, ProcessAuth,
       RemoveMachine, VerifyPass, ChangeAccountState, DataBaseThrows,
     AuthReceived, AuthAsserts, SendWaits
  <2>. QED  BY <2>1, <2>2, <2>3
<1>2. ASSUME NEW k, Asked(k)
      PROVE  Asked(k)' /\ mAuth'[k] = mAuth[k] /\ mAuth[k] \in Conn
  BY <1>1, <1>2, NextNumbers DEF Asked, TypeOK
<1>3. AccountEvent' = AccountEvent /\ AuthEvent' = AuthEvent /\ NetEvent' = NetEvent
      /\ Machine' = Machine
  BY DEF AccountEvent, AuthEvent, NetEvent, Machine
<1>4. TracedAuth \subseteq TracedAuth'
  BY <1>1, <1>2, <1>3 DEF TracedAuth, Asked
<1>5. TracedAnswer \subseteq TracedAnswer'
  BY <1>1, <1>2, <1>3 DEF TracedAnswer, Asked
<1>6. \A c : Claimed(c) => Claimed(c)'
  BY ClaimsGrow DEF Claimed
<1>7. TracedMachine \subseteq TracedMachine'
  BY <1>1, <1>3, <1>6 DEF TracedMachine, Machine
<1>. QED  BY <1>1, <1>2, <1>3, <1>4, <1>5, <1>6, <1>7

LEMMA TracedHeads ==
  ASSUME TypeOK, Numbers, Traced
  PROVE  /\ dbQueue # <<>> =>
               /\ Event \in TracedAuth \cup AccountEvent
               /\ Tail(dbQueue) \in Seq(TracedAuth \cup AccountEvent)
         /\ netQueue # <<>> =>
               /\ Head(netQueue) \in TracedAnswer
               /\ Tail(netQueue) \in Seq(TracedAnswer)
         /\ \A i \in 1 .. Len(dbQueue) : Asks(i) => dbQueue[i] \in TracedAuth
         /\ \A i \in 1 .. Len(netQueue) : netQueue[i] \in TracedAnswer
<1>1. \A i \in 1 .. Len(dbQueue) : dbQueue[i] \in TracedAuth \cup AccountEvent
  BY ElementOfSeq DEF Traced
<1>2. \A i \in 1 .. Len(dbQueue) : Asks(i) => dbQueue[i] \in TracedAuth
  BY <1>1 DEF Asks, AccountEvent
<1>3. \A i \in 1 .. Len(netQueue) : netQueue[i] \in TracedAnswer
  BY ElementOfSeq DEF Traced
<1>. QED  BY <1>2, <1>3, HeadTailProperties DEF Traced, Event

(* The connection an answer leads to sent the credentials it is about.     *)
LEMMA AnsweredRight ==
  ASSUME TypeOK, Numbers, Traced, netQueue # <<>>,
         NEW ans, ans = Head(netQueue), NEW c, c \in FindAuth(ans.id)
  PROVE  /\ c \in Conn /\ Asked(ans.id) /\ c = mAuth[ans.id] /\ thread[c] = "done"
         /\ cred[c] \in Cred /\ cred[c].right = ans.accepted
         /\ ans.accepted => cred[c] = [acct |-> ans.acct, right |-> TRUE]
<1>1. ans \in TracedAnswer
  BY TracedHeads
<1>2. c = mAuth[ans.id] /\ Asked(ans.id)
  BY <1>1 DEF FindAuth, TracedAnswer
<1>3. c \in Conn /\ thread[c] = "done" /\ cred[c] \in Cred
  BY <1>2 DEF Asked, TypeOK, Numbers
<1>4. cred[c].right = ans.accepted
  BY <1>1, <1>2, Zenon DEF TracedAnswer
<1>5. ASSUME ans.accepted  PROVE cred[c] = [acct |-> ans.acct, right |-> TRUE]
  <2>1. cred[c].acct = ans.acct /\ cred[c].right = TRUE
    <3>1. cred[c].acct = ans.acct
      BY <1>1, <1>2, <1>5 DEF TracedAnswer
    <3>2. cred[c].right = TRUE
      BY <1>3, <1>4, <1>5 DEF Cred
    <3>. QED  BY <3>1, <3>2
  <2>. QED  BY <1>3, <2>1 DEF Cred
<1>. QED  BY <1>2, <1>3, <1>4, <1>5

(* Or a received event is about it, and it is claimed from now on.         *)
LEMMA AnswerOrClaim ==
  ASSUME NEW ans, ProcessAuth(ans)
  PROVE  \/ /\ netQueue # <<>> /\ ans = Head(netQueue) /\ netQueue' = Tail(netQueue)
         \/ netQueue' = netQueue /\ \A c \in FindAuth(ans.id) : Claimed(c)'
<1>1. ASSUME claims' = claims \cup ClaimsOf(ans), NEW c \in FindAuth(ans.id)
      PROVE  Claimed(c)'
  <2>. DEFINE k == [conn |-> c, acct |-> IF Head(received) = NoStamp THEN ans.acct
                                         ELSE NoAccount]
  <2>1. k \in claims' /\ k.conn = c
    BY <1>1 DEF ClaimsOf
  <2>. QED  BY <2>1 DEF Claimed
<1>. QED  BY <1>1, Taken

LEMMA NextTraced ==
  TypeOK /\ Credentials /\ Verified /\ Numbers /\ Traced /\ [Next]_vars /\ ~ raced' => Traced'
<1>. SUFFICES ASSUME TypeOK, Credentials, Verified, Numbers, Traced, [Next]_vars, ~ raced'
              PROVE  Traced'
  OBVIOUS
<1>. DEFINE D == TracedAuth \cup AccountEvent
<1>0. /\ D \subseteq D' /\ TracedAnswer \subseteq TracedAnswer'
      /\ TracedMachine \subseteq TracedMachine'
  BY TracedGrow
<1>1. SUFFICES /\ dbQueue' \in Seq(D')
               /\ netQueue' \in Seq(TracedAnswer)
               /\ mMachines' \in Seq(TracedMachine')
  BY <1>0, SeqGrows DEF Traced
<1>2. /\ dbQueue \in Seq(D) /\ dbQueue \in Seq(D') /\ netQueue \in Seq(TracedAnswer)
      /\ mMachines \in Seq(TracedMachine) /\ mMachines \in Seq(TracedMachine')
      /\ dbQueue # <<>> => Tail(dbQueue) \in Seq(D')
  BY <1>0, SeqGrows, TracedHeads DEF Traced
<1>3. CASE UNCHANGED <<dbQueue, netQueue, mMachines>>
  BY <1>2, <1>3
<1>4. ASSUME NEW c \in Conn, PushAuth(c)
      PROVE  dbQueue' \in Seq(D') /\ UNCHANGED <<netQueue, mMachines>>
  <2>. DEFINE e == [type |-> "AUTH", id |-> tmp[c], cred |-> cred[c]]
  <2>1. tmp[c] \in DOMAIN mAuth /\ mAuth[tmp[c]] = c /\ cred[c] \in Cred
    BY <1>4 DEF PushAuth, Numbers, Credentials
  <2>2. thread'[c] = "done" /\ mAuth' = mAuth /\ cred' = cred
    BY <1>4 DEF PushAuth, TypeOK
  <2>3. e \in TracedAuth'
    BY <2>1, <2>2 DEF TracedAuth, AuthEvent, Asked, TypeOK
  <2>4. dbQueue' = Append(dbQueue, e) /\ UNCHANGED <<netQueue, mMachines>>
    BY <1>4 DEF PushAuth, engineVars
  <2>5. e \in D'
    BY <2>3
  <2>. HIDE DEF D, e
  <2>. QED  BY <1>2, <2>4, <2>5, AppendProperties
<1>5. ASSUME NEW ans, ProcessAuth(ans)
      PROVE  netQueue' \in Seq(TracedAnswer)
  BY <1>2, <1>5, AnswerOrClaim, TracedHeads
<1>6. ASSUME NEW ans, AuthNotFound(ans) \/ \E c \in Conn : RejectAuth(ans, c)
      PROVE  ProcessAuth(ans) /\ UNCHANGED <<dbQueue, mMachines>>
  BY <1>6 DEF AuthNotFound, RejectAuth
<1>7. ASSUME NEW ans, NEW c \in Conn,
             AcceptAuth(ans, c) \/ AcceptAuthSendFails(ans, c) \/ AcceptAuthThrows(ans, c)
      PROVE  /\ ProcessAuth(ans)
             /\ dbQueue' \in Seq(D') /\ mMachines' \in Seq(TracedMachine')
  <2>. DEFINE m == [id |-> mNextMachineID, conn |-> c, acct |-> ans.acct]
  <2>1. ProcessAuth(ans) /\ c \in FindAuth(ans.id) /\ ans.accepted
    BY <1>7 DEF AcceptAuth, AcceptAuthSendFails, AcceptAuthThrows
  <2>2. Welcome(ans.acct) \in D' /\ Removed(ans.acct) \in D' /\ ans.acct \in Account
    BY <2>1, MachineFromAnswer DEF AccountEvent
  <2>3. m \in TracedMachine'
    <3>1. CASE Claimed(c)'
      BY <2>2, <3>1 DEF TracedMachine, Machine, TypeOK
    <3>2. CASE netQueue # <<>> /\ ans = Head(netQueue)
      <4>1. thread[c] = "done" /\ cred[c] = [acct |-> ans.acct, right |-> TRUE]
        BY <2>1, <3>2, AnsweredRight
      <4>2. m \in TracedMachine
        BY <2>2, <4>1 DEF TracedMachine, Machine, TypeOK
      <4>. QED  BY <1>0, <4>2
    <3>. QED  BY <2>1, <3>1, <3>2, AnswerOrClaim
  <2>4. mMachines' = mMachines \/ mMachines' = Append(mMachines, m)
    BY <1>7 DEF AcceptAuth, AcceptAuthSendFails, AcceptAuthThrows
  <2>5. \/ dbQueue' = dbQueue
        \/ dbQueue' = Append(dbQueue, Welcome(ans.acct))
        \/ dbQueue' = dbQueue \o WelcomedAndRemoved(ans.acct)
    BY <1>7 DEF AcceptAuth, AcceptAuthSendFails, AcceptAuthThrows
  <2>. HIDE DEF D, m
  <2>6. WelcomedAndRemoved(ans.acct) \in Seq(D')
    BY <2>2 DEF WelcomedAndRemoved
  <2>7. /\ Append(dbQueue, Welcome(ans.acct)) \in Seq(D')
        /\ dbQueue \o WelcomedAndRemoved(ans.acct) \in Seq(D')
    BY <1>2, <2>2, <2>6, AppendProperties, ConcatProperties
  <2>8. Append(mMachines, m) \in Seq(TracedMachine')
    BY <1>2, <2>3, AppendProperties
  <2>9. dbQueue' \in Seq(D')
    BY <1>2, <2>5, <2>7, Zenon
  <2>10. mMachines' \in Seq(TracedMachine')
    BY <1>2, <2>4, <2>8, Zenon
  <2>. QED  BY <2>1, <2>9, <2>10
<1>8. ASSUME NEW i \in 1 .. Len(mMachines), RemoveMachine(i)
      PROVE  /\ dbQueue' \in Seq(D') /\ netQueue' = netQueue
             /\ mMachines' \in Seq(TracedMachine')
  <2>1. mMachines[i] \in TracedMachine
    BY <1>2, ElementOfSeq
  <2>2. Removed(mMachines[i].acct) \in D'
    BY <2>1 DEF TracedMachine, Machine, Removed, AccountEvent
  <2>. HIDE DEF D
  <2>3. dbQueue' \in Seq(D')
    BY <1>2, <1>8, <2>2, AppendProperties DEF RemoveMachine
  <2>4. mMachines' \in Seq(TracedMachine')
    BY <1>2, <1>8, RemoveOne DEF RemoveMachine
  <2>. QED  BY <1>8, <2>3, <2>4 DEF RemoveMachine
<1>9. CASE VerifyPass
  <2>. DEFINE e == [type |-> "AUTH", id |-> Event.id, accepted |-> RightPass(Event.cred),
                    acct |-> IF RightPass(Event.cred) THEN Event.cred.acct ELSE NoAccount]
  <2>1. dbQueue # <<>> /\ Event.type = "AUTH"
    BY <1>9 DEF VerifyPass
  <2>2. Event \in TracedAuth
    BY <2>1, TracedHeads DEF AccountEvent
  <2>3. e \in TracedAnswer
    BY <2>2 DEF TracedAuth, TracedAnswer, AuthEvent, NetEvent, RightPass, Cred
  <2>4. /\ dbQueue' = Tail(dbQueue) /\ netQueue' = Append(netQueue, e)
        /\ mMachines' = mMachines
    BY <1>9 DEF VerifyPass, engineVars
  <2>. HIDE DEF D, e
  <2>. QED  BY <1>2, <2>1, <2>3, <2>4, AppendProperties
<1>10. CASE ChangeAccountState \/ DataBaseThrows
  BY <1>2, <1>10 DEF ChangeAccountState, DataBaseThrows,
     AuthReceived, AuthAsserts, SendWaits
<1>11. \/ UNCHANGED <<dbQueue, netQueue, mMachines>>
       \/ \E c \in Conn : PushAuth(c)
       \/ \E ans \in Answers :
             \/ AuthNotFound(ans)
             \/ \E c \in Conn : \/ RejectAuth(ans, c) \/ AcceptAuth(ans, c)
                                \/ AcceptAuthSendFails(ans, c) \/ AcceptAuthThrows(ans, c)
       \/ VerifyPass \/ ChangeAccountState \/ DataBaseThrows
       \/ \E i \in 1 .. Len(mMachines) : RemoveMachine(i)
  BY DEF Next, vars, engineVars, Client, ThreadRuns, HandleAcceptTcp, ClientCloses,
     RefuseAtOnce, NickReceived, ReadId, WriteId, InsertAuth, LinkAuth, FillAuth,
     FrameEnds, HandleAnswer, HandleDbEvent, AuthReceived, AuthAsserts, SendWaits
<1>. QED
  BY <1>2, <1>3, <1>4, <1>5, <1>6, <1>7, <1>8, <1>9, <1>10, <1>11, Zenon

-------------------------------------------------------------------------------
(* What is left of the queues was in them before. *)
DbLeft ==
    \E n \in {0, 1} : \A i \in 1 .. Len(dbQueue') :
        Asks(i)' => Asks(i + n) /\ dbQueue'[i] = dbQueue[i + n]
NetLeft(n) ==
    \A i \in 1 .. Len(netQueue') : i + n \in 1 .. Len(netQueue)
                                   /\ netQueue'[i] = netQueue[i + n]

(* A step that asks nothing, and settles the login of the answer it takes, *)
(* or one that has not asked.                                              *)
LEMMA OnceKept ==
  ASSUME TypeOK, Credentials, Verified, Numbers, Traced, Once, [Next]_vars, ~ raced',
         DbLeft, NEW n \in {0, 1}, NetLeft(n),
         \A c \in Conn : Settled(c)' =>
             \/ Settled(c)
             \/ thread[c] # "done" /\ thread'[c] = "done"
             \/ n = 1 /\ netQueue # <<>> /\ c \in FindAuth(Head(netQueue).id),
         \A i, j \in 1 .. Len(mMachines') :
             mMachines'[i].conn = mMachines'[j].conn => i = j \/ Claimed(mMachines[i].conn)'
  PROVE  Once'
<1>0. Len(netQueue) \in Nat /\ Len(dbQueue) \in Nat /\ Len(netQueue') \in Nat
      /\ netQueue # <<>> => Head(netQueue) = netQueue[1] /\ 1 \in 1 .. Len(netQueue)
  <2>1. netQueue' \in Seq(NetEvent)
    <3>1. Traced'
      BY NextTraced
    <3>2. TracedAnswer' \subseteq NetEvent
      BY DEF TracedAnswer, NetEvent
    <3>. QED  BY <3>1, <3>2, SeqGrows DEF Traced
  <2>. QED  BY <2>1, TailElements, LenProperties DEF TypeOK
<1>1. /\ \A k : Asked(k) => Asked(k)' /\ mAuth'[k] = mAuth[k]
      /\ \A c \in Conn : thread[c] = "done" => thread'[c] = "done"
  BY TracedGrow
<1>2. /\ \A i \in 1 .. Len(dbQueue) : Asks(i) => Asked(dbQueue[i].id)
      /\ \A i \in 1 .. Len(netQueue) : Asked(netQueue[i].id)
  BY TracedHeads DEF TracedAuth, TracedAnswer
<1>3. \A j, k : Asked(j) /\ Asked(k) /\ mAuth[j] = mAuth[k] => j = k
  BY DEF Asked, Numbers
<1>4. \A k : Asked(k) => mAuth[k] \in Conn /\ thread[mAuth[k]] = "done"
  BY DEF Asked, TypeOK
<1>5. PICK b \in {0, 1} : \A i \in 1 .. Len(dbQueue') :
          Asks(i)' => Asks(i + b) /\ dbQueue'[i] = dbQueue[i + b]
  BY DEF DbLeft
<1>6. \A i : Asks(i) => i \in 1 .. Len(dbQueue)
  BY DEF Asks
<1>7. ASSUME NEW k, Asked(k), ~ Settled(mAuth[k]), Settled(mAuth[k])'
      PROVE  n = 1 /\ netQueue # <<>> /\ k = Head(netQueue).id
  <2>1. PICK c \in Conn : mAuth[k] = c /\ mAuth'[k] = c /\ thread[c] = "done"
    BY <1>1, <1>4, <1>7
  <2>2. Settled(c)' /\ ~ Settled(c)
    BY <1>7, <2>1
  <2>3. n = 1 /\ netQueue # <<>> /\ c \in FindAuth(Head(netQueue).id)
    BY <2>1, <2>2
  <2>4. mAuth[k] = mAuth[Head(netQueue).id] /\ Asked(Head(netQueue).id)
    BY <2>1, <2>3, AnsweredRight
  <2>. QED  BY <1>3, <1>7, <2>3, <2>4
<1>8. \A i, j \in 1 .. Len(dbQueue') :
          Asks(i)' /\ Asks(j)' /\ dbQueue'[i].id = dbQueue'[j].id => i = j
  <2>. SUFFICES ASSUME NEW i \in 1 .. Len(dbQueue'), NEW j \in 1 .. Len(dbQueue'),
                       Asks(i)', Asks(j)', dbQueue'[i].id = dbQueue'[j].id
                PROVE  i = j
    OBVIOUS
  <2>1. Asks(i + b) /\ Asks(j + b) /\ dbQueue[i + b].id = dbQueue[j + b].id
    BY <1>5
  <2>2. i + b \in 1 .. Len(dbQueue) /\ j + b \in 1 .. Len(dbQueue)
    BY <1>6, <2>1
  <2>3. i + b = j + b
    BY <2>1, <2>2 DEF Once
  <2>. QED  BY <2>3
<1>9. \A i, j \in 1 .. Len(netQueue') : netQueue'[i].id = netQueue'[j].id => i = j
  <2>. SUFFICES ASSUME NEW i \in 1 .. Len(netQueue'), NEW j \in 1 .. Len(netQueue'),
                       netQueue'[i].id = netQueue'[j].id
                PROVE  i = j
    OBVIOUS
  <2>1. /\ i + n \in 1 .. Len(netQueue) /\ j + n \in 1 .. Len(netQueue)
        /\ netQueue[i + n].id = netQueue[j + n].id
    BY DEF NetLeft
  <2>2. i + n = j + n
    BY <2>1 DEF Once
  <2>. QED  BY <2>2
<1>10. \A i \in 1 .. Len(dbQueue'), j \in 1 .. Len(netQueue') :
          Asks(i)' => dbQueue'[i].id # netQueue'[j].id
  <2>. SUFFICES ASSUME NEW i \in 1 .. Len(dbQueue'), NEW j \in 1 .. Len(netQueue'), Asks(i)'
                PROVE  dbQueue'[i].id # netQueue'[j].id
    OBVIOUS
  <2>1. Asks(i + b) /\ i + b \in 1 .. Len(dbQueue) /\ dbQueue'[i] = dbQueue[i + b]
    BY <1>5, <1>6
  <2>2. j + n \in 1 .. Len(netQueue) /\ netQueue'[j] = netQueue[j + n]
    BY DEF NetLeft
  <2>. QED  BY <2>1, <2>2 DEF Once
<1>11. \A i \in 1 .. Len(dbQueue') : Asks(i)' => ~ Settled(mAuth[dbQueue[i].id])'
  <2>. SUFFICES ASSUME NEW i \in 1 .. Len(dbQueue'), Asks(i)',
                       Settled(mAuth[dbQueue[i].id])'
                PROVE  FALSE
    OBVIOUS
  <2>0. PICK k : k = dbQueue'[i].id
    OBVIOUS
  <2>1. Asks(i + b) /\ k = dbQueue[i + b].id /\ i + b \in 1 .. Len(dbQueue)
    BY <1>5, <1>6, <2>0
  <2>2. Asked(k) /\ ~ Settled(mAuth[k]) /\ Settled(mAuth[k])'
    BY <1>2, <2>0, <2>1 DEF Once
  <2>3. netQueue # <<>> /\ k = netQueue[1].id /\ 1 \in 1 .. Len(netQueue)
    BY <1>0, <1>7, <2>2
  <2>. QED  BY <2>1, <2>3 DEF Once
<1>12. \A i \in 1 .. Len(netQueue') : ~ Settled(mAuth[netQueue[i].id])'
  <2>. SUFFICES ASSUME NEW i \in 1 .. Len(netQueue'), Settled(mAuth[netQueue[i].id])'
                PROVE  FALSE
    OBVIOUS
  <2>0. PICK k : k = netQueue'[i].id
    OBVIOUS
  <2>1. k = netQueue[i + n].id /\ i + n \in 1 .. Len(netQueue)
    BY <2>0 DEF NetLeft
  <2>2. Asked(k) /\ ~ Settled(mAuth[k]) /\ Settled(mAuth[k])'
    BY <1>2, <2>0, <2>1 DEF Once
  <2>3. n = 1 /\ k = netQueue[1].id /\ 1 \in 1 .. Len(netQueue)
    BY <1>0, <1>7, <2>2
  <2>4. i + n = 1
    BY <2>1, <2>3 DEF Once
  <2>. QED  BY <2>3, <2>4
<1>13. \A c \in Conn : thread'[c] # "done" => ~ Settled(c)'
  <2>. SUFFICES ASSUME NEW c \in Conn, thread'[c] # "done", Settled(c)'  PROVE FALSE
    OBVIOUS
  <2>1. thread[c] # "done" /\ ~ Settled(c)
    BY <1>1 DEF Once
  <2>. QED  BY <2>1, AnsweredRight
<1>. QED  BY <1>8, <1>9, <1>10, <1>11, <1>12, <1>13 DEF Once

LEMMA DbLeftWhen ==
  ASSUME TypeOK,
         \/ dbQueue' = dbQueue
         \/ \E e \in AccountEvent : dbQueue' = Append(dbQueue, e)
         \/ \E e, f \in AccountEvent : dbQueue' = dbQueue \o <<e, f>>
         \/ dbQueue # <<>> /\ dbQueue' = Tail(dbQueue)
  PROVE  DbLeft
<1>0. dbQueue \in Seq(DbEvent) /\ Len(dbQueue) \in Nat /\ AccountEvent \subseteq DbEvent
  BY LenProperties DEF TypeOK, AccountEvent, DbEvent
<1>1. CASE dbQueue' = dbQueue
  BY <1>0, <1>1 DEF DbLeft, Asks
<1>2. ASSUME NEW e \in AccountEvent, dbQueue' = Append(dbQueue, e)
      PROVE  DbLeft
  <2>1. /\ e \in DbEvent /\ e.type # "AUTH"
        /\ \A i \in 1 .. Len(dbQueue') :
              \/ i \in 1 .. Len(dbQueue) /\ dbQueue'[i] = dbQueue[i]
              \/ dbQueue'[i] = e
    BY <1>0, <1>2, AppendElements DEF AccountEvent
  <2>2. \A i \in 1 .. Len(dbQueue') : Asks(i)' => Asks(i + 0) /\ dbQueue'[i] = dbQueue[i + 0]
    BY <2>1 DEF Asks
  <2>. QED  BY <2>2 DEF DbLeft
<1>3. ASSUME NEW e \in AccountEvent, NEW f \in AccountEvent, dbQueue' = dbQueue \o <<e, f>>
      PROVE  DbLeft
  <2>. DEFINE w == <<e, f>>
  <2>1. w \in Seq(DbEvent) /\ Len(w) = 2 /\ w[1].type # "AUTH" /\ w[2].type # "AUTH"
    BY <1>0 DEF AccountEvent
  <2>. HIDE DEF w
  <2>2. /\ Len(dbQueue') = Len(dbQueue) + 2
        /\ \A i \in 1 .. Len(dbQueue) + 2 : dbQueue'[i] =
              IF i <= Len(dbQueue) THEN dbQueue[i] ELSE w[i - Len(dbQueue)]
    BY <1>0, <1>3, <2>1, ConcatProperties DEF w
  <2>3. ASSUME NEW i \in 1 .. Len(dbQueue'), Asks(i)'
        PROVE  Asks(i + 0) /\ dbQueue'[i] = dbQueue[i + 0]
    <3>1. i <= Len(dbQueue)
      <4>. SUFFICES ASSUME ~ (i <= Len(dbQueue))  PROVE FALSE
        OBVIOUS
      <4>1. i - Len(dbQueue) \in {1, 2} /\ dbQueue'[i] = w[i - Len(dbQueue)]
        BY <1>0, <2>2
      <4>. QED  BY <2>1, <2>3, <4>1 DEF Asks
    <3>. QED  BY <1>0, <2>2, <2>3, <3>1 DEF Asks
  <2>. QED  BY <2>3 DEF DbLeft
<1>4. CASE dbQueue # <<>> /\ dbQueue' = Tail(dbQueue)
  <2>1. \A i \in 1 .. Len(dbQueue') :
            i + 1 \in 1 .. Len(dbQueue) /\ dbQueue'[i] = dbQueue[i + 1]
    BY <1>0, <1>4, TailElements
  <2>2. \A i \in 1 .. Len(dbQueue') : Asks(i)' => Asks(i + 1) /\ dbQueue'[i] = dbQueue[i + 1]
    BY <2>1 DEF Asks
  <2>. QED  BY <2>2 DEF DbLeft
<1>. QED  BY <1>1, <1>2, <1>3, <1>4

LEMMA NetLeftWhen ==
  ASSUME TypeOK
  PROVE  /\ netQueue' = netQueue => NetLeft(0)
         /\ netQueue # <<>> /\ netQueue' = Tail(netQueue) => NetLeft(1)
<1>1. netQueue \in Seq(NetEvent) /\ Len(netQueue) \in Nat
  BY LenProperties DEF TypeOK
<1>. QED  BY <1>1, TailElements DEF NetLeft

(* Telling a client that was told nothing. *)
LEMMA Told ==
  ASSUME TypeOK, NEW c \in Conn, NEW answer \in {"accepted", "refused"}, Tell(c, answer)
  PROVE  /\ \A d \in Conn \ {c} : told'[d] = told[d]
         /\ told'[c] = told[c] \/ told'[c] = Append(told[c], answer)
         /\ told[c] = <<>> => told'[c] \in {<<>>, <<answer>>}
<1>1. /\ \A d \in Conn \ {c} : told'[d] = told[d]
      /\ told'[c] = told[c] \/ told'[c] = Append(told[c], answer)
  BY DEF Tell, TypeOK
<1>2. Append(<<>>, answer) = <<answer>>
  OBVIOUS
<1>. QED  BY <1>1, <1>2

LEMMA NextOnce ==
  ASSUME TypeOK, Credentials, Verified, Numbers, Traced, Once, ToldRight, [Next]_vars, ~ raced'
  PROVE  Once' /\ ToldRight'
<1>. DEFINE Distinct ==
               \A i, j \in 1 .. Len(mMachines) :
                   mMachines[i].conn = mMachines[j].conn => i = j \/ Claimed(mMachines[i].conn)
<1>0. Distinct /\ Len(mMachines) \in Nat /\ mMachines \in Seq(Machine)
  BY LenProperties DEF Once, TypeOK
<1>01. /\ \A c : Claimed(c) => Claimed(c)'
       /\ UNCHANGED mMachines => Distinct'
  BY <1>0, ClaimsGrow DEF Claimed
<1>1. told' = told => ToldRight'
  <2>1. \A c \in Conn : cred[c] # NoCred => cred'[c] = cred[c]
    BY SetsGrow
  <2>2. \A c \in Conn : told[c] # <<>> => thread[c] = "done" \/ Claimed(c)
    BY DEF Once, Settled
  <2>3. \A c \in Conn : thread[c] = "done" => cred'[c] = cred[c]
    BY TracedGrow
  <2>. QED  BY <1>01, <2>2, <2>3 DEF ToldRight
<1>2. CASE UNCHANGED <<netQueue, told, mMachines>> /\ DbLeft
  <2>1. Distinct' /\ NetLeft(0) /\ \A c \in Conn : Settled(c)' => Settled(c)
    BY <1>01, <1>2, NetLeftWhen DEF Settled, Registered
  <2>. QED  BY <1>1, <1>2, <2>1, OnceKept
<1>3. ASSUME NEW c \in Conn, RefuseAtOnce(c)
      PROVE  Once' /\ ToldRight'
  <2>1. /\ thread[c] = "receive" /\ thread'[c] = "done" /\ cred' = cred
        /\ UNCHANGED <<dbQueue, netQueue, mMachines>> /\ Tell(c, "refused")
    BY <1>3 DEF RefuseAtOnce, engineVars, TypeOK
  <2>11. UNCHANGED claims
    BY <1>3 DEF RefuseAtOnce, receivedVars
  <2>2. \A d \in Conn \ {c} : told'[d] = told[d]
    BY <2>1, Told
  <2>3. DbLeft /\ NetLeft(0) /\ Distinct'
    BY <1>01, <2>1, DbLeftWhen, NetLeftWhen
  <2>4. ASSUME NEW d \in Conn, Settled(d)', ~ Settled(d)
        PROVE  thread[d] # "done" /\ thread'[d] = "done"
    <3>1. d = c
      BY <2>1, <2>2, <2>4, <2>11 DEF Settled, Registered, Claimed
    <3>. QED  BY <2>1, <3>1
  <2>5. cred[c] = NoCred /\ (Claimed(c) \/ told[c] = <<>>)
    BY <2>1 DEF Once, Settled, Credentials
  <2>6. ToldRight'
    BY <1>01, <2>1, <2>2, <2>5, Told DEF ToldRight
  <2>. QED  BY <2>3, <2>4, <2>6, OnceKept
<1>4. ASSUME NEW c \in Conn, PushAuth(c)
      PROVE  Once' /\ ToldRight'
  <2>. DEFINE e == [type |-> "AUTH", id |-> tmp[c], cred |-> cred[c]]
  <2>1. /\ thread[c] = "push" /\ dbQueue' = Append(dbQueue, e)
        /\ UNCHANGED <<netQueue, mMachines, told, mAuth, cred, claims>>
        /\ \A d \in Conn \ {c} : thread'[d] = thread[d]
    BY <1>4 DEF PushAuth, engineVars, sockets, receivedVars, TypeOK
  <2>2. tmp[c] \in DOMAIN mAuth /\ mAuth[tmp[c]] = c /\ ~ Settled(c)
    BY <2>1 DEF Numbers, Once
  <2>3. e \in DbEvent /\ e.id = tmp[c]
    BY <1>4, AuthIsProper, ProperTypes DEF PushAuth
  <2>. HIDE DEF e
  <2>4. /\ Len(dbQueue) \in Nat /\ Len(dbQueue') = Len(dbQueue) + 1
        /\ \A i \in 1 .. Len(dbQueue') :
              \/ i \in 1 .. Len(dbQueue) /\ dbQueue'[i] = dbQueue[i]
              \/ i = Len(dbQueue) + 1 /\ dbQueue'[i] = e
    BY <2>1, <2>3, AppendElements DEF TypeOK
  <2>5. \A k : Asked(k) => k # tmp[c]
    BY <2>1, <2>2 DEF Asked
  <2>6. /\ \A i \in 1 .. Len(dbQueue) : Asks(i) => dbQueue[i].id # tmp[c]
        /\ \A i \in 1 .. Len(netQueue) : netQueue[i].id # tmp[c]
    BY <2>5, TracedHeads DEF TracedAuth, TracedAnswer
  <2>7. \A d \in Conn : Settled(d)' <=> Settled(d)
    BY <2>1 DEF Settled, Registered, Claimed
  <2>8. \A i \in 1 .. Len(dbQueue') :
            Asks(i)' => \/ Asks(i) /\ dbQueue'[i] = dbQueue[i]
                        \/ i = Len(dbQueue) + 1 /\ dbQueue'[i] = e
    BY <2>4 DEF Asks
  <2>9. /\ \A i, j \in 1 .. Len(dbQueue') :
              Asks(i)' /\ Asks(j)' /\ dbQueue'[i].id = dbQueue'[j].id => i = j
        /\ \A i \in 1 .. Len(dbQueue'), j \in 1 .. Len(netQueue) :
              Asks(i)' => dbQueue'[i].id # netQueue[j].id
    <3>1. \A i : Asks(i) => i \in 1 .. Len(dbQueue)
      BY DEF Asks
    <3>. QED  BY <2>3, <2>6, <2>8, <3>1 DEF Once
  <2>10. \A i \in 1 .. Len(dbQueue') : Asks(i)' => ~ Settled(mAuth[dbQueue[i].id])'
    <3>. SUFFICES ASSUME NEW i \in 1 .. Len(dbQueue'), Asks(i)'
                  PROVE  ~ Settled(mAuth[dbQueue[i].id])'
      OBVIOUS
    <3>1. PICK d \in Conn : mAuth[dbQueue'[i].id] = d /\ ~ Settled(d)
      <4>1. CASE Asks(i) /\ dbQueue'[i] = dbQueue[i]
        <5>1. i \in 1 .. Len(dbQueue) /\ Asked(dbQueue[i].id)
          BY <4>1, TracedHeads DEF TracedAuth, Asks
        <5>. QED  BY <4>1, <5>1 DEF Once, Asked, TypeOK
      <4>. QED  BY <2>2, <2>3, <2>8, <4>1
    <3>. QED  BY <2>1, <2>7, <3>1
  <2>11. \A i \in 1 .. Len(netQueue') : ~ Settled(mAuth[netQueue[i].id])'
    <3>. SUFFICES ASSUME NEW i \in 1 .. Len(netQueue)
                  PROVE  ~ Settled(mAuth[netQueue[i].id])'
      BY <2>1
    <3>1. PICK d \in Conn : mAuth[netQueue[i].id] = d /\ ~ Settled(d)
      BY TracedHeads DEF TracedAnswer, Asked, Once, TypeOK
    <3>. QED  BY <2>1, <2>7, <3>1
  <2>12. \A d \in Conn : thread'[d] # "done" => ~ Settled(d)'
    BY <2>1, <2>2, <2>7 DEF Once
  <2>. QED  BY <1>01, <1>1, <2>1, <2>9, <2>10, <2>11, <2>12 DEF Once
(* An answer settles the login it is about, or one that is claimed. *)
<1>5. ASSUME NEW ans, ProcessAuth(ans), NEW c \in FindAuth(ans.id), DbLeft, Distinct',
             \A d \in Conn \ {c} : told'[d] = told[d] /\ (Registered(d)' => Registered(d)),
             \/ told'[c] = told[c]
             \/ Tell(c, "accepted") /\ ans.accepted
             \/ Tell(c, "refused") /\ ~ ans.accepted
      PROVE  Once' /\ ToldRight'
  <2>1. cred' = cred /\ thread' = thread /\ c \in Conn
    BY <1>5 DEF ProcessAuth, threadVars, FindAuth, TypeOK
  <2>2. \A d \in Conn \ {c} : Settled(d)' => Settled(d)
    BY <1>01, <1>5 DEF Settled
  <2>3. ASSUME \/ told'[c] = <<>>
               \/ Claimed(c)'
               \/ told'[c] = told[c]
               \/ told'[c] = <<"accepted">> /\ cred[c] \in Cred /\ cred[c].right
               \/ told'[c] = <<"refused">> /\ (cred[c] = NoCred \/ ~ cred[c].right)
        PROVE  ToldRight'
    BY <1>01, <1>5, <2>1, <2>3 DEF ToldRight
  <2>4. CASE netQueue' = netQueue /\ Claimed(c)'
    <3>1. NetLeft(0) /\ ~ Settled(c)'
      BY <2>4, NetLeftWhen DEF Settled
    <3>2. \A d \in Conn : Settled(d)' => Settled(d)
      BY <2>2, <3>1
    <3>3. Once'
      BY <1>5, <3>1, <3>2, OnceKept
    <3>. QED  BY <2>3, <2>4, <3>3
  <2>5. CASE netQueue # <<>> /\ ans = Head(netQueue) /\ netQueue' = Tail(netQueue)
    <3>1. NetLeft(1)
      BY <2>5, NetLeftWhen
    <3>2. c = mAuth[ans.id] /\ cred[c] \in Cred /\ cred[c].right = ans.accepted
      BY <1>5, <2>5, AnsweredRight
    <3>3. ans = netQueue[1] /\ 1 \in 1 .. Len(netQueue)
      BY <2>5, TailElements DEF TypeOK
    <3>4. ~ Settled(c)
      BY <3>2, <3>3 DEF Once
    <3>5. Once'
      <4>1. \A d \in Conn : Settled(d)' => Settled(d) \/ (c = d /\ c \in FindAuth(Head(netQueue).id))
        BY <1>5, <2>2, <2>5
      <4>. QED  BY <1>5, <2>5, <3>1, <4>1, OnceKept
    <3>6. CASE told[c] = <<>>
      <4>1. \/ told'[c] = <<>>
            \/ told'[c] = <<"accepted">> /\ ans.accepted
            \/ told'[c] = <<"refused">> /\ ~ ans.accepted
        BY <1>5, <2>1, <3>6, Told
      <4>2. ToldRight'
        BY <2>3, <3>2, <4>1
      <4>. QED  BY <3>5, <4>2
    <3>. QED  BY <1>01, <2>3, <3>4, <3>5, <3>6 DEF Settled
  <2>. QED  BY <1>5, <2>4, <2>5, AnswerOrClaim
<1>6. ASSUME NEW ans, AuthNotFound(ans)
      PROVE  Once' /\ ToldRight'
  <2>1. ProcessAuth(ans) /\ UNCHANGED <<dbQueue, told, mMachines>>
    BY <1>6 DEF AuthNotFound
  <2>2. DbLeft /\ Distinct' /\ \A c \in Conn : Settled(c)' => Settled(c)
    BY <1>01, <2>1, DbLeftWhen DEF Settled, Registered
  <2>3. NetLeft(0) \/ NetLeft(1)
    BY <2>1, AnswerOrClaim, NetLeftWhen
  <2>. QED  BY <1>1, <2>1, <2>2, <2>3, OnceKept
<1>7. ASSUME NEW ans, NEW c \in Conn,
             \/ RejectAuth(ans, c) \/ AcceptAuth(ans, c)
             \/ AcceptAuthSendFails(ans, c) \/ AcceptAuthThrows(ans, c)
      PROVE  Once' /\ ToldRight'
  <2>. DEFINE m == [id |-> mNextMachineID, conn |-> c, acct |-> ans.acct]
  <2>1. ProcessAuth(ans) /\ c \in FindAuth(ans.id)
    BY <1>7 DEF RejectAuth, AcceptAuth, AcceptAuthSendFails, AcceptAuthThrows
  <2>2. \/ told' = told
        \/ Tell(c, "accepted") /\ ans.accepted
        \/ Tell(c, "refused") /\ ~ ans.accepted
    BY <1>7 DEF RejectAuth, AcceptAuth, AcceptAuthSendFails, AcceptAuthThrows, Sends
  <2>3. \A d \in Conn \ {c} : told'[d] = told[d]
    BY <2>2, Told
  <2>4. CASE RejectAuth(ans, c)
    <3>1. UNCHANGED <<dbQueue, mMachines>>
      BY <2>4 DEF RejectAuth
    <3>2. DbLeft /\ Distinct' /\ \A d \in Conn : Registered(d)' => Registered(d)
      BY <1>01, <3>1, DbLeftWhen DEF Registered
    <3>. QED  BY <1>5, <2>1, <2>2, <2>3, <3>2
  <2>5. CASE AcceptAuth(ans, c) \/ AcceptAuthSendFails(ans, c) \/ AcceptAuthThrows(ans, c)
    <3>1. ans.accepted
      BY <2>5 DEF AcceptAuth, AcceptAuthSendFails, AcceptAuthThrows
    <3>2. /\ Welcome(ans.acct) \in AccountEvent /\ Removed(ans.acct) \in AccountEvent
          /\ ans.acct \in Account
      BY <2>1, <3>1, MachineFromAnswer
    <3>3. /\ \/ dbQueue' = dbQueue
             \/ dbQueue' = Append(dbQueue, Welcome(ans.acct))
             \/ dbQueue' = dbQueue \o <<Welcome(ans.acct), Removed(ans.acct)>>
          /\ mMachines' = mMachines \/ mMachines' = Append(mMachines, m)
      BY <2>5 DEF AcceptAuth, AcceptAuthSendFails, AcceptAuthThrows, WelcomedAndRemoved
    <3>4. DbLeft
      BY <3>2, <3>3, DbLeftWhen
    <3>5. CASE mMachines' = mMachines
      <4>1. Distinct' /\ \A d \in Conn : Registered(d)' => Registered(d)
        BY <1>01, <3>5 DEF Registered
      <4>. QED  BY <1>5, <2>1, <2>2, <2>3, <3>4, <4>1
    <3>6. CASE mMachines' = Append(mMachines, m)
      <4>1. m \in Machine /\ m.conn = c
        BY <3>2 DEF Machine, TypeOK
      <4>. HIDE DEF m
      <4>2. \A i \in 1 .. Len(mMachines') :
                \/ i \in 1 .. Len(mMachines) /\ mMachines'[i] = mMachines[i]
                \/ i = Len(mMachines) + 1 /\ mMachines'[i] = m
        BY <1>0, <3>6, <4>1, AppendElements
      <4>3. \A d \in Conn \ {c} : Registered(d)' => Registered(d)
        BY <4>1, <4>2 DEF Registered
      <4>4. Claimed(c)' \/ \A i \in 1 .. Len(mMachines) : mMachines[i].conn # c
        <5>1. CASE netQueue # <<>> /\ ans = Head(netQueue)
          <6>1. c = mAuth[ans.id] /\ ans = netQueue[1] /\ 1 \in 1 .. Len(netQueue)
            BY <2>1, <5>1, AnsweredRight, TailElements DEF TypeOK
          <6>2. ~ Settled(c)
            BY <6>1 DEF Once
          <6>. QED  BY <1>01, <6>2 DEF Settled, Registered
        <5>. QED  BY <2>1, <5>1, AnswerOrClaim
      <4>5. Distinct'
        BY <1>0, <1>01, <4>1, <4>2, <4>4
      <4>. QED  BY <1>5, <2>1, <2>2, <2>3, <3>4, <4>3, <4>5
    <3>. QED  BY <3>3, <3>5, <3>6
  <2>. QED  BY <1>7, <2>4, <2>5
<1>8. ASSUME NEW i \in 1 .. Len(mMachines), RemoveMachine(i)
      PROVE  Once' /\ ToldRight'
  <2>0. mMachines[i] \in Machine
    BY <1>0, ElementOfSeq
  <2>1. /\ dbQueue' = Append(dbQueue, Removed(mMachines[i].acct))
        /\ UNCHANGED <<netQueue, told, claims>>
        /\ Len(mMachines') = Len(mMachines) - 1
        /\ \A j \in 1 .. Len(mMachines') :
              mMachines'[j] = mMachines[IF j < i THEN j ELSE j + 1]
    BY <1>0, <1>8, RemoveOne DEF RemoveMachine, sockets, receivedVars
  <2>2. Removed(mMachines[i].acct) \in AccountEvent
    BY <2>0 DEF Machine, Removed, AccountEvent
  <2>3. DbLeft /\ NetLeft(0)
    BY <2>1, <2>2, DbLeftWhen, NetLeftWhen
  <2>4. ASSUME NEW j \in 1 .. Len(mMachines')
        PROVE  /\ (IF j < i THEN j ELSE j + 1) \in 1 .. Len(mMachines)
               /\ mMachines'[j] = mMachines[IF j < i THEN j ELSE j + 1]
    BY <1>0, <2>1
  <2>5. \A c \in Conn : Settled(c)' => Settled(c)
    BY <2>1, <2>4 DEF Settled, Registered, Claimed
  <2>6. Distinct'
    <3>. SUFFICES ASSUME NEW j \in 1 .. Len(mMachines'), NEW k \in 1 .. Len(mMachines'),
                         mMachines'[j].conn = mMachines'[k].conn,
                         ~ Claimed(mMachines[j].conn)'
                  PROVE  j = k
      OBVIOUS
    <3>1. PICK p \in 1 .. Len(mMachines), q \in 1 .. Len(mMachines) :
              /\ p = (IF j < i THEN j ELSE j + 1) /\ mMachines'[j] = mMachines[p]
              /\ q = (IF k < i THEN k ELSE k + 1) /\ mMachines'[k] = mMachines[q]
      BY <2>4
    <3>2. mMachines[p].conn = mMachines[q].conn /\ ~ Claimed(mMachines[p].conn)
      BY <1>01, <3>1
    <3>3. p = q
      BY <1>0, <3>2
    <3>. QED  BY <1>0, <2>1, <3>1, <3>3
  <2>. QED  BY <1>1, <2>1, <2>3, <2>5, <2>6, OnceKept
<1>9. CASE VerifyPass
  <2>. DEFINE e == [type |-> "AUTH", id |-> Event.id, accepted |-> RightPass(Event.cred),
                    acct |-> IF RightPass(Event.cred) THEN Event.cred.acct ELSE NoAccount]
  <2>1. /\ dbQueue # <<>> /\ Event.type = "AUTH" /\ dbQueue' = Tail(dbQueue)
        /\ netQueue' = Append(netQueue, e)
        /\ UNCHANGED <<thread, mMachines, told, mAuth, cred, claims>>
    BY <1>9 DEF VerifyPass, engineVars, sockets, threadVars, receivedVars
  <2>2. Event \in TracedAuth
    BY <2>1, TracedHeads DEF AccountEvent
  <2>3. e \in NetEvent /\ e.id = Event.id
    BY <2>2 DEF TracedAuth, AuthEvent, NetEvent, RightPass, Cred
  <2>. HIDE DEF e
  <2>4. /\ \A i \in 1 .. Len(netQueue') :
              \/ i \in 1 .. Len(netQueue) /\ netQueue'[i] = netQueue[i]
              \/ i = Len(netQueue) + 1 /\ netQueue'[i] = e
        /\ Len(netQueue) \in Nat
    BY <2>1, <2>3, AppendElements DEF TypeOK
  <2>5. /\ \A i \in 1 .. Len(dbQueue') :
              i + 1 \in 1 .. Len(dbQueue) /\ dbQueue'[i] = dbQueue[i + 1]
        /\ Event = dbQueue[1] /\ 1 \in 1 .. Len(dbQueue) /\ Len(dbQueue') = Len(dbQueue) - 1
        /\ Len(dbQueue) \in Nat
    BY <2>1, TailElements DEF TypeOK, Event
  <2>6. \A d \in Conn : Settled(d)' <=> Settled(d)
    BY <2>1 DEF Settled, Registered, Claimed
  <2>7. Asks(1)
    BY <2>1, <2>5 DEF Asks
  <2>8. \A i \in 1 .. Len(dbQueue') : Asks(i)' => Asks(i + 1)
    BY <2>5 DEF Asks
  <2>9. \A i, j \in 1 .. Len(dbQueue') :
            Asks(i)' /\ Asks(j)' /\ dbQueue'[i].id = dbQueue'[j].id => i = j
    <3>. SUFFICES ASSUME NEW i \in 1 .. Len(dbQueue'), NEW j \in 1 .. Len(dbQueue'),
                         Asks(i)', Asks(j)', dbQueue'[i].id = dbQueue'[j].id
                  PROVE  i = j
      OBVIOUS
    <3>1. i + 1 = j + 1
      BY <2>5, <2>8 DEF Once
    <3>. QED  BY <3>1
  <2>10. \A i, j \in 1 .. Len(netQueue') : netQueue'[i].id = netQueue'[j].id => i = j
    BY <2>3, <2>4, <2>5, <2>7 DEF Once
  <2>11. \A i \in 1 .. Len(dbQueue'), j \in 1 .. Len(netQueue') :
            Asks(i)' => dbQueue'[i].id # netQueue'[j].id
    <3>. SUFFICES ASSUME NEW i \in 1 .. Len(dbQueue'), NEW j \in 1 .. Len(netQueue'), Asks(i)',
                         dbQueue'[i].id = netQueue'[j].id
                  PROVE  FALSE
      OBVIOUS
    <3>1. Asks(i + 1) /\ dbQueue'[i] = dbQueue[i + 1] /\ i + 1 \in 1 .. Len(dbQueue)
      BY <2>5, <2>8
    <3>2. CASE netQueue'[j] = e
      <4>1. i + 1 = 1
        BY <2>3, <2>5, <2>7, <3>1, <3>2 DEF Once
      <4>. QED  BY <4>1
    <3>3. CASE j \in 1 .. Len(netQueue) /\ netQueue'[j] = netQueue[j]
      BY <3>1, <3>3 DEF Once
    <3>. QED  BY <2>4, <3>2, <3>3
  <2>12. \A k : Asked(k) => \E d \in Conn : mAuth[k] = d /\ mAuth'[k] = d
    BY <2>1 DEF Asked, TypeOK
  <2>13. ASSUME NEW k, Asked(k), ~ Settled(mAuth[k])  PROVE ~ Settled(mAuth[k])'
    BY <2>6, <2>12, <2>13
  <2>14. \A i \in 1 .. Len(dbQueue') : Asks(i)' => ~ Settled(mAuth[dbQueue[i].id])'
    <3>. SUFFICES ASSUME NEW i \in 1 .. Len(dbQueue'), Asks(i)'
                  PROVE  ~ Settled(mAuth[dbQueue[i].id])'
      OBVIOUS
    <3>1. PICK k : k = dbQueue'[i].id
      OBVIOUS
    <3>2. Asks(i + 1) /\ k = dbQueue[i + 1].id /\ i + 1 \in 1 .. Len(dbQueue)
      BY <2>5, <2>8, <3>1
    <3>3. Asked(k) /\ ~ Settled(mAuth[k])
      BY <3>2, TracedHeads DEF Once, TracedAuth
    <3>. QED  BY <2>13, <3>1, <3>3
  <2>15. \A i \in 1 .. Len(netQueue') : ~ Settled(mAuth[netQueue[i].id])'
    <3>. SUFFICES ASSUME NEW i \in 1 .. Len(netQueue')
                  PROVE  ~ Settled(mAuth[netQueue[i].id])'
      OBVIOUS
    <3>1. PICK k : k = netQueue'[i].id
      OBVIOUS
    <3>2. Asked(k) /\ ~ Settled(mAuth[k])
      <4>1. CASE i \in 1 .. Len(netQueue) /\ netQueue'[i] = netQueue[i]
        BY <3>1, <4>1, TracedHeads DEF Once, TracedAnswer
      <4>2. CASE netQueue'[i] = e
        BY <2>2, <2>3, <2>5, <2>7, <3>1, <4>2 DEF Once, TracedAuth
      <4>. QED  BY <2>4, <4>1, <4>2
    <3>. QED  BY <2>13, <3>1, <3>2
  <2>16. \A d \in Conn : thread'[d] # "done" => ~ Settled(d)'
    BY <2>1, <2>6 DEF Once
  <2>. QED  BY <1>01, <1>1, <2>1, <2>9, <2>10, <2>11, <2>14, <2>15, <2>16 DEF Once
<1>10. \/ UNCHANGED <<netQueue, told, mMachines>> /\ DbLeft
       \/ \E c \in Conn : RefuseAtOnce(c) \/ PushAuth(c)
       \/ \E ans \in Answers :
             \/ AuthNotFound(ans)
             \/ \E c \in Conn : \/ RejectAuth(ans, c) \/ AcceptAuth(ans, c)
                                \/ AcceptAuthSendFails(ans, c) \/ AcceptAuthThrows(ans, c)
       \/ VerifyPass
       \/ \E i \in 1 .. Len(mMachines) : RemoveMachine(i)
  <2>1. CASE ChangeAccountState \/ DataBaseThrows
    BY <2>1, DbLeftWhen DEF ChangeAccountState, DataBaseThrows, sockets
  <2>2. CASE UNCHANGED <<dbQueue, netQueue, told, mMachines>>
    BY <2>2, DbLeftWhen
  <2>3. \/ UNCHANGED <<dbQueue, netQueue, told, mMachines>>
        \/ \E c \in Conn : RefuseAtOnce(c) \/ PushAuth(c)
        \/ HandleAnswer \/ VerifyPass \/ ChangeAccountState \/ DataBaseThrows
        \/ \E i \in 1 .. Len(mMachines) : RemoveMachine(i)
    BY DEF Next, vars, engineVars, sockets, Client, ThreadRuns, HandleAcceptTcp, ClientCloses,
       NickReceived, ReadId, WriteId, InsertAuth, LinkAuth, FillAuth,
       FrameEnds, HandleDbEvent, AuthReceived, AuthAsserts, SendWaits
  <2>. QED  BY <2>1, <2>2, <2>3 DEF HandleAnswer
<1>. QED  BY <1>2, <1>3, <1>4, <1>6, <1>7, <1>8, <1>9, <1>10

LEMMA InitTraced == Init => Numbers /\ Traced /\ Once /\ ToldRight
<1>. SUFFICES ASSUME Init  PROVE Numbers /\ Traced /\ Once /\ ToldRight
  OBVIOUS
<1>1. \A S : <<>> \in Seq(S)
  BY EmptySeq
<1>2. Len(<<>>) = 0
  BY EmptySeq
<1>3. DOMAIN mAuth = {} /\ \A c \in Conn : thread[c] = "idle" /\ told[c] = <<>>
  BY DEF Init
<1>4. Numbers
  BY <1>3 DEF Numbers, Section
<1>5. Traced
  BY <1>1 DEF Init, Traced
<1>6. Once /\ ToldRight
  BY <1>2, <1>3 DEF Init, Once, ToldRight, Settled, Registered
<1>. QED  BY <1>4, <1>5, <1>6

-------------------------------------------------------------------------------
IInv ==
    /\ TypeOK /\ Credentials /\ Verified
    /\ MachinesInOrder /\ OnlineMeansPresent
    /\ ~ raced => Numbers /\ Traced /\ Once /\ ToldRight

(* In every state of every behaviour the inductive invariant holds.        *)
LEMMA Invariance == Spec => []IInv
<1>1. Init => IInv
  <2>. SUFFICES ASSUME Init  PROVE IInv
    OBVIOUS
  <2>1. Len(<<>>) = 0
    BY EmptySeq
  <2>2. MachinesInOrder
    BY <2>1 DEF Init, MachinesInOrder
  <2>3. OnlineMeansPresent
    BY <2>1 DEF Init, OnlineMeansPresent, FinallyOnline
  <2>. QED  BY <2>2, <2>3, InitVerified, InitTraced DEF IInv
<1>2. IInv /\ [Next]_vars => IInv'
  <2>. SUFFICES ASSUME IInv, [Next]_vars  PROVE IInv'
    OBVIOUS
  <2>1. TypeOK' /\ Credentials' /\ Verified' /\ MachinesInOrder' /\ OnlineMeansPresent'
    BY NextTypeOK, NextCredentials, NextVerified, NextInOrder, NextOnline DEF IInv
  <2>2. ASSUME ~ raced'
        PROVE  Numbers' /\ Traced' /\ Once' /\ ToldRight'
    <3>1. TypeOK /\ Credentials /\ Verified /\ Numbers /\ Traced /\ Once /\ ToldRight
      BY <2>2, RacedStays DEF IInv
    <3>. QED  BY <2>2, <3>1, NextNumbers, NextTraced, NextOnce
  <2>. QED  BY <2>1, <2>2 DEF IInv
<1>. QED  BY <1>1, <1>2, PTL DEF Spec

(* Every variable of the login keeps its type; in particular an accepted   *)
(* answer names an account.                                                *)
THEOREM TypeCorrect == Spec => []TypeOK
<1>1. IInv => TypeOK
  BY DEF IInv
<1>. QED  BY <1>1, Invariance, PTL

(* Whatever the receive threads do to id and mAuth, a machine's account    *)
(* was verified, somebody having sent its right password, or a received    *)
(* AUTH event that no machine stamped named it.                            *)
THEOREM MachinesVerified == Spec => []AccountsVerified
<1>1. IInv => AccountsVerified
  <2>. SUFFICES ASSUME IInv, NEW i \in 1 .. Len(mMachines)
                PROVE  \/ \E c \in Conn : cred[c] = [acct |-> mMachines[i].acct, right |-> TRUE]
                       \/ Named(mMachines[i].acct)
    BY DEF AccountsVerified
  <2>1. mMachines[i] \in ProperMachine
    BY ElementOfSeq DEF IInv, Verified
  <2>. QED  BY <2>1 DEF ProperMachine, Proved
<1>. QED  BY <1>1, Invariance, PTL

(* Machines are registered in the order of their numbers, whatever is      *)
(* removed in between: no number is given twice.                           *)
THEOREM RegistryOrdered == Spec => []MachinesInOrder
<1>1. IInv => MachinesInOrder
  BY DEF IInv
<1>. QED  BY <1>1, Invariance, PTL

(* While the engine thread lives, the queue of the database leaves no      *)
(* account online that has no machine.                                     *)
THEOREM NobodyStaysOnline == Spec => []OnlineMeansPresent
<1>1. IInv => OnlineMeansPresent
  BY DEF IInv
<1>. QED  BY <1>1, Invariance, PTL

(* Unless the unprotected accesses to id and mAuth have overlapped, every  *)
(* login that no received AUTH event was about is answered rightly, and    *)
(* once.                                                                   *)
THEOREM AnsweredRightly == Spec => []RightAnswers
<1>1. IInv => RightAnswers
  <2>. SUFFICES ASSUME IInv, ~ raced, NEW c \in Conn, ~ Claimed(c)
                PROVE  /\ \A i \in 1 .. Len(mMachines) : mMachines[i].conn = c =>
                             /\ cred[c] = [acct |-> mMachines[i].acct, right |-> TRUE]
                             /\ \A j \in 1 .. Len(mMachines) : mMachines[j].conn = c => i = j
                       /\ \/ told[c] = <<>>
                          \/ told[c] = <<"accepted">> /\ cred[c] # NoCred /\ cred[c].right
                          \/ told[c] = <<"refused">> /\ (cred[c] = NoCred \/ ~ cred[c].right)
    BY DEF RightAnswers
  <2>1. \A i \in 1 .. Len(mMachines) : mMachines[i] \in TracedMachine
    BY ElementOfSeq DEF IInv, Traced
  <2>2. \A i \in 1 .. Len(mMachines) : mMachines[i].conn = c =>
            /\ cred[c] = [acct |-> mMachines[i].acct, right |-> TRUE]
            /\ \A j \in 1 .. Len(mMachines) : mMachines[j].conn = c => i = j
    BY <2>1 DEF IInv, TracedMachine, Once
  <2>. QED  BY <2>2, NoCredAssumption DEF IInv, ToldRight
<1>. QED  BY <1>1, Invariance, PTL
===============================================================================

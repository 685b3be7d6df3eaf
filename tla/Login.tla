--------------------------------- MODULE Login ---------------------------------
(***************************************************************************)
(* From an accepted connection to a registered machine                     *)
(* (Engine/SNetEngine.cpp, Engine/SDataBaseEngine.cpp).  Each connection   *)
(* gets a thread (ServerThreadTCPReceive) that reads the client's          *)
(* credentials, numbers the login with a static counter, stores its socket *)
(* in mAuth under that number and asks the database engine.  The one       *)
(* thread that runs both engines (Game::RunEngines) verifies the           *)
(* credentials and, from the answer's number, finds the socket again and   *)
(* accepts or refuses.  Neither the counter nor mAuth is protected: each   *)
(* access to them is a step of its own.  The table of received events has  *)
(* a row for AUTH too: one that a client or a console sends is handled as  *)
(* the database's answer is.  Of all received events only these are here   *)
(* (Machines has the others).                                              *)
(***************************************************************************)
EXTENDS Integers, Sequences

CONSTANTS Conn,         \* the connections clients make
          Account,      \* the accounts of the database
          NoAccount,    \* an ACCT_ID that was not set
          NoCred,       \* the credentials of a client that sent none
          MaxAuth       \* bound on the AUTH events that clients and consoles send

ASSUME LoginAssumption == NoAccount \notin Account /\ MaxAuth \in Nat

(* What a MSG_NICK says: an account and the right password for it, or not. *)
Cred == [acct : Account, right : BOOLEAN]

ASSUME NoCredAssumption == NoCred \notin Cred

VARIABLES thread,       \* where each connection's receive thread is
          cred,         \* the credentials each client sent
          tmp,          \* each receive thread's copy of id
          seen,         \* the keys of mAuth when the thread's insert() began
          id,           \* the static counter of ServerThreadTCPReceive
          mAuth,        \* logins in progress: number -> connection
          dbQueue,      \* the database engine's mEventsQueue
          netQueue,     \* the network engine's mEventsQueue
          received,     \* its mReceivedEvents: the stamp of each AUTH event
          auths,        \* how many have been received
          stage,        \* the queue the engine thread is emptying, or how it ended
          mMachines,    \* the registered machines, oldest first
          mNextMachineID,
          open,         \* is the server's end of the socket open?
          gone,         \* has the client closed its end?
          told,         \* the MSG_NICK answers each client received, in order
          mParent,      \* whose stamp the events of each socket get
          waitsFor,     \* the clients a write waits for: they stay and do not read
          online,       \* the state last given to ChangeAccountState
          raced,        \* history: have unprotected accesses overlapped?
          claims        \* history: what received AUTH events were about

threadVars == <<thread, cred, tmp, seen, id>>
engineVars == <<stage, mMachines, mNextMachineID, online>>
sockets == <<open, gone, told, mParent, waitsFor>>
receivedVars == <<received, auths, claims>>
vars == <<threadVars, mAuth, dbQueue, netQueue, receivedVars, engineVars, sockets, raced>>

Machine == [id : Nat, conn : Conn, acct : Account]
DbEvent == [type : {"AUTH"}, id : Nat, cred : Cred]
           \cup [type : {"WELCOME", "REMOVE_MACHINE"}, acct : Account]
NetEvent == [type : {"AUTH"}, id : Nat, accepted : BOOLEAN,
             acct : Account \cup {NoAccount}]

(* What NetMachine::PushReceivedEvent writes into an event.  The socket of *)
(* a login, like a console, has no machine behind it: what its events say  *)
(* is the sender's own.                                                    *)
Stamp == [id : Nat, acct : Account]
NoStamp == [id |-> 0, acct |-> NoAccount]

(* A received AUTH event was about the connection kept under its number    *)
(* and, unless a machine stamped it, named an account on the sender's own  *)
(* word.                                                                   *)
Claim == [conn : Conn, acct : Account \cup {NoAccount}]

Init ==
    /\ thread = [c \in Conn |-> "idle"]
    /\ cred = [c \in Conn |-> NoCred]
    /\ tmp = [c \in Conn |-> 0]
    /\ seen = [c \in Conn |-> {}]
    /\ id = 0
    /\ mAuth = [k \in {} |-> k]
    /\ dbQueue = <<>>
    /\ netQueue = <<>>
    /\ received = <<>>
    /\ auths = 0
    /\ stage = "net"
    /\ mMachines = <<>>
    /\ mNextMachineID = 1
    /\ open = [c \in Conn |-> FALSE]
    /\ gone = [c \in Conn |-> FALSE]
    /\ told = [c \in Conn |-> <<>>]
    /\ mParent = [c \in Conn |-> NoStamp]
    /\ waitsFor = {}
    /\ online = [a \in Account |-> FALSE]
    /\ raced = FALSE
    /\ claims = {}

-------------------------------------------------------------------------------
(* Sending.  TcpSocket::SendEvent fails on a socket the server has closed; *)
(* on one the client has closed it fails or not, depending on whether the  *)
(* close has been noticed.  write_some waits for as long as the client     *)
(* stays and does not read (TcpSocket): a wait that ends is no step here,  *)
(* and one that does not holds the engine thread up for ever.              *)
MaySend(c) == open[c]
MayFailToSend(c) == gone[c] \/ ~ open[c]

(* What the client sees of an answer that was sent. *)
Tell(c, answer) ==
    told' = IF gone[c] THEN told ELSE [told EXCEPT ![c] = Append(@, answer)]

WaitsForEver(c) ==
    /\ MaySend(c)
    /\ ~ gone[c]
    /\ stage' = "waits"
    /\ waitsFor' = {c}

(* SendEvent from the engine thread. *)
Sends(c, answer) ==
    \/ MaySend(c) /\ Tell(c, answer) /\ UNCHANGED <<stage, waitsFor>>
    \/ WaitsForEver(c) /\ UNCHANGED told

-------------------------------------------------------------------------------
(* The client and the receive thread of a connection.                      *)

(* HandleAcceptTcp: the accept handler starts the thread. *)
HandleAcceptTcp(c) ==
    /\ thread[c] = "idle"
    /\ thread' = [thread EXCEPT ![c] = "receive"]
    /\ open' = [open EXCEPT ![c] = TRUE]
    /\ UNCHANGED <<cred, tmp, seen, id, mAuth, dbQueue, netQueue, receivedVars,
                   engineVars, gone, told, mParent, waitsFor, raced>>

ClientCloses(c) ==
    /\ thread[c] # "idle"
    /\ ~ gone[c]
    /\ c \notin waitsFor
    /\ gone' = [gone EXCEPT ![c] = TRUE]
    /\ UNCHANGED <<threadVars, mAuth, dbQueue, netQueue, receivedVars, engineVars,
                   open, told, mParent, waitsFor, raced>>

(* SyncReceive returned something other than a MSG_NICK with a name in it: *)
(* another event, an empty name, or, after an error, an event nobody       *)
(* filled in, whose name is empty whatever its type is.                    *)
RefuseAtOnce(c) ==
    /\ thread[c] = "receive"
    /\ thread' = [thread EXCEPT ![c] = "done"]
    /\ Tell(c, "refused")
    /\ open' = [open EXCEPT ![c] = FALSE]
    /\ UNCHANGED <<cred, tmp, seen, id, mAuth, dbQueue, netQueue, receivedVars,
                   engineVars, gone, mParent, waitsFor, raced>>

(* SyncReceive returned a MSG_NICK naming an account. *)
NickReceived(c) ==
    /\ thread[c] = "receive"
    /\ ~ gone[c]
    /\ \E k \in Cred : cred' = [cred EXCEPT ![c] = k]
    /\ thread' = [thread EXCEPT ![c] = "start"]
    /\ UNCHANGED <<tmp, seen, id, mAuth, dbQueue, netQueue, receivedVars, engineVars,
                   sockets, raced>>

(* AsyncRead, or a console's thread, pushes an AUTH event.  SyncReceive    *)
(* arms the socket, so that a client need not be accepted to be heard.     *)
AuthReceived ==
    /\ auths < MaxAuth
    /\ auths' = auths + 1
    /\ \E s \in {NoStamp} \cup {mParent[c] : c \in Conn} : received' = Append(received, s)
    /\ UNCHANGED <<threadVars, mAuth, dbQueue, netQueue, claims, engineVars, sockets, raced>>

(* The statements from id++ to the reading of id for the AUTH event, which *)
(* a lock would have to cover.                                             *)
Section == {"write", "key", "link", "fill"}

(* id++ : read, then write. *)
ReadId(c) ==
    /\ thread[c] = "start"
    /\ raced' = (raced \/ \E d \in Conn : thread[d] \in Section)
    /\ tmp' = [tmp EXCEPT ![c] = id]
    /\ thread' = [thread EXCEPT ![c] = "write"]
    /\ UNCHANGED <<cred, seen, id, mAuth, dbQueue, netQueue, receivedVars, engineVars, sockets>>

(* Mutant: the counter is set, not advanced. *)
IncrementedToOne(n) == 1

Incremented(n) == n + 1

WriteId(c) ==
    /\ thread[c] = "write"
    /\ id' = Incremented(tmp[c])
    /\ thread' = [thread EXCEPT ![c] = "key"]
    /\ UNCHANGED <<cred, tmp, seen, mAuth, dbQueue, netQueue, receivedVars, engineVars,
                   sockets, raced>>

(* mAuth.insert(pair(id, auth)) reads id and looks for its place. An entry *)
(* already there stays as it is.                                           *)
InsertAuth(c) ==
    /\ thread[c] = "key"
    /\ tmp' = [tmp EXCEPT ![c] = id]
    /\ seen' = [seen EXCEPT ![c] = DOMAIN mAuth]
    /\ thread' = [thread EXCEPT ![c] = IF id \in DOMAIN mAuth THEN "fill" ELSE "link"]
    /\ UNCHANGED <<cred, id, mAuth, dbQueue, netQueue, receivedVars, engineVars,
                   sockets, raced>>

(* Mutant: the entry is not stored. *)
NotLinked(kept, k, owner) == mAuth

Linked(kept, k, owner) ==
    [j \in kept \cup {k} |-> IF j = k THEN owner ELSE mAuth[j]]

(* It then links the new entry.  What another thread has linked since the  *)
(* search is kept or, the two inserts being a data race, lost; two entries *)
(* linked under one number hide one another.                               *)
LinkAuth(c) ==
    /\ thread[c] = "link"
    /\ \E kept \in {DOMAIN mAuth, seen[c] \cap DOMAIN mAuth},
          owner \in {c} \cup {mAuth[k] : k \in DOMAIN mAuth \cap {tmp[c]}} :
          mAuth' = Linked(kept, tmp[c], owner)
    /\ thread' = [thread EXCEPT ![c] = "fill"]
    /\ UNCHANGED <<cred, tmp, seen, id, dbQueue, netQueue, receivedVars, engineVars,
                   sockets, raced>>

(* eauth.miData["ID"] = id *)
FillAuth(c) ==
    /\ thread[c] = "fill"
    /\ tmp' = [tmp EXCEPT ![c] = id]
    /\ thread' = [thread EXCEPT ![c] = "push"]
    /\ UNCHANGED <<cred, seen, id, mAuth, dbQueue, netQueue, receivedVars, engineVars,
                   sockets, raced>>

(* SendMessageToDataBase(eauth) *)
PushAuth(c) ==
    /\ thread[c] = "push"
    /\ dbQueue' = Append(dbQueue, [type |-> "AUTH", id |-> tmp[c], cred |-> cred[c]])
    /\ thread' = [thread EXCEPT ![c] = "done"]
    /\ UNCHANGED <<cred, tmp, seen, id, mAuth, netQueue, receivedVars, engineVars,
                   sockets, raced>>

ThreadRuns(c) ==
    \/ ReadId(c) \/ WriteId(c) \/ InsertAuth(c) \/ LinkAuth(c)
    \/ FillAuth(c) \/ PushAuth(c)

-------------------------------------------------------------------------------
(* The engine thread: NetEngine::Frame, which empties mEventsQueue and     *)
(* then mReceivedEvents, and DataBaseEngine::Frame.                        *)

FrameEnds ==
    /\ \/ stage = "net" /\ netQueue = <<>> /\ stage' = "received"
       \/ stage = "received" /\ received = <<>> /\ stage' = "db"
       \/ stage = "db" /\ dbQueue = <<>> /\ stage' = "net"
    /\ UNCHANGED <<threadVars, mAuth, dbQueue, netQueue, receivedVars, mMachines,
                   mNextMachineID, online, sockets, raced>>

(* mAuth.find(id), which may miss an entry while one is being linked. *)
FindAuth(k) == {mAuth[j] : j \in DOMAIN mAuth \cap {k}}
Linking == \E c \in Conn : thread[c] = "link"

(* What a received AUTH event says.  Of the numbers not in mAuth one, 0,   *)
(* stands for all; the account matters to a login that is accepted only.   *)
Said(s) ==
    LET ids == IF s = NoStamp THEN DOMAIN mAuth \cup {0} ELSE {s.id}
        accts == IF s = NoStamp THEN Account ELSE {s.acct}
    IN  [type : {"AUTH"}, id : ids, accepted : {TRUE}, acct : accts]
        \cup [type : {"AUTH"}, id : ids, accepted : {FALSE}, acct : {NoAccount}]

(* The event that NetEngine::ProcessAuth is called with. *)
Answers ==
    CASE stage = "net" /\ netQueue # <<>> -> {Head(netQueue)}
      [] stage = "received" /\ received # <<>> -> Said(Head(received))
      [] OTHER -> {}

ClaimsOf(ans) ==
    {[conn |-> c, acct |-> IF Head(received) = NoStamp THEN ans.acct ELSE NoAccount] :
        c \in FindAuth(ans.id)}

TakeAnswer ==
    /\ stage = "net"
    /\ netQueue' = Tail(netQueue)
    /\ UNCHANGED <<received, claims>>

TakeReceived(ans) ==
    /\ stage = "received"
    /\ received' = Tail(received)
    /\ claims' = claims \cup ClaimsOf(ans)
    /\ UNCHANGED netQueue

(* NetEngine::ProcessAuth: what all its outcomes have in common. *)
ProcessAuth(ans) ==
    /\ ans \in Answers
    /\ TakeAnswer \/ TakeReceived(ans)
    /\ raced' = (raced \/ Linking)
    /\ UNCHANGED <<threadVars, mAuth, auths, online, gone>>

AuthNotFound(ans) ==
    /\ ProcessAuth(ans)
    /\ FindAuth(ans.id) = {} \/ Linking
    /\ UNCHANGED <<dbQueue, stage, mMachines, mNextMachineID, open, told, mParent, waitsFor>>

(* A received event lacks a field: an assertion fails. *)
AuthAsserts ==
    /\ stage = "received"
    /\ received # <<>>
    /\ received' = Tail(received)
    /\ stage' = "dead"
    /\ UNCHANGED <<threadVars, mAuth, dbQueue, netQueue, auths, claims, mMachines,
                   mNextMachineID, online, sockets, raced>>

(* Reject and close, unless the sending of the answer does not return. *)
RejectAuth(ans, c) ==
    /\ ProcessAuth(ans)
    /\ c \in FindAuth(ans.id)
    /\ ~ ans.accepted
    /\ \/ /\ \/ MaySend(c) /\ Tell(c, "refused")
             \/ MayFailToSend(c) /\ UNCHANGED told
          /\ open' = [open EXCEPT ![c] = FALSE]
          /\ UNCHANGED <<stage, waitsFor>>
       \/ WaitsForEver(c) /\ UNCHANGED <<open, told>>
    /\ UNCHANGED <<dbQueue, mMachines, mNextMachineID, mParent>>

Welcome(a) == [type |-> "WELCOME", acct |-> a]
Removed(a) == [type |-> "REMOVE_MACHINE", acct |-> a]

(* Mutant: the number is not used up. *)
SameMachineID == mNextMachineID

(* What GetNextMachineID leaves in mNextMachineID. *)
NextMachineID == mNextMachineID + 1

(* Mutant: the account is shown online once the answer has been sent. *)
WelcomedLast(a) == <<Removed(a), Welcome(a)>>

(* What accepting a login whose answer cannot be sent tells the database. *)
WelcomedAndRemoved(a) == <<Welcome(a), Removed(a)>>

(* NetMachine's constructor: from now on the socket's events are stamped.  *)
NetMachine(ans, c) ==
    /\ mNextMachineID' = NextMachineID
    /\ mParent' = [mParent EXCEPT ![c] = [id |-> mNextMachineID, acct |-> ans.acct]]

(* AcceptAuth when the answer reaches the socket, or waits to. *)
AcceptAuth(ans, c) ==
    /\ ProcessAuth(ans)
    /\ c \in FindAuth(ans.id)
    /\ ans.accepted
    /\ NetMachine(ans, c)
    /\ mMachines' = Append(mMachines,
                        [id |-> mNextMachineID, conn |-> c, acct |-> ans.acct])
    /\ dbQueue' = Append(dbQueue, Welcome(ans.acct))
    /\ Sends(c, "accepted")
    /\ UNCHANGED open

(* AcceptAuth when it does not: TCPSend removes the new machine at once. *)
AcceptAuthSendFails(ans, c) ==
    /\ ProcessAuth(ans)
    /\ c \in FindAuth(ans.id)
    /\ ans.accepted
    /\ MaySend(c) /\ MayFailToSend(c)
    /\ NetMachine(ans, c)
    /\ dbQueue' = dbQueue \o WelcomedAndRemoved(ans.acct)
    /\ UNCHANGED <<stage, mMachines, open, told, waitsFor>>

(* NetMachine's constructor asks for the remote endpoint, which throws     *)
(* when there is none any more: the engine thread ends.                    *)
AcceptAuthThrows(ans, c) ==
    /\ ProcessAuth(ans)
    /\ c \in FindAuth(ans.id)
    /\ ans.accepted
    /\ MayFailToSend(c)
    /\ NetMachine(ans, c)
    /\ stage' = "dead"
    /\ UNCHANGED <<dbQueue, mMachines, open, told, waitsFor>>

(* A later TCPSend to a registered machine, in either part of              *)
(* NetEngine::Frame, fails: RemoveMachine.                                 *)
RemoveMachine(i) ==
    /\ stage \in {"net", "received"}
    /\ MayFailToSend(mMachines[i].conn)
    /\ mMachines' = SubSeq(mMachines, 1, i - 1)
                      \o SubSeq(mMachines, i + 1, Len(mMachines))
    /\ dbQueue' = Append(dbQueue, Removed(mMachines[i].acct))
    /\ UNCHANGED <<threadVars, mAuth, netQueue, receivedVars, stage, mNextMachineID,
                   online, sockets, raced>>

(* Or it does not return. *)
SendWaits(i) ==
    /\ stage \in {"net", "received"}
    /\ WaitsForEver(mMachines[i].conn)
    /\ UNCHANGED <<threadVars, mAuth, dbQueue, netQueue, receivedVars, mMachines,
                   mNextMachineID, online, open, gone, told, mParent, raced>>

Event == Head(dbQueue)

(* Mutant: the password is not compared. *)
AnyPass(k) == TRUE

(* DataBase::VerifyPass *)
RightPass(k) == k.right

(* DataBaseEngine::ProcessAuth *)
VerifyPass ==
    /\ stage = "db"
    /\ dbQueue # <<>>
    /\ Event.type = "AUTH"
    /\ dbQueue' = Tail(dbQueue)
    /\ netQueue' = Append(netQueue,
          [type |-> "AUTH", id |-> Event.id, accepted |-> RightPass(Event.cred),
           acct |-> IF RightPass(Event.cred) THEN Event.cred.acct ELSE NoAccount])
    /\ UNCHANGED <<threadVars, mAuth, receivedVars, engineVars, sockets, raced>>

(* DataBaseEngine::ProcessWelcome and ProcessRemoveMachine *)
ChangeAccountState ==
    /\ stage = "db"
    /\ dbQueue # <<>>
    /\ Event.type \in {"WELCOME", "REMOVE_MACHINE"}
    /\ dbQueue' = Tail(dbQueue)
    /\ online' = [online EXCEPT ![Event.acct] = (Event.type = "WELCOME")]
    /\ UNCHANGED <<threadVars, mAuth, netQueue, receivedVars, stage, mMachines,
                   mNextMachineID, sockets, raced>>

(* A call to the database throws: the engine thread ends. *)
DataBaseThrows ==
    /\ stage = "db"
    /\ dbQueue # <<>>
    /\ dbQueue' = Tail(dbQueue)
    /\ stage' = "dead"
    /\ UNCHANGED <<threadVars, mAuth, netQueue, receivedVars, mMachines,
                   mNextMachineID, online, sockets, raced>>

-------------------------------------------------------------------------------
HandleAnswer ==
    \E ans \in Answers :
        \/ AuthNotFound(ans)
        \/ \E c \in Conn : \/ RejectAuth(ans, c) \/ AcceptAuth(ans, c)
                           \/ AcceptAuthSendFails(ans, c) \/ AcceptAuthThrows(ans, c)

HandleDbEvent == VerifyPass \/ ChangeAccountState \/ DataBaseThrows

Client(c) ==
    \/ HandleAcceptTcp(c) \/ ClientCloses(c) \/ RefuseAtOnce(c) \/ NickReceived(c)

Next ==
    \/ \E c \in Conn : Client(c) \/ ThreadRuns(c)
    \/ AuthReceived
    \/ FrameEnds \/ HandleAnswer \/ AuthAsserts \/ HandleDbEvent
    \/ \E i \in 1 .. Len(mMachines) : RemoveMachine(i) \/ SendWaits(i)

(* A receive thread that has its credentials keeps running, and so does    *)
(* the frame loop until a send waits for ever.  Clients are obliged to     *)
(* nothing.                                                                *)
Fairness ==
    /\ \A c \in Conn : WF_vars(ThreadRuns(c))
    /\ WF_vars(FrameEnds \/ HandleAnswer \/ HandleDbEvent)

Spec == Init /\ [][Next]_vars /\ Fairness

-------------------------------------------------------------------------------
ThreadState == {"idle", "receive", "start", "push", "done"} \cup Section

TypeOK ==
    /\ thread \in [Conn -> ThreadState]
    /\ cred \in [Conn -> Cred \cup {NoCred}]
    /\ tmp \in [Conn -> Nat]
    /\ seen \in [Conn -> SUBSET Nat]
    /\ id \in Nat
    /\ DOMAIN mAuth \subseteq Nat
    /\ mAuth \in [DOMAIN mAuth -> Conn]
    /\ dbQueue \in Seq(DbEvent)
    /\ netQueue \in Seq(NetEvent)
    /\ received \in Seq(Stamp \cup {NoStamp})
    /\ auths \in Nat
    /\ stage \in {"net", "received", "db", "dead", "waits"}
    /\ mMachines \in Seq(Machine)
    /\ mNextMachineID \in Nat
    /\ open \in [Conn -> BOOLEAN]
    /\ gone \in [Conn -> BOOLEAN]
    /\ told \in [Conn -> Seq({"accepted", "refused"})]
    /\ mParent \in [Conn -> Stamp \cup {NoStamp}]
    /\ waitsFor \subseteq Conn
    /\ online \in [Account -> BOOLEAN]
    /\ raced \in BOOLEAN
    /\ claims \subseteq Claim

(* A received AUTH event was about the connection. *)
Claimed(c) == \E k \in claims : k.conn = c

(* Some sender's own word was that the account's login is accepted.        *)
Named(a) == \E k \in claims : k.acct = a

(* Unless the unprotected accesses have overlapped, an answer leads back,  *)
(* by its number, to the connection that asked: a connection that no       *)
(* received AUTH event was about is registered at most once, under the     *)
(* account whose right password it sent itself, and its client hears one   *)
(* answer, and the right one.                                              *)
RightAnswers ==
    ~ raced => \A c \in Conn : Claimed(c) \/
        /\ \A i \in 1 .. Len(mMachines) : mMachines[i].conn = c =>
              /\ cred[c] = [acct |-> mMachines[i].acct, right |-> TRUE]
              /\ \A j \in 1 .. Len(mMachines) : mMachines[j].conn = c => i = j
        /\ \/ told[c] = <<>>
           \/ told[c] = <<"accepted">> /\ cred[c] # NoCred /\ cred[c].right
           \/ told[c] = <<"refused">> /\ (cred[c] = NoCred \/ ~ cred[c].right)

(* Whatever overlaps, there are two ways to a machine: somebody sent its   *)
(* account's right password, or an AUTH event that no machine stamped, a   *)
(* client's or a console's, named the account, and nothing verified it.    *)
AccountsVerified ==
    \A i \in 1 .. Len(mMachines) :
        \/ \E c \in Conn : cred[c] = [acct |-> mMachines[i].acct, right |-> TRUE]
        \/ Named(mMachines[i].acct)

(* The registry is in the order of the machines' numbers, all handed out   *)
(* before the next: no two machines share a number, so a reply addressed   *)
(* by number reaches the machine that asked or none.                       *)
MachinesInOrder ==
    /\ \A i \in 1 .. Len(mMachines) : mMachines[i].id < mNextMachineID
    /\ \A i, j \in 1 .. Len(mMachines) : i < j => mMachines[i].id < mMachines[j].id

(* What the database will say of an account once it has handled its queue. *)
FinallyOnline(a) ==
    LET NotRemovedAfter(i) == \A j \in i + 1 .. Len(dbQueue) : dbQueue[j] # Removed(a)
    IN  \/ online[a] /\ NotRemovedAfter(0)
        \/ \E i \in 1 .. Len(dbQueue) : dbQueue[i] = Welcome(a) /\ NotRemovedAfter(i)

(* Until the engine thread ends, no account stays online for nobody: every *)
(* removal is queued behind the welcome it undoes.                         *)
OnlineMeansPresent ==
    stage # "dead" =>
        \A a \in Account :
            FinallyOnline(a) => \E i \in 1 .. Len(mMachines) : mMachines[i].acct = a

(* A client that has sent credentials hears an answer, unless it leaves,   *)
(* the engine thread ends or waits for ever for a client that does not     *)
(* read, or the unprotected accesses overlap.                              *)
LoginAnswered ==
    \A c \in Conn :
        thread[c] = "start" ~>
            (told[c] # <<>> \/ gone[c] \/ stage \in {"dead", "waits"} \/ raced)
================================================================================

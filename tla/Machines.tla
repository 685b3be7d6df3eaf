-------------------------------- MODULE Machines --------------------------------
(***************************************************************************)
(* The life of the registered machines (Engine/SNetMachine.cpp,            *)
(* Engine/SNetEngine.cpp, Engine/SDataBaseEngine.cpp): what a client sends *)
(* is read by the network thread (TcpSocket::AsyncRead), stamped with the  *)
(* machine's number (NetMachine::PushReceivedEvent), handled by the        *)
(* network engine or passed on to the database engine, whose reply finds   *)
(* its way back by that number; chat goes to every machine; a machine is   *)
(* removed when something cannot be sent to it.  Which connections come to *)
(* be accepted, how often, and what else an accept can lead to is module   *)
(* Login's subject: here any may be that is up, at any time.  Events have  *)
(* the fields their handlers assert, but for ID and ACCT_ID.               *)
(***************************************************************************)
EXTENDS Naturals, Sequences, FiniteSets

CONSTANTS Conn,         \* connections whose login may be accepted
          Sender,       \* bound: those that send anything, others only listen
          Kind,         \* the kinds of events clients send
          OwnStamp,     \* the IDs they put in themselves, 0: none
          MaxRequest,   \* bound on the events each client sends
          MaxMachine,   \* bound on the machines made
          Eager         \* may a client send before it hears it is accepted?

(* Kinds the network engine passes on, and those the database replies to.  *)
Replied == {"CHARACTERS_LIST", "PLAYER_PROP", "NPC_PROP"}
Forwarded == Replied \cup {"CREATE_CHARACTER", "DELETE_CHARACTER"}

(* UNREQUESTED: a CHARACTERS_LIST whose REQUEST is not 1.  PONG: a PING    *)
(* whose STATE is not 0.                                                   *)
Handled == {"UNREQUESTED", "PING", "PONG", "PLAYER_POS", "CHAT_EVENT", "AUTH"}

ASSUME MachinesAssumption ==
    /\ Sender \subseteq Conn
    /\ Kind \subseteq Forwarded \cup Handled
    /\ OwnStamp \subseteq Nat
    /\ MaxRequest \in Nat
    /\ MaxMachine \in Nat
    /\ Eager \in BOOLEAN

(* The n-th event of client c.  stamp is its miData["ID"], 0 for none; no  *)
(* machine has the number 0.  marked: it was a machine that put it in.     *)
Request == [kind : Kind, from : Conn, n : Nat, stamp : Nat, marked : BOOLEAN]
DbEvent == Request \cup [kind : {"WELCOME", "REMOVE_MACHINE"}, conn : Conn]
Machine == [id : Nat, conn : Conn]

VARIABLES wire,         \* events on their way from each client
          mBuffer,      \* what each socket's mBuffer holds: an event or none
          done,         \* receives that completed, their handlers yet to run
          parent,       \* mParent of each socket: a machine's number, 0: the engine
          received,     \* mReceivedEvents
          dbQueue,      \* the database engine's mEventsQueue
          netQueue,     \* the network engine's mEventsQueue
          stage,        \* where the engine thread is
          mMachines,    \* the registered machines, oldest first
          mNextMachineID,
          chat,         \* the chat event being sent, while stage = "chat"
          at,           \* the index of its loop
          gone,         \* has the connection been closed, from either end?
          waitsFor,     \* the client that a send waits for for ever, if any
          sent,         \* how many events each client has sent
          numbers,      \* history: the machines' numbers each connection was given
          delivered,    \* history: what each client was sent, in order
          start,        \* history: the registry when the chat loop began
          tried,        \* history: numbers of the machines it has come to
          failed        \* history: numbers of those removed meanwhile

engineQueues == <<received, dbQueue, netQueue>>
registry == <<mMachines, mNextMachineID>>
chatVars == <<chat, at, start, tried, failed>>
bindVars == <<parent, numbers>>
clientVars == <<wire, mBuffer, done, bindVars, gone, waitsFor, sent>>
vars == <<clientVars, engineQueues, stage, registry, chatVars, delivered>>

FirstMachineID == 1

Init ==
    /\ wire = [c \in Conn |-> <<>>]
    /\ mBuffer = [c \in Conn |-> <<>>]
    /\ done = [c \in Conn |-> 0]
    /\ parent = [c \in Conn |-> 0]
    /\ numbers = [c \in Conn |-> {}]
    /\ received = <<>>
    /\ dbQueue = <<>>
    /\ netQueue = <<>>
    /\ stage = "net"
    /\ mMachines = <<>>
    /\ mNextMachineID = FirstMachineID
    /\ chat = <<>>
    /\ at = 1
    /\ gone = [c \in Conn |-> FALSE]
    /\ waitsFor = {}
    /\ sent = [c \in Conn |-> 0]
    /\ delivered = [c \in Conn |-> <<>>]
    /\ start = <<>>
    /\ tried = {}
    /\ failed = {}

-------------------------------------------------------------------------------
(* Clients and the network thread.                                         *)

ClientSends(c) ==
    /\ c \in Sender
    /\ ~ gone[c]
    /\ Eager \/ parent[c] # 0
    /\ sent[c] < MaxRequest
    /\ sent' = [sent EXCEPT ![c] = @ + 1]
    /\ \E k \in Kind, id \in OwnStamp :
          wire' = [wire EXCEPT ![c] = Append(@,
                      [kind |-> k, from |-> c, n |-> sent[c] + 1, stamp |-> id,
                       marked |-> FALSE])]
    /\ UNCHANGED <<mBuffer, done, bindVars, gone, waitsFor, engineQueues, stage,
                   registry, chatVars, delivered>>

ClientCloses(c) ==
    /\ ~ gone[c]
    /\ c \notin waitsFor
    /\ gone' = [gone EXCEPT ![c] = TRUE]
    /\ UNCHANGED <<wire, mBuffer, done, bindVars, waitsFor, sent, engineQueues,
                   stage, registry, chatVars, delivered>>

(* Mutant: the event keeps what the client put in it. *)
NotStamped(ev, c) == ev

(* NetEngine::PushReceivedEvent leaves the client's ID, if it put one in;  *)
(* NetMachine's replaces it.                                               *)
StampedBy(ev, c) ==
    IF parent[c] = 0 THEN ev ELSE [ev EXCEPT !.stamp = parent[c], !.marked = TRUE]

(* SyncReceive armed the socket once, NetMachine's constructor arms it     *)
(* again, and every handler rearms: a socket has a receive outstanding for *)
(* itself and one for each machine bound to it.                            *)
Armed(c) == 1 + Cardinality(numbers[c])

(* A receive completes with the next events on the wire.  They take the    *)
(* place of what the other receive brought, both using mBuffer.  Only the  *)
(* first will be looked at, and not even that one if a part of it only was *)
(* received: then mBuffer holds nothing that can be parsed.                *)
Receive(c) ==
    /\ wire[c] # <<>>
    /\ done[c] < Armed(c)
    /\ done' = [done EXCEPT ![c] = @ + 1]
    /\ \E first \in {<<Head(wire[c])>>, <<>>} : mBuffer' = [mBuffer EXCEPT ![c] = first]
    /\ \E k \in 1 .. Len(wire[c]) :
          wire' = [wire EXCEPT ![c] = SubSeq(@, k + 1, Len(@))]
    /\ UNCHANGED <<bindVars, gone, waitsFor, sent, engineQueues, stage, registry,
                   chatVars, delivered>>

(* Mutant: the handler runs again for a receive it has handled. *)
HandledAgain(n) == n

OneHandled(n) == n - 1

(* The handler of a receive.  The socket's parent stamps the event and     *)
(* queues it: a machine, registered or not, with its number, the engine    *)
(* with nothing.  An exception while parsing leaves it at rearming, as     *)
(* when the handler's own byte count cuts short what another receive has   *)
(* since brought.  (What mBuffer holds when no handler is to run is of no  *)
(* consequence, and is forgotten.)                                         *)
AsyncRead(c) ==
    /\ done[c] > 0
    /\ done' = [done EXCEPT ![c] = OneHandled(@)]
    /\ \/ (mBuffer[c] = <<>> \/ done[c] > 1) /\ UNCHANGED received
       \/ mBuffer[c] # <<>> /\ received' = Append(received, StampedBy(mBuffer[c][1], c))
    /\ mBuffer' = [mBuffer EXCEPT ![c] = IF done'[c] = 0 THEN <<>> ELSE @]
    /\ UNCHANGED <<wire, bindVars, gone, waitsFor, sent, dbQueue, netQueue, stage,
                   registry, chatVars, delivered>>

-------------------------------------------------------------------------------
(* Registry.                                                               *)

(* GetMachineFromID: the place of the machine with that number, if any. *)
Registered(id) == {i \in 1 .. Len(mMachines) : mMachines[i].id = id}

(* Mutant: the last machine is removed in place of the i-th. *)
WithoutLast(i) == SubSeq(mMachines, 1, Len(mMachines) - 1)

Without(i) ==
    SubSeq(mMachines, 1, i - 1) \o SubSeq(mMachines, i + 1, Len(mMachines))

(* NetMachine::TCPSend to the i-th machine: sent, or RemoveMachine.        *)
(* Writing to a client that has closed fails or not, depending on whether  *)
(* the close has been noticed.  (That it may not return is SendWaits.)     *)
TCPSendDone(i, ev) ==
    /\ delivered' = IF gone[mMachines[i].conn] THEN delivered
                    ELSE [delivered EXCEPT ![mMachines[i].conn] = Append(@, ev)]
    /\ UNCHANGED <<mMachines, dbQueue>>

TCPSendFails(i) ==
    /\ gone[mMachines[i].conn]
    /\ mMachines' = Without(i)
    /\ dbQueue' = Append(dbQueue,
                      [kind |-> "REMOVE_MACHINE", conn |-> mMachines[i].conn])
    /\ UNCHANGED delivered

(* Mutant: the number is not used up. *)
SameMachineID == mNextMachineID

(* What GetNextMachineID leaves in mNextMachineID. *)
NextMachineID == mNextMachineID + 1

(* NetEngine::ProcessReceivedEvent *)
Ev == Head(received)

(* ProcessAuth, which the table of received events leads to as well as the *)
(* database's answers (these are Login's; here one may come at any time).  *)
(* In a client's AUTH event the ID is taken for a login's number, which    *)
(* may be anybody's or nobody's: mAuth's entries are never erased.         *)
AuthReceived ==
    /\ stage = "recv"
    /\ received # <<>>
    /\ Ev.kind = "AUTH"
    /\ Ev.stamp # 0
    /\ received' = Tail(received)

ProcessAuth ==
    /\ (stage = "net" /\ UNCHANGED received) \/ AuthReceived
    /\ UNCHANGED <<wire, mBuffer, done, waitsFor, sent, netQueue, stage, chatVars,
                   delivered>>

(* AcceptAuth, up to and including the answer to the client.  A second     *)
(* machine may be bound to a connection that has one.                      *)
AcceptAuth(c) ==
    /\ ProcessAuth
    /\ mNextMachineID < FirstMachineID + MaxMachine
    /\ ~ gone[c]
    /\ parent' = [parent EXCEPT ![c] = mNextMachineID]
    /\ numbers' = [numbers EXCEPT ![c] = @ \cup {mNextMachineID}]
    /\ mMachines' = Append(mMachines, [id |-> mNextMachineID, conn |-> c])
    /\ mNextMachineID' = NextMachineID
    /\ dbQueue' = Append(dbQueue, [kind |-> "WELCOME", conn |-> c])
    /\ UNCHANGED gone

(* RejectAuth closes the connection. *)
RejectAuth(c) ==
    /\ ProcessAuth
    /\ gone' = [gone EXCEPT ![c] = TRUE]
    /\ UNCHANGED <<bindVars, dbQueue, registry>>

(* There is no such login, or the accepted one's connection is no more:    *)
(* NetMachine's constructor throws, or the answer cannot be sent.          *)
AuthIgnored ==
    /\ AuthReceived
    /\ \/ UNCHANGED stage
       \/ (\E c \in Conn : gone[c]) /\ stage' = "dead"
    /\ UNCHANGED <<clientVars, dbQueue, netQueue, registry, chatVars, delivered>>

-------------------------------------------------------------------------------
(* The engine thread's frame: NetEngine::ProcessQueue, then its            *)
(* ProcessReceivedQueue, then DataBaseEngine::Frame, each until it finds   *)
(* its queue empty.                                                        *)
FrameEnds ==
    /\ \/ stage = "net" /\ netQueue = <<>> /\ stage' = "recv"
       \/ stage = "recv" /\ received = <<>> /\ stage' = "db"
       \/ stage = "db" /\ dbQueue = <<>> /\ stage' = "net"
    /\ UNCHANGED <<clientVars, engineQueues, registry, chatVars, delivered>>

(* NetEngine: a reply of the database engine, sent to the machine whose    *)
(* number it carries.                                                      *)
Reply == Head(netQueue)

TakeReply ==
    /\ stage = "net"
    /\ netQueue # <<>>
    /\ netQueue' = Tail(netQueue)
    /\ UNCHANGED <<clientVars, received, stage, mNextMachineID, chatVars>>

ReplySent ==
    /\ TakeReply
    /\ \E i \in Registered(Reply.stamp) :
          TCPSendDone(i, Reply) \/ TCPSendFails(i)

(* Mutant: the reply is dropped without looking for its machine. *)
ReplyDroppedAnyway ==
    /\ TakeReply
    /\ UNCHANGED <<mMachines, dbQueue, delivered>>

ReplyDropped ==
    /\ TakeReply
    /\ Registered(Reply.stamp) = {}
    /\ UNCHANGED <<mMachines, dbQueue, delivered>>

TakeReceived ==
    /\ stage = "recv"
    /\ received # <<>>
    /\ received' = Tail(received)
    /\ UNCHANGED <<clientVars, netQueue, mNextMachineID>>

(* ProcessReceivedCharactersList, PlayerProp, NpcProp, CreateCharacter and *)
(* DeleteCharacter.                                                        *)
ForwardToDataBase ==
    /\ TakeReceived
    /\ Ev.kind \in Forwarded
    /\ dbQueue' = Append(dbQueue, Ev)
    /\ UNCHANGED <<stage, mMachines, chatVars, delivered>>

(* ProcessReceivedPing answers the machine the event came from. *)
PingAnswered ==
    /\ TakeReceived
    /\ Ev.kind = "PING"
    /\ Ev.stamp # 0
    /\ \E i \in Registered(Ev.stamp) :
          TCPSendDone(i, Ev) \/ TCPSendFails(i)
    /\ UNCHANGED <<stage, chatVars>>

(* The early returns of ProcessReceivedCharactersList and                  *)
(* ProcessReceivedPing, which looks for its ID first; a ping for a machine *)
(* already removed; and ProcessReceivedPlayerPos: no machine has a player  *)
(* (nothing calls SetPlayer), so that nobody is moved and nobody told.     *)
NothingToDo ==
    /\ TakeReceived
    /\ \/ Ev.kind = "UNREQUESTED"
       \/ Ev.stamp # 0 /\ Ev.kind = "PING" /\ Registered(Ev.stamp) = {}
       \/ Ev.stamp # 0 /\ Ev.kind \in {"PONG", "PLAYER_POS"}
    /\ UNCHANGED <<stage, dbQueue, mMachines, chatVars, delivered>>

(* The assertions of these handlers and of ProcessAuth: the event carries  *)
(* an ID.                                                                  *)
PingAsserts ==
    /\ TakeReceived
    /\ Ev.kind \in {"PING", "PONG", "PLAYER_POS", "AUTH"}
    /\ Ev.stamp = 0
    /\ stage' = "aborted"
    /\ UNCHANGED <<dbQueue, mMachines, chatVars, delivered>>

ChatBegins ==
    /\ TakeReceived
    /\ Ev.kind = "CHAT_EVENT"
    /\ stage' = "chat"
    /\ chat' = <<Ev>>
    /\ at' = 1
    /\ start' = mMachines
    /\ tried' = {}
    /\ failed' = {}
    /\ UNCHANGED <<dbQueue, mMachines, delivered>>

(* One turn of ProcessReceivedChatEvent's loop.  A removal moves the later *)
(* machines one place down, yet the index goes on.                         *)
ChatTurn ==
    /\ stage = "chat"
    /\ at <= Len(mMachines)
    /\ tried' = tried \cup {mMachines[at].id}
    /\ at' = at + 1
    /\ \/ TCPSendDone(at, chat[1]) /\ failed' = failed
       \/ TCPSendFails(at) /\ failed' = failed \cup {mMachines[at].id}
    /\ UNCHANGED <<clientVars, received, netQueue, stage, mNextMachineID, chat, start>>

ChatEnds ==
    /\ stage = "chat"
    /\ at > Len(mMachines)
    /\ stage' = "recv"
    /\ chat' = <<>> /\ at' = 1
    /\ start' = <<>> /\ tried' = {} /\ failed' = {}
    /\ UNCHANGED <<clientVars, engineQueues, registry, delivered>>

(* DataBaseEngine::ProcessEvent *)
Query == Head(dbQueue)

TakeQuery ==
    /\ stage = "db"
    /\ dbQueue # <<>>
    /\ dbQueue' = Tail(dbQueue)
    /\ UNCHANGED <<clientVars, received, registry, chatVars, delivered>>

(* The handlers that assert an ID or an ACCT_ID: a machine puts in both.   *)
Stamped == Replied \cup {"CREATE_CHARACTER"}

(* Mutant: the last machine to log in gets the reply. *)
ReplyToLast(q) == [q EXCEPT !.stamp = mNextMachineID - 1]

(* The reply carries the number the request carried. *)
ReplyTo(q) == q

(* Mutant: the reply overtakes the earlier ones. *)
QueryRepliedFirst ==
    /\ TakeQuery
    /\ Query.kind \in Replied
    /\ Query.stamp # 0
    /\ netQueue' = <<ReplyTo(Query)>> \o netQueue
    /\ UNCHANGED stage

(* ProcessCharactersList, ProcessPlayerProp, ProcessNpcProp *)
QueryReplied ==
    /\ TakeQuery
    /\ Query.kind \in Replied
    /\ Query.stamp # 0
    /\ netQueue' = Append(netQueue, ReplyTo(Query))
    /\ UNCHANGED stage

(* ProcessCreateCharacter, ProcessDeleteCharacter, ProcessWelcome,         *)
(* ProcessRemoveMachine: the database is changed, nobody is told.          *)
QueryDone ==
    /\ TakeQuery
    /\ \/ Query.kind \in {"DELETE_CHARACTER", "WELCOME", "REMOVE_MACHINE"}
       \/ Query.kind = "CREATE_CHARACTER" /\ Query.stamp # 0
    /\ UNCHANGED <<netQueue, stage>>

QueryAsserts ==
    /\ TakeQuery
    /\ Query.kind \in Stamped
    /\ Query.stamp = 0
    /\ stage' = "aborted"
    /\ UNCHANGED netQueue

(* A call to the database throws: the engine thread ends. *)
QueryThrows ==
    /\ TakeQuery
    /\ stage' = "dead"
    /\ UNCHANGED netQueue

-------------------------------------------------------------------------------
(* What the engine thread does next sends to c, or may: a reply or the     *)
(* answer to a login, a ping's echo, chat.                                 *)
Sends(c) ==
    \/ stage = "net"
    \/ stage = "recv" /\ received # <<>> /\ Ev.kind \in {"PING", "AUTH"}
    \/ stage = "chat" /\ at <= Len(mMachines) /\ mMachines[at].conn = c

(* write_some waits while the client stays and does not read (TcpSocket).  *)
(* A wait that ends is no step here; one that does not ends the engine     *)
(* thread's work.                                                          *)
SendWaits(c) ==
    /\ Sends(c)
    /\ ~ gone[c]
    /\ stage' = "waits"
    /\ waitsFor' = {c}
    /\ UNCHANGED <<wire, mBuffer, done, bindVars, gone, sent, engineQueues, registry,
                   chatVars, delivered>>

ProcessQueue == ReplySent \/ ReplyDropped

ProcessReceivedEvent ==
    \/ ForwardToDataBase \/ PingAnswered \/ NothingToDo \/ PingAsserts
    \/ AuthIgnored \/ ChatBegins \/ ChatTurn \/ ChatEnds

DataBaseFrame ==
    QueryReplied \/ QueryDone \/ QueryAsserts \/ QueryThrows

Engine == FrameEnds \/ ProcessQueue \/ ProcessReceivedEvent \/ DataBaseFrame

Network(c) ==
    \/ ClientSends(c) \/ ClientCloses(c) \/ Receive(c) \/ AsyncRead(c)
    \/ AcceptAuth(c) \/ RejectAuth(c) \/ SendWaits(c)

Next == (\E c \in Conn : Network(c)) \/ Engine

(* The frame loop keeps running until a send waits for ever, and so does   *)
(* the network thread.                                                     *)
Fairness ==
    /\ WF_vars(Engine)
    /\ \A c \in Conn : WF_vars(AsyncRead(c))

Spec == Init /\ [][Next]_vars /\ Fairness

-------------------------------------------------------------------------------
TypeOK ==
    /\ wire \in [Conn -> Seq(Request)]
    /\ mBuffer \in [Conn -> Seq(Request)]
    /\ done \in [Conn -> Nat]
    /\ parent \in [Conn -> Nat]
    /\ numbers \in [Conn -> SUBSET Nat]
    /\ received \in Seq(Request)
    /\ dbQueue \in Seq(DbEvent)
    /\ netQueue \in Seq(Request)
    /\ stage \in {"net", "recv", "chat", "db", "waits", "dead", "aborted"}
    /\ mMachines \in Seq(Machine)
    /\ mNextMachineID \in Nat \ {0}
    /\ chat \in Seq(Request) /\ (stage = "chat" => chat # <<>>)
    /\ at \in Nat \ {0}
    /\ gone \in [Conn -> BOOLEAN]
    /\ waitsFor \subseteq Conn
    /\ sent \in [Conn -> 0 .. MaxRequest]
    /\ delivered \in [Conn -> Seq(Request)]
    /\ start \in Seq(Machine)
    /\ tried \subseteq Nat
    /\ failed \subseteq tried

(* The machines are registered in the order of their numbers, all handed   *)
(* out before the next, each one of those its connection was given, the    *)
(* last of which its socket stamps with: however machines come and go, and *)
(* if a socket is bound twice, a number never means two of them, nor two   *)
(* connections.                                                            *)
RegistryConsistent ==
    /\ \A i \in 1 .. Len(mMachines) :
          /\ mMachines[i].id \in numbers[mMachines[i].conn]
          /\ mMachines[i].id <= parent[mMachines[i].conn]
          /\ parent[mMachines[i].conn] < mNextMachineID
    /\ \A i, j \in 1 .. Len(mMachines) : i < j => mMachines[i].id < mMachines[j].id
    /\ \A c, d \in Conn : c # d => numbers[c] \cap numbers[d] = {}

(* What a client is sent in answer to an event that bears a machine's      *)
(* number answers what it asked itself, though replies are routed by a     *)
(* number copied at the time of asking and looked up after machines have   *)
(* come and gone.  (An event handled before its client is accepted bears   *)
(* the number the client chose, and its reply goes to that machine.)       *)
RepliesToAsker ==
    \A c \in Conn : \A i \in 1 .. Len(delivered[c]) :
        delivered[c][i].marked /\ delivered[c][i].kind # "CHAT_EVENT"
            => delivered[c][i].from = c

(* The database's replies reach a client in the order of its requests,     *)
(* through the three queues and although its receives share a buffer, by   *)
(* which a request may be handled twice in place of the one before it.     *)
RepliesInOrder ==
    \A c \in Conn : \A i, j \in 1 .. Len(delivered[c]) :
        /\ i < j
        /\ delivered[c][i].kind \in Replied
        /\ delivered[c][j].kind \in Replied
        /\ delivered[c][i].from = c
        /\ delivered[c][j].from = c
        => delivered[c][i].n <= delivered[c][j].n

(* A request handled twice takes the place of a lost one: a client never   *)
(* hears more answers to its requests than it has sent.                    *)
Answers(c) ==
    {i \in 1 .. Len(delivered[c]) :
        delivered[c][i].kind # "CHAT_EVENT" /\ delivered[c][i].from = c}
AnswersPaidFor == \A c \in Conn : Cardinality(Answers(c)) <= sent[c]

(* No handler's assertion on the ID or ACCT_ID of an event fails, because  *)
(* a machine stamps every event before it is queued.                       *)
AssertionsHold == stage # "aborted"

(* The chat loop passes over a machine only because the one before it has  *)
(* just been removed; every other machine is tried.                        *)
ChatMissesOnlyAfterRemoval ==
    stage = "chat" /\ at > Len(mMachines) =>
        \A j \in 1 .. Len(start) :
            start[j].id \notin tried => j > 1 /\ start[j - 1].id \in failed

(* A client's request that has been queued is answered, unless its         *)
(* connection is closed, or the engine thread ends or waits for ever for a *)
(* client, this or another, that does not read.                            *)
Queued(c, n) ==
    \E i \in 1 .. Len(received) :
        /\ received[i].from = c /\ received[i].n = n
        /\ received[i].kind \in Replied \cup {"PING"}
Answered(c, n) ==
    \E i \in 1 .. Len(delivered[c]) : delivered[c][i].from = c /\ delivered[c][i].n = n
RequestsAnswered ==
    \A c \in Sender, n \in 1 .. MaxRequest :
        Queued(c, n) ~> (Answered(c, n) \/ gone[c] \/ stage \in {"waits", "dead", "aborted"})
=================================================================================

# A verification model of Sung

Sung is a game server in C++ built on boost::asio, boost::thread and a MongoDB
client. This directory holds TLA+ specifications of its concurrent core, TLC
configurations that check them on small instances, and TLAPS proofs of the
properties that matter most for every instance. Paths below are relative to
the repository's root (`src/`).

## 1. The system

### Threads

| thread | started by | runs |
|---|---|---|
| main | the process | `Game::Run`, then waits in `join_all` |
| Net+DB engine thread | `Game::Run` (`RunEngines`, Game/SGame.cpp:164-187) | `NetEngine::Frame` and `DataBaseEngine::Frame` in turn |
| schedule engine thread | `Game::Run` (`RunEngine`, 142-162) | `ScheduleEngine::Frame` |
| network io thread | `NetEngine::GetConfigData`, from the constructor | `io_service::run`: the accept handlers and `TcpSocket::AsyncRead` |
| one receive thread per connection | `HandleAcceptTcp` | `ServerThreadTCPReceive`: the login, then ends |
| one thread per console | `HandleAcceptTcpCons` | `ServerThreadTcpReceiveCons` |
| schedule io thread | `ScheduleEngine`'s constructor | timer handlers `ScheduledTask::Tick` |
| signal handler | SIGINT | `Game::Stop` |

When the configuration asks for no threads, `Game::Run` calls the three
`Frame`s itself, in one loop.

### Components

For each: its state; its operations; with whom it interacts; what is hard; what
makes it correct.

**Engine event queue** (Engine/SEngine.cpp). State: `mEventsQueue`,
`mQueueMutex`. Operations: `PushEvent`, `ProcessQueue`, `ProcessEvent` (a table
of handlers indexed by the event type), `SendMessageToNetwork`,
`SendMessageToDataBase`. Everyone communicates by pushing to somebody's queue.
Hard: the emptiness test is outside the lock; handlers run outside it, for as
long as a send may take, and throw. Correct: mutual exclusion, no `front()` of an empty
queue, every event handled once and in order, nobody stuck in `PushEvent`.

**Network engine, login** (Engine/SNetEngine.cpp:307-468). State: a static
counter `id`, the map `mAuth` from login numbers to sockets, the sockets,
`mMachines`, `mNextMachineID`. Operations: accept, receive the credentials, ask
the database engine, accept or refuse. Hard: one thread per connection uses
`id` and `mAuth` without a lock while the engine thread reads `mAuth`; the
client may leave at any time, or stay and not read; the constructor of
`NetMachine` throws for a client that left; the table of received events has a row
for AUTH (line 759), so that a client or a console can answer a login itself.
Correct: an answer reaches the connection that asked, is the
right one, and comes; accounts are shown online only for machines that exist.

**Network engine, registered machines** (Engine/SNetEngine.cpp,
Engine/SNetMachine.cpp). State: `mMachines` (a vector), `mReceivedEvents`, each
machine's account, player and number. Operations: stamp and queue what a client
sends; answer it, forward it to the database engine, or broadcast it; send;
remove a machine a send to which failed; bind a socket to another machine. Hard: requests carry a number through
three queues while machines come and go; loops by index over a vector that
shrinks under them; a socket that is armed before it has a machine. Correct:
numbers are unique, replies reach who asked, in order, every queued request is
answered, broadcasts reach everybody.

**Database engine** (Engine/SDataBaseEngine.cpp). State: its queue and the
`DataBase` object. Operations: one handler per event kind, each asserting the
fields it needs, calling the database, and replying through the network
engine's queue. Hard: a failing assertion ends the process; an exception from
the database ends the thread that runs both engines.

**TCP socket** (Engine/STcpSocket.cpp). State: the asio socket, `mBuffer`,
`mParent`. Operations: `SendEvent`, `SyncReceive`, `AsyncRead`, `SetBind`,
`Connect`. Hard: `SyncReceive` and the constructor of `NetMachine` both arm a receive on
one buffer; `write_some` may write a part, or wait for a client that does not
read; only the first event of what a receive brought is parsed. Correct: what is
handed on was sent, whole, in order and once; the socket never stops listening.

**Mongo database** (DataBase/SDataBaseMongo.cpp). State: the account, character
and property documents. Operations: verify a password, change an account's or a
player's state, create and delete characters, look up. Hard: an update without
`$set` replaces the document; `next()` of an empty cursor throws; the connection
breaks, which the driver notices late. Correct: nobody's document changes but for
his own doing.

**Network consoles** (Engine/SNetConsole.cpp, Engine/SNetEngine.cpp:280-344).
State: `mConsoles`, `mNextConsoleID`. Operations: accept, receive, disconnect.
Hard: one unprotected thread per console; removal travels as an event that has
no handler; the constructor throws for a console that has left.

**Game life cycle** (Game/SGame.cpp). State: the singleton, the engines,
`mIsStillRunning` under `mStillRunningMutex`. Operations: construct, run, stop,
destroy. Hard: a lock in a signal handler; an exception ends one thread and
leaves the others; a port that cannot be bound leaves a constructed engine half
initialised; destruction while accounts are online, clients send, logins are under
way and the io threads run.

**Schedule engine and tasks** (Engine/SScheduleEngine.cpp,
Engine/SScheduledTask.cpp). State: the tasks, a timer each. Operations: start,
tick, refresh, exit. Hard: a tick on the io thread against `Exit` on another.

**Configuration file parser** (Engine/SConfigFileParser.cpp). A pure algorithm
over the lines of a file. **explode** (Game/SGame.cpp:197-227), likewise.

**Events** (Engine/SEngineEvent.h): records of maps, serialised by boost.
**Game objects** (Game/SCharacter.cpp, SPlayer.cpp, SNPC.cpp, SItem.cpp):
attributes with getters and setters. **Log** (Log/): output. These keep no
state that a property could be about.

`ThirdPartiesLibs/` is vendored code (log4cpp, the Mongo driver).

## 2. The modules

| module | models | lines it stands for |
|---|---|---|
| `Mailbox` | what an engine promises about its events (abstract) | Engine/SEngine.cpp |
| `EngineQueue` | `PushEvent` and `ProcessQueue`, statement by statement | Engine/SEngine.cpp:20-37, 80-105 |
| `EngineQueueProofs` | theorems about `EngineQueue`, and that it implements `Mailbox` | |
| `Login` | from `accept` to `AcceptAuth`, `RejectAuth` and `RemoveMachine` | Engine/SNetEngine.cpp:198-224, 307-499, 765-787; the AUTH, WELCOME and REMOVE_MACHINE handlers of the database engine |
| `Machines` | what registered machines send and are sent | Engine/SNetEngine.cpp:128-196, 534-763; Engine/SNetMachine.cpp; the other handlers of the database engine |
| `MachinesProofs` | theorems about `Machines` | |
| `LoginProofs` | theorems about `Login` | |
| `Channel` | what the receiving side of a socket promises (abstract) | Engine/STcpSocket.cpp |
| `TcpSocket` | one client's socket, both ways, piece by piece | Engine/STcpSocket.cpp; the constructor of `NetMachine` |
| `TcpSocketProofs` | theorems about `TcpSocket`, and that it implements `Channel` | |
| `DataBaseMongo`, `MCDataBaseMongo` | the documents of accounts and characters, and the connection to them | DataBase/SDataBaseMongo.cpp:13-150; the handlers of the database engine that change them; the driver's calls, mongo/client/dbclient.cpp:744-1150 |
| `DataBaseMongoProofs` | theorems about `DataBaseMongo` | |
| `GameRun` | `Run`, with and without threads, and `Stop` from the signal handler | Game/SGame.cpp:90-195, 243-246 |
| `Consoles` | the consoles' threads and their registry | Engine/SNetEngine.cpp:280-305, 333-344, 501-504; Engine/SNetConsole.cpp |
| `Shutdown` | a game from construction to destruction, with `Consoles` and the io thread | Game/SGame.cpp:40-88; Engine/SNetEngine.cpp:52-109, 280-397, 765-787 |
| `ShutdownProofs` | theorems about `Shutdown` and `Consoles` | |
| `ScheduledTasks`, `MCScheduledTasks` | the schedule engine's tasks on two threads | Engine/SScheduledTask.cpp; Engine/SScheduleEngine.cpp |
| `ConfigFile` | the parser of configuration files | Engine/SConfigFileParser.cpp:60-128 |
| `GameProofs` | theorems about `GameRun`, `ScheduledTasks` and `ConfigFile` | |
| `DataLemmas` | facts about sequences, numbers and finite sets that the proofs use | |

`PROJECT.json` names, for every definition, the source lines it translates.

### EngineQueue

One action per statement that touches shared state: `PushLock`, `PushStore`,
`PushUnlock` for a pushing thread; `TestNotEmpty` (the unlocked
`while (!mEventsQueue.empty())`), `TakeLock`, `CopyFront`, `Pop`, `TakeUnlock`
and `HandlerReturns` or `HandlerThrows` for the engine's thread, which may push
to its own engine from inside a handler. (No handler of the present code does; the
lock is free then, and nothing keeps one from it.) An exception leaves the loop for good
(`loop = "dead"`), because only `Game::RunEngines` catches it. An event is a
pair of the thread that pushed it and the number of that push. `accepted` and
`handled` are history variables.

Under the refinement mapping the abstract inbox is the event that was popped
and is being handled, followed by `mEventsQueue`; it shrinks when the handler
returns, not at `pop()`.

`Login` and `Machines` rely on this: their engine queues are sequences, a push
is an `Append`, and handling the head is one step.

### Login

A connection's receive thread goes through `receive`, `start` (it has a
MSG_NICK), `write`, `key`, `link`, `fill`, `push`, `done`; each step is one
access to `id` or `mAuth`. `mAuth.insert` is two steps, the search
(`InsertAuth`) and the linking of the new node (`LinkAuth`).

These accesses are data races in the code. What a race may do is a
nondeterministic choice: an increment is lost, two threads use one number, an
insert overwrites or hides another, a lookup misses an entry being linked. A race
that corrupts the tree so that the program crashes is not modelled; nothing could
be said of it. The history `raced` says whether two such sections have overlapped
by now. Until then the threads behave as if one lock covered them, and the
properties that depend on it (`RightAnswers`, `LoginAnswered`) say so; the others
hold whatever overlaps.

`ProcessAuth` has two callers. `netQueue` brings it the database's answers;
`received` brings it AUTH events that clients and consoles send, through the last
row of `ProcessReceivedEvent`'s table. A socket is armed before its login is
decided, so that a client need not be accepted for that. Of such an event `received`
keeps what a machine stamped it with, if one did: its number and its account take
the place of what the sender put there. Otherwise `Said` lets the event name any
login and any account. It may also lack a field, which fails an assertion
(`AuthAsserts`). The history `claims` keeps which connections such events were
about, and which accounts they named on the sender's own word; `RightAnswers` is
about the other connections, `AccountsVerified` names this way beside the password.
A socket may so be accepted more than once: `mAuth`'s entries are never erased.

A client may close at any time. A write to a socket whose peer has closed may
succeed or fail, until the close is noticed; on a socket the server has closed
it fails. A write to a client that stays and does not read may never return
(`WaitsForEver`): the engine thread is in `stage = "waits"` from then on, and
`waitsFor` is the client, which does not leave, or the write would return. A
`NetMachine` constructed for a closed socket may throw (`remote_endpoint()`), which
ends the engine thread.

### Machines

The life after acceptance. `wire[c]` is what client `c` has sent. `SyncReceive`
and the constructor of `NetMachine` both arm the socket, so that two receives are
outstanding on a machine's socket, and one more for each further machine bound to
it (`Armed`); all read into one `mBuffer`.
`Receive` completes one of them: it overwrites the buffer and counts in `done`.
`AsyncRead` is its handler, on the single io thread: it parses what the buffer
holds by then, keeps the first event and drops the rest, and arms the socket
again. So an event may be handled twice, in place of the one it overwrote
(`HandledAgain`). When two receives of different lengths completed, the handler
may also cut short what the other brought; such archives, like those of a half
overwritten buffer, are taken not to parse, and nothing is handled. (That is how
it is for events of different kinds; `TcpSocket` shows what may come of two that
fit together.) `StampedBy`
is `PushReceivedEvent`, which writes the machine's number into the event when the
socket's parent is a machine and nothing when it is still the engine: then the event
keeps the ID its client put in, if any (the constant `OwnStamp`). `marked` tells the
two apart. `numbers[c]` are the numbers of all machines ever bound to a socket,
`parent[c]` is that of the last. The engine thread runs the stages `net` (replies of the database
engine), `recv` (what clients sent), `db` (the database engine), each until its
queue is empty; `chat` is the broadcast loop of `ProcessReceivedChatEvent`, one
step per turn, in which a failed send removes a machine from the vector the loop
is indexing. `aborted` is a failed assertion, `dead` an exception, `waits` a send
that never returns (`SendWaits`). The kinds `UNREQUESTED` and `PONG` are a
CHARACTERS_LIST whose REQUEST is not 1 and a PING whose STATE is not 0, which their
handlers return from at once.

The constant `Eager` says whether a client may send before it hears that it is
accepted. The code allows it, because `SyncReceive` arms the socket
(Engine/STcpSocket.cpp:199) before the login is decided.

`AcceptAuth` and `RejectAuth` may come at any time, on the database's answer or on
an AUTH event that was received (whose ID is taken for a login's number, any or
none), and for a connection that has a machine already. Those of the database's
answers that find the client gone, the effect of WELCOME and REMOVE_MACHINE on the
account, and who is entitled to be accepted are `Login`'s; `AuthIgnored` stands for
a received event that finds no login or no client.

### DataBaseMongo

A document is a function from field names to values, so that "the field is not
there" is a state: `IntField` then gives `NoField`. `update()` is called without
`$set` and replaces the document it matches (`Replaced`); a query without a match
has no `next()`, and the exception ends the engine thread (`NextThrows`). An
account's name is its id. The network engine is reduced to what it may send:
AUTH at any time, WELCOME after an accepted one, REMOVE_MACHINE for a machine that
exists, requests about characters in between, in the order of the queue. A
DEL_PLAYER names a player; the empty name is that of every machine, none having a
player, and the number such a machine answers for its player is 1 (`PlayerID`).

`link` is the driver's connection, made without `autoReconnect`. It may break at
any time, which nobody notices (`broken`) until something is written or an answer
is awaited; then it has `failed`, and `_checkConnection` throws from then on. An
update that does not arrive is lost in silence or throws (`Unsaid`); a query is
answered by nothing, and the handlers call `next()` of the null cursor
(`NoCursor`), or it throws.

`Login`'s variable `online` is the state last passed to `ChangeAccountState`, the
promise of the interface DataBase/SDataBase.h; what Mongo makes of it is this
module's subject.

### GameRun

`Run` starts one thread for each of `RunEngine` and `RunEngines`, or loops itself
and looks at `mIsStillRunning` under its mutex; `threaded` is chosen at the start
and never changes. A signal suspends the thread that handles it until the handler
returns; it is masked for that thread meanwhile and may reach another one. Logging
in the handler is left out. An exception ends the loop of one thread.

`GameProofs` extends this module, `ScheduledTasks` and `ConfigFile` at once, so
that the three have different names for their parts: `GameInit`, `GameNext` and
`GameSpec` here, `ParserInit`, `ParserNext` and `ParserSpec` in `ConfigFile`.

### Shutdown

`mMachines` is its memory and its size, because the destructor of the network
engine iterates over it while `RemoveMachine` erases from it: an iterator past
the end sees what `erase` left behind. When something is undefined or ends the
process the model stops and `fault` names the cause. `Init` is the end of the
network engine's constructor. A port that cannot be bound makes it throw and catch,
and the game goes on without an io thread (`io = "none"`) and, if it was the first of
the two, without `mTcpSocket` (`sockets`), which nothing initialises and the
destructor uses.

Beside the destructor there go on: the io thread, which accepts connections and runs
the handlers of sockets whose parent was deleted, or never constructed because
`NetMachine`'s constructor threw (`threw`); the logins' threads, counted in `login`
until they have the name and push AUTH through engines that may not be attached yet
or deleted by now, and in `asked` afterwards; and the consoles' threads. While the
game runs a handler may fail an assertion or use a null cursor for anybody whose
socket is armed (`HandlerFails`), two threads may meet in `mAuth` (`LoginsMeet`), and
the handler of an accept that failed throws on a thread where nobody catches it: the
error code bound to it is a default one, never the accept's. The schedule engine's
`io_service` is deleted under its thread, which may have returned or not
(`DeleteEngine`). A send of the destructor may never return (`DisconnectWaits`).
That `close()` or a log entry throws, which the destructors catch, is left out.

The consoles' threads come
from `Consoles`, which `Shutdown` extends: each takes a number, constructs its
console, appends it to the vector and welcomes it. Reading and writing
`mNextConsoleID` are two steps, so are the two halves of `push_back`; `overlapped`
says whether two threads were in the same of them at once. That a console has left
matters to the constructor only, and is noticed there.

### TcpSocket

An event is two pieces of the byte stream, a head and a tail. That is the least
with which a receive may bring a part of an event, one and a half, or several, and
a write may write a part. `Brings(n)` puts the next `n` pieces at the beginning of
`mBuffer` and leaves what lay behind them, so that a head may be followed by an
older event's tail. `AsyncRead` runs in two steps, because another thread can
complete the second receive in between: what is copied to `strData` may be half
of one and half of another. The one place where that can happen is the
constructor of `NetMachine`, which calls `async_receive` on the engine's thread.
`done` are the completed receives whose handlers have not returned. A cut event
does not parse; one that is made of two events may or may not.

A write takes as many pieces as there is room for, fails when the socket is closed
or the client has gone, and waits otherwise.

### ScheduledTasks

`Exit` and `Tick` share `mIsRunning` and the timer without a lock. Each access is
a step; that two of them overlap in time is left out. The handler of a cancelled
wait runs `Tick` too, because the error code is not bound to it. A handler that
meets a deleted task, or a run that outlives its task, is undefined; so is deleting
the io_service while its thread is inside. The repository defines no task, so
`Process` is a step that returns or throws.

### ConfigFile

A line is what the parser looks for in it: a key, the sentry, text, a comment,
nothing. A value is the sequence of its lines' numbers. `Getline` is
`std::getline` with its rule that a stream already at its end leaves the string as
it was. `parsing` is the loop the parser is in.

`ReadAsMeant` says for every key which lines its value holds: those of its last
entry, from the line with the key up to the next key, sentry or blank line, without
the comments, in the order of the file and each once (`Lists`). If the last line of
a file without a final newline continues a value, that value holds this line twice,
at its end, and nothing else is different (`ListsLastTwice`).

### How the text was read where it leaves a choice

* `NetMachine::PushReceivedEvent` (Engine/SNetMachine.cpp:165-178) writes
  to its const parameter and pushes the copy `e`; it is read as writing to `e`, as
  `NetConsole::PushReceivedEvent` does. Some accessors differ in case between
  declaration and use (`GetAcctID`, `GetAcctId`); they are read as one.
* Clients and consoles send well-formed events of the kinds the network engine
  handles, with the fields their handlers assert; ID and ACCT_ID may be missing, or
  be any. In `Login` an AUTH event may lack any field. Chat lines that start with a
  dot are left out: the function that would process them is nowhere defined.
* `empty()` of a queue, which is called without its mutex, sees whether the queue was
  empty at some moment; the flags `mIsStillRunning` and `mIsRunning` likewise.
* `mPlayer` of a machine is always null: nothing calls `SetPlayer`. PLAYER_POS
  therefore does nothing, and a DEL_PLAYER finds a machine by the empty name only.
* A socket may be bound to a second machine, by a login number that two threads
  share or by an AUTH event of a client. `Login` and `Machines` have that;
  `TcpSocket`, which looks at one receive and then at two, leaves it out.

## 3. The runs

| run | instance | shows |
|---|---|---|
| `engine_queue` | 2 pushing threads and the engine's own handlers, 2 pushes each | `QueueProtected`, `NothingLostOrReordered`, `ImplementsMailbox`, `PushReturns` |
| `login` | 2 connections, an account, an AUTH event that a client or a console sends | `RightAnswers`, `AccountsVerified`, `MachinesInOrder`, `OnlineMeansPresent`, `LoginAnswered` |
| `machines_requests` | a client that may send early, with an ID of its own or none, 3 requests, one kind per engine; a client that listens; 3 machines | `RegistryConsistent`, `RepliesToAsker`, `RepliesInOrder`, `AnswersPaidFor` |
| `machines_all_kinds` | 2 clients, each of which sends an event of any kind; 3 machines | `AssertionsHold`, `ChatMissesOnlyAfterRemoval`, `RequestsAnswered` |
| `machines_eager_asserts` | 2 clients that may send early | `AssertionsHold` is violated (finding) |
| `tcp_socket` | 3 events each way, a buffer of one event and a half, a connection that holds as much | `SentInOrder`, `ImplementsChannel`, `ListensOn`, `HeldUpOnlyByClient` |
| `mongo` | 2 accounts, 2 old characters, 3 logins, 2 requests, a connection that may break | `OthersIntact`, `NoLoginAfterWelcome`, `DeletesOnlyTheNamed` |
| `mongo_online` | the same without requests | `WelcomedAreConnected` is violated (finding) |
| `game` | with threads and without, 3 signals | `MutexHeld`, `ReturnHasCause`, `StopEndsRun` |
| `shutdown` | up to 3 machines, 2 consoles, 2 logins, ports bound or not | `ClosedHalfway`, `RemovalsReported`, `ConsolesKept`, `RunningIsDefined`, `QuietDestruction`, `EventsReachLivingEngine`, `DestructionEnds` |
| `scheduled_tasks` | 3 tasks of periods 1, 2 and 1 seconds (1, 2.9 and 1.5 asked for), 2 with a last run, 4 seconds | `RunsKeepToTheGrid`, `SuccessMeansLastRuns`, `DueTasksRun` |
| `config_file` | every file of up to 4 lines with 2 keys | `ReadAsMeant`, `ParserEnds` |

Each module has its type invariant; the runs of `ScheduledTasks` and `ConfigFile`
check theirs as well, and it is proved for all modules with a proof module.

**Bounds.** Two pushing threads and the engine's make all orders of three
threads at one mutex; two pushes each let a thread return with a second event
while its first is queued, in flight or handled. Two connections are the fewest
that share `id` and `mAuth`; every race in the receive threads is between two of
them. With one account a second login to it is as frequent as can be, and a
password or none for it separates a right answer from a wrong one; that a
machine's account is its own client's, not another's, is proved for any number.
One AUTH event of a client or a console is enough to accept either login a
second time, or in the other's place. Of three requests the middle one can be
dropped, repeated or overtaken by either neighbour; the ID that the client of
`machines_requests` puts in itself is the first machine's number, which may be
the listening client's. Three machines are the fewest for which the broadcast
loop removes one, passes over the next and has one left; on two connections, one
of them is then bound twice. In `mongo` two accounts and three logins give one
account two machines while the other is untouched or used once; of the two old characters
one has the number 1. Three events are the fewest of which the middle one can be
lost, overwritten or mixed with either neighbour; a buffer of an event and a
half brings a whole one, a cut one, and the start of a second. Three signals put
a handler on each thread, or a second one behind a stop. Registries of 0 to 3
machines contain every case of the destructor's iterator: both parities, and
with earlier removals every kind of memory beyond the end; `ClosedHalfway` is
proved for any number. Two consoles are the fewest whose threads meet, and so
are two logins. Of three tasks the first and the last have a last run that may
throw, with tasks still to be ended or none; two of equal period compete for the
io thread. Four lines hold a
key, a continuation, what ends it, and one more line.
For the safety properties that section 4 lists the proofs remove the bounds.

Symmetry is not used: the liveness properties are checked in the same runs.

**Deadlock** is not checked in these runs: a bounded number of clients, pushes or
requests leaves the system with nothing to do, and an exception or an assertion
stops the engine thread. The same holds of a game that has returned, a destroyed
one and a parsed file.

**Fairness.** Weak fairness of the steps of a thread that is inside a
function (`PushEvent`, a receive thread that has its credentials, the network
thread with data to read) and of the frame loop, which calls both engines as long
as the game runs. None of this is assumed of a write to a client that stays and does
not read, which TCP's flow control allows to last for ever: in `Login`, `Machines`
and `Shutdown` that is an outcome of every send, a thread it has happened to does
nothing any more, and `LoginAnswered`, `RequestsAnswered` and `DestructionEnds` except
it. A write that returns late is no step of its own. Clients are obliged to nothing, nor is anybody obliged to push.
Weak fairness suffices for the mutex although a boost::mutex promises no order:
pushes are bounded, so that the lock is eventually free for as long as it is
awaited. In `GameRun` every thread and handler goes on, frames come to an end, and
a lock that stays free is taken; so `StopEndsRun` is about threads that no send holds
up for ever. In `TcpSocket` the
io thread runs whatever handler has completed, and a write that can be done is
done. In `Shutdown` the destroying thread and in `ConfigFile` the one thread goes
on, in `ScheduledTasks` the constructor and the io thread do, and `Process` returns
or throws. Signals, clients, exceptions and the game's destruction are nobody's
obligation.

## 4. What is proved

`tlapm` checks every theorem from the modules' definitions and the named
assumptions on the constants; there are no other assumptions.

**EngineQueueProofs** assumes `ThreadAssumption` (the worker is not a pusher, the
absent owner is no thread, the bound is a natural number). Its inductive
invariant joins the types, the ownership of the mutex (who is at a statement that
touches the queue holds it, and the worker is in at most one such section), the
fact that the queue is nonempty from the test to the `pop()`, and the equation of
the histories. The ownership part is needed for the nonemptiness: pushes only
lengthen the queue, and only the worker shortens it.

* `TypeCorrect`, `QueueSafe`, `HistoryCorrect`: the safety properties of the run.
* `Refinement`: every behaviour of `EngineQueue` is one of `Mailbox`, fairness
  apart.

**MachinesProofs** assumes `MachinesAssumption` (the kinds are known ones, the
bounds are natural numbers). The safety properties are not inductive: that a reply
reaches the asker depends on the numbers in all the queues. The invariant `IInv`
says that a socket's parent is 0 or a number below the next one, the greatest of
those it was given, and that no two sockets were given the same (`NumbersDistinct`),
that the registry is ordered and each machine has one of its socket's numbers
(`RegistryProper`), and, of every queue, which set its elements, and those of
`mBuffer`, belong to (`EventsTraceable`): a stamp that a machine wrote is one of the
numbers of the sender's socket. These sets depend on `numbers` alone, to which a
socket that is bound, or bound again, adds a fresh one, so they only grow
(`AcceptAuthKeeps`), and no other step changes them (`SetsUnchanged`).

* `TypeCorrect`, `RegistryAlwaysConsistent`, `RepliesReachAsker`: the safety
  properties of the same names in the runs.
* `PatientClientsAbortNothing`: `AssertionsHold` when `Eager` is false.
* `RepliesKeepOrder`: `RepliesInOrder`. A request goes through six places, from the
  wire to what its client was sent. The invariant `Lines` says that each place is in
  order and that what is further along is not later than what is behind it; a step
  either drops requests or moves the head of one place to the end of the next
  (`HeadMoves`). The order is not strict: an event in `mBuffer` may be read twice.
* `NoMoreAnswersThanRequests`: `AnswersPaidFor`. The answers given, the requests and
  replies in the queues, the receives completed and the events on the wire never
  add up to more than what was sent (`Budget`): each step that adds one to a place
  takes one from a place before it (`BudgetKept`).
* `ChatPassesOverOnlyAfterRemoval`: `ChatMissesOnlyAfterRemoval`. What is ahead of
  the index is the end of the registry the loop began with, moved down by the
  machines it has removed (`ChatAhead`).

**GameProofs** has three parts that use nothing of each other.

Of `GameRun`, under `GameRunAssumption` (the bound on the signals is a natural
number), the inductive invariant `RunInv` adds to the types and to `MutexHeld` a
statement about causes: whoever saw a cleared flag saw it after it was cleared,
and a thread has ended only because of that or because a frame threw.

* `RunTypeCorrect`, `MutexOwned`, `RunReturnsForACause`: the safety properties of
  the run, with and without threads and for any number of signals.

Of `ScheduledTasks`, under `ScheduledTasksAssumption` (the refresh times and bounds
are natural numbers, the tasks with a last run are tasks), `TasksInv` says where the
constructor or destructor is in the list of tasks, and with it which tasks run,
which are deleted and which had their last run (`Progress`); that the io thread
handles a task whose wait is over (`Handling`); and that a timer which has ticked
`n` times expires at `(n + 2)` periods, or at `(n + 1)` between the tick and its
`Refresh` and before the first one (`Grid`). `RunsKeepToTheGrid` follows from
the grid: a tick counts only when the time has come to the expiry that was waited
for, however late, so that lateness is never added up.

* `TasksTypeCorrect`, `NoDrift`, `SuccessIsEarned`: the safety properties of the
  run, for any number of tasks and any refresh times.

Of `ConfigFile`, under `ConfigFileAssumption` (there is a key, the bound on the
lines is a natural number), `ParserInv` says that the contents are what the lines
up to some line mean (`ReadUpTo`), and which line that is: in the outer loop the
last one behind the stream, or the one before it if a line read ahead is still to
be looked at (`InLine`); in the inner loop the one before the key
(`InValue`), while `value` lists the lines of this entry up to the position of the
stream, or holds the last line twice, once the stream has failed. The state of the
stream says which of the two it is (`Stream`). No induction over the file
is needed: `ReadAsMeant` is stated with sets of lines, and a step of the
parser adds one line to them.

* `ParserTypeCorrect`, `ReadRight`: the safety properties of the run, for files of
  any length and any number of keys.

**LoginProofs** assumes `LoginAssumption` and `NoCredAssumption` (the absent account
is no account, the absent credentials are none). The invariant gives, for every
place a login can be in (a thread, `mAuth`, the database's queue, the answers), the
set its contents are taken from; the sets of credentials that were sent only grow.
That carries `AccountsVerified` through
every race. `RightAnswers` needs more: as long as nothing has overlapped, a number
leads to one connection, each login is in at most one of these places, and a client
in one of them has not been answered (nor has it a machine). `OnlineMeansPresent`
follows from where the last WELCOME and REMOVE_MACHINE of an account stand in the
queue. Received AUTH events enter it by `claims`: what a machine stamped is that
machine's own account, which was verified or named; what none stamped is a claim.

* `TypeCorrect`, `MachinesVerified`, `RegistryOrdered`, `NobodyStaysOnline`,
  `AnsweredRightly`: all the safety properties of the run.

**TcpSocketProofs** assumes `TcpSocketAssumption`, that the sizes are positive and
the bounds natural numbers. Before the machine is constructed, the receive
outstanding and the completed ones are one together, so that `mBuffer` holds
consecutive pieces; afterwards they are two, and the head of `mBuffer` moves on
with each receive while one of the two handlers may see it again.

* `TypeCorrect`, `SendsInOrder`: the safety properties of the run.
* `Refinement`: `ImplementsChannel`. Every step of the socket is one of the
  channel, or none.

**ShutdownProofs** assumes `ConsolesAssumption` and `ShutdownAssumption`, that the
bounds (on machines, consoles and logins) are natural numbers. What the consoles' threads do does not depend on the
rest, so their invariant (no two threads meet, unless `overlapped`) is shown from
their own steps. `RegistryInv` says that the machines being deleted are those once
registered and no longer in the vector, in both as sets and by number. `LoopInv`
says where the iterator is: after `t` rounds it stands at place `t + 1` of a vector
that has lost the `t` machines at the odd places, and has deleted those at the even
ones (`Halfway`), or it has passed the end (`Astray`). `IoInv` says that a game whose
ports were not bound has nobody connected. `FaultInv` says of each
cause what must have come before it.

* `TypeCorrect`, `ConsolesRegistered`, `RunsDefined`, `AllRemovalsReported`,
  `HalfOfTheMachines`, `QuietlyDestroyed`, `DatabaseOutlives`: all the safety and
  action properties of the run.

**DataBaseMongoProofs** assumes `DataBaseMongoAssumption`: ids are positive, an old
character has one of its own, and there are finitely many. What `next()` returns is
the least of a set of numbers and a new `_id` is above the greatest of one; that
these exist is proved from the well-foundedness of the strict subsets of finite
sets, which the library states without an operator parameter. The invariant says
that an account's document is the original until its WELCOME, and afterwards has
lost its fields if the connection is still up; that a REMOVE_MACHINE is queued
behind a WELCOME of its account (`Announced`); and that of the characters only the
old ones have an id, which is the key they are found by.

* `TypeCorrect`, `OthersUntouched`, `NoLaterLogin`, `NamedDeleted`: all the
  properties of the run.

So every safety property and every action property of the passing runs is proved.
Only model-checked are liveness (`PushReturns`, `LoginAnswered`, `RequestsAnswered`,
`ListensOn`, `HeldUpOnlyByClient`, `StopEndsRun`, `DestructionEnds`, `DueTasksRun`,
`ParserEnds`), which is out of the prover's reach, and the fairness part of
`ImplementsMailbox`. The facts of `DataLemmas` are about sequences and finite sets
as such and assume nothing.

## 5. Findings

Two runs show the code against its own text:

1. An event sent before the acceptance reaches the database engine without the
   fields its handler asserts (`machines_eager_asserts`, Engine/STcpSocket.cpp:199).
2. The update that sets an account online replaces the whole account document;
   its name, password and id are gone, and a next login to it throws
   (`mongo_online`, DataBase/SDataBaseMongo.cpp:83).

Other weaknesses show in the exceptions that a property has to make:

* `RightAnswers` and `LoginAnswered` need `~ raced`: two receive threads can use
  one login number, and the answer to one login is then applied to the connection
  of another (Engine/SNetEngine.cpp:388).
* `RightAnswers` and `AccountsVerified` except what AUTH events of clients and
  consoles were about: the network engine takes them for answers of the database
  (Engine/SNetEngine.cpp:759), and a machine can be registered for an account whose
  password nobody sent, or a socket be bound to a second machine.
* `LoginAnswered`, `RequestsAnswered` and `DestructionEnds` except a send that never
  returns: one client that does not read stops both engines, or the destruction, for
  everybody (Engine/STcpSocket.cpp:60).
* A second login to an account leaves the first machine registered: the code
  that would disconnect it is commented out or never called
  (Engine/SNetEngine.cpp:446).
* `OthersIntact` excepts character 1: a machine without a player answers 1 for its
  player's number, and a DEL_PLAYER with the empty name replaces that character's
  document (Engine/SNetMachine.cpp:114).
* `SentInOrder` allows a head without its tail: what `write_some` did not write is
  forgotten (Engine/STcpSocket.cpp:60). `Channel` allows an event twice or with the
  tail of another, because two receives share `mBuffer` (Engine/STcpSocket.cpp:136).
* `RunningIsDefined` lists what may end a running game: consoles whose threads
  overlap or that leave at once (Engine/SNetEngine.cpp:340,
  Engine/SNetConsole.cpp:31), a login's thread in `mAuth` beside another thread
  (Engine/SNetEngine.cpp:391), a connection that is gone when it is accepted, which
  leaves its socket a parent that was never constructed (Engine/SNetMachine.cpp:38),
  a handler that asserts what a client need not send, and an accept that fails
  (Engine/SNetEngine.cpp:290).
* `QuietDestruction` lists what is left when nobody connects, logs in or sends any
  more: an odd number of machines, a port that could not be bound
  (Engine/SNetEngine.cpp:83), and either `io_service`, deleted under its thread
  (Engine/SNetEngine.cpp:91, Engine/SScheduleEngine.cpp:49).
* A login that arrives before the engines are attached is pushed through a null
  pointer (Game/SGame.cpp:61); no property speaks of that phase.
* `ClosedHalfway`: the destructor of the network engine disconnects half of the
  machines and deletes the others, then reports success; with an odd number it
  runs past the end (Engine/SNetEngine.cpp:72).
* `StopEndsRun` excepts `WaitsForItself`: without threads, a signal that arrives
  while `Run` holds `mStillRunningMutex` makes `Stop` wait for ever for the thread
  it interrupted (Game/SGame.cpp:193).
* `ReadAsMeant` excepts a value continued on a last line that has no newline,
  which holds that line twice (Engine/SConfigFileParser.cpp:98).
* In `ScheduledTasks` most ways to destroy the engine while a wait is outstanding
  are undefined (Engine/SScheduledTask.cpp:56, Engine/SScheduleEngine.cpp:44).

## 6. Not modelled

Events' serialisation, game objects, logging and the vendored libraries, for the
reasons in section 1; of the Mongo driver only what the server's calls pass through
on a connection that breaks. `NetEngine::DisconnectAcct`, `RemoveConsole`,
`NetMachine::SetPlayer`, `TcpSocket::Connect`, `Game::explode` and
`Game::IsStillRunning` have no caller. Positions, properties and NPCs in the
database need a player, which no machine ever has. The list of an account's
characters is read in `Machines` only for its routing. Of the configuration file,
the templates that read, add and remove single entries are not modelled. The tables
of handlers (`ProcessEvent`) are constant.

## 7. Plan

What is left, the most useful first:

1. `Machines` on top of `Channel`, in place of its own two receives.
2. Players: PLAYER_POS, `Move`, `SaveMove` and positions in the database, should
   the program ever set one.

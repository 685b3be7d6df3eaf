-------------------------------- MODULE Shutdown --------------------------------
(***************************************************************************)
(* The life of a game's engines (Game::Game and ~Game, Game/SGame.cpp),    *)
(* above all its end.  The network engine listens, and its io_service has  *)
(* a thread, before the engines know one another; unless a port cannot be  *)
(* bound, which its constructor only logs.  When the frames have           *)
(* ended the network engine, the schedule engine and the database engine   *)
(* are deleted in this order, while that thread and those of logins and    *)
(* consoles go on.  NetEngine::~NetEngine (Engine/SNetEngine.cpp) iterates *)
(* over the consoles and the machines, disconnects each and deletes it;    *)
(* but disconnecting a machine erases it from the vector under the         *)
(* iterator.                                                               *)
(*                                                                         *)
(* The vector of machines is its memory and its size.  erase() moves the   *)
(* later elements one place down and leaves the last place as it was, so   *)
(* an iterator at or beyond the end reads what was there, or memory that   *)
(* was never written.  Using that, or anything deleted, is undefined: the  *)
(* model stops there, and fault says why.                                  *)
(***************************************************************************)
EXTENDS Integers, Sequences, FiniteSets, Consoles

CONSTANTS MaxMachine,   \* bound on the machines
          MaxLogin      \* bound on the clients that log in

ASSUME ShutdownAssumption == MaxMachine \in Nat /\ MaxLogin \in Nat

(* The machines, in the order in which they are accepted, and what memory  *)
(* holds that was never written.                                           *)
Machine == 1 .. MaxMachine
Unwritten == 0

VARIABLES phase,        \* "construct", "run", then where the destructors are;
                        \* "waits" in a send that never returns
          engines,      \* the engines still to be deleted, in order
          mem,          \* the memory of mMachines
          size,         \* its size
          it,           \* the place the iterator of the loop points to
          mDeleting,    \* machines whose mDeleting is set
          freed,        \* machines that were deleted
          freedConsoles,\* consoles that were deleted
          io,           \* the io_service's thread: "none", "runs", "stopped" (to
                        \* return soon), "returned"
          sockets,      \* have mTcpSocketCons and mTcpSocket been set?
          login,        \* how many logins' threads have not asked yet
          asked,        \* how many logins were passed to the database engine
          threw,        \* has NetMachine's constructor thrown in AcceptAuth?
          dbQueue,      \* REMOVE_MACHINE events pushed to the database engine
          accepted,     \* how many machines were ever registered
          start,        \* history: those registered when the game was destroyed
          told          \* history: those Disconnect was called for

registry == <<mem, size, mDeleting, dbQueue>>
deleted == <<freed, freedConsoles>>
logins == <<login, asked>>
threads == <<io, sockets, logins, threw>>
histories == <<accepted, start, told>>
vars == <<consoleVars, fault, phase, engines, registry, it, deleted, threads, histories>>

Place == 1 .. MaxMachine
Registered == {mem[i] : i \in 1 .. size}

(* Mutant: the database engine is deleted first. *)
DatabaseFirst == <<"database", "schedule", "net">>

DeletionOrder == <<"net", "schedule", "database">>

Exists(engine) == \E i \in 1 .. Len(engines) : engines[i] = engine

(* NetEngine::NetEngine.  When GetConfigData throws, at the port of the    *)
(* consoles (or before) or at that of the machines, the exception is       *)
(* logged, and the game goes on without a thread that accepts.  mTcpSocket *)
(* is set before the second port is bound.                                 *)
Init ==
    /\ ConsoleInit
    /\ fault = "none"
    /\ phase = "construct"
    /\ engines = DeletionOrder
    /\ mem = [i \in Place |-> Unwritten]
    /\ size = 0
    /\ it = 1
    /\ mDeleting = {}
    /\ freed = {}
    /\ freedConsoles = {}
    /\ io \in {"none", "runs"}
    /\ sockets \in {TRUE, io = "runs"}
    /\ login = 0
    /\ asked = 0
    /\ threw = FALSE
    /\ dbQueue = <<>>
    /\ accepted = 0
    /\ start = {}
    /\ told = {}

Defined == fault = "none"

Faults(cause) ==
    /\ fault' = cause
    /\ UNCHANGED <<consoleVars, phase, engines, registry, it, deleted, threads, histories>>

-------------------------------------------------------------------------------
(* The engines' threads, while the game runs.                              *)

(* The engines are linked together; Run starts their frames. *)
AttachEngines ==
    /\ phase = "construct"
    /\ phase' = "run"
    /\ UNCHANGED <<consoleVars, fault, engines, registry, it, deleted, threads, histories>>

(* A login can be accepted as soon as it is in mAuth: an AUTH event that a *)
(* client or a console sends does not wait for the database's answer.      *)
SomeLogin == login + asked > 0

(* mMachines.push_back(n).  (Its reallocations need no mention: they       *)
(* happen when the whole memory is in use.)                                *)
AcceptAuth ==
    /\ phase = "run"
    /\ ~ threw
    /\ SomeLogin
    /\ accepted < MaxMachine
    /\ mem' = [mem EXCEPT ![size + 1] = accepted + 1]
    /\ size' = size + 1
    /\ accepted' = accepted + 1
    /\ UNCHANGED <<consoleVars, fault, phase, engines, it, mDeleting, deleted, threads,
                   dbQueue, start, told>>

(* Its NetMachine has made itself the parent of the socket when it finds   *)
(* the connection gone.  The exception leaves the engine's loop: its       *)
(* thread ends, and the parent of the socket is no object any more.        *)
AcceptAuthThrows ==
    /\ phase = "run"
    /\ ~ threw
    /\ SomeLogin
    /\ threw' = TRUE
    /\ UNCHANGED <<consoleVars, fault, phase, engines, registry, it, deleted, io, sockets,
                   logins, histories>>

(* Consoles whose socket is armed. *)
Listening == {k \in Console : conPc[k] \in {"pushes", "pushing", "welcomes", "done"}}

(* The handler of what a client or a console sent fails an assertion (no   *)
(* machine has stamped it), or the database engine uses the cursor that a  *)
(* broken link leaves null.                                                *)
HandlerFails ==
    /\ phase = "run"
    /\ ~ threw
    /\ SomeLogin \/ Listening # {}
    /\ Faults("handler")

(* Mutant: the machine's removal is not reported. *)
Unreported(m) == dbQueue

Reported(m) == Append(dbQueue, m)

(* NetEngine::RemoveMachine: nothing for a machine that is being deleted   *)
(* already, or is not in the vector.                                       *)
RemoveMachine(m) ==
    \/ /\ m \in mDeleting \/ m \notin Registered
       /\ UNCHANGED registry
    \/ /\ m \in Registered \ mDeleting
       /\ mDeleting' = mDeleting \cup {m}
       /\ dbQueue' = Reported(m)
       /\ \E i \in 1 .. size :
             /\ mem[i] = m
             /\ mem' = [j \in Place |-> IF i <= j /\ j < size THEN mem[j + 1] ELSE mem[j]]
       /\ size' = size - 1

(* Mutant: the machine is deleted, too. *)
SendFailsAndDeletes(m) ==
    /\ phase = "run"
    /\ ~ threw
    /\ m \in Registered
    /\ RemoveMachine(m)
    /\ freed' = freed \cup {m}
    /\ UNCHANGED <<consoleVars, fault, phase, engines, it, freedConsoles, threads,
                   histories>>

(* A send to a machine fails while the game runs. *)
SendFails(m) ==
    /\ phase = "run"
    /\ ~ threw
    /\ m \in Registered
    /\ RemoveMachine(m)
    /\ UNCHANGED <<consoleVars, fault, phase, engines, it, deleted, threads, histories>>

-------------------------------------------------------------------------------
(* The io_service's thread, from the construction of the network engine    *)
(* until it returns, and the threads it starts.                            *)

(* HandleAcceptTcp, or HandleAcceptTcpCons.  The accept that is waiting    *)
(* uses a socket that the destructor deletes before it stops the thread.   *)
(* The error code bound to the handlers is not that of the accept: after   *)
(* one that failed set_option throws, and nobody catches it here.          *)
IoAccepts ==
    /\ io = "runs"
    /\ \/ /\ phase # "stop"
          /\ \/ /\ login + asked < MaxLogin
                /\ login' = login + 1
                /\ UNCHANGED <<consoleVars, fault>>
             \/ /\ \E k \in Console : HandleAcceptTcpCons(k)
                /\ UNCHANGED login
          /\ UNCHANGED <<phase, engines, registry, it, deleted, io, sockets,
                         asked, threw, histories>>
       \/ Faults("accept")

(* A client sends something whole: the handler of its socket, which nobody *)
(* closes, passes it to the socket's parent, a machine that was deleted or *)
(* never constructed.                                                      *)
IoReadsForMachine ==
    /\ io = "runs"
    /\ freed # {} \/ threw
    /\ Faults("machine's handler")

(* The sockets of deleted consoles were closed: the handlers of their      *)
(* receives run, though they are deleted too.                              *)
IoAbortsForConsole ==
    /\ io = "runs"
    /\ freedConsoles # {}
    /\ Faults("console's handler")

IoReturns ==
    /\ io = "stopped"
    /\ io' = "returned"
    /\ UNCHANGED <<consoleVars, fault, phase, engines, registry, it, deleted, sockets,
                   logins, threw, histories>>

(* ServerThreadTCPReceive has received the name: AUTH is pushed through    *)
(* the network engine to the database engine it is attached to.            *)
LoginAsks ==
    /\ login > 0
    /\ \/ phase = "construct" /\ Faults("not attached")
       \/ ~ Exists("net") /\ Faults("late login")
       \/ /\ phase # "construct" /\ Exists("net")
          /\ login' = login - 1
          /\ asked' = asked + 1
          /\ UNCHANGED <<consoleVars, fault, phase, engines, registry, it, deleted, io,
                         sockets, threw, histories>>

(* Two threads are in mAuth at once: two logins', or one's beside a frame  *)
(* that looks up another, or, for an AUTH event of its client, the same.   *)
LoginsMeet ==
    /\ login > 1 \/ (login > 0 /\ phase = "run" /\ ~ threw)
    /\ Exists("net")
    /\ Faults("mAuth")

(* A console's thread goes on, whatever the destructor does: its console   *)
(* may be deleted before it is welcomed, its engine at any time, and while *)
(* the destructor iterates push_back may move the vector elsewhere.        *)
ConsoleThread(k) ==
    \/ /\ Exists("net") /\ k \notin freedConsoles
       /\ ServerThreadTcpReceiveCons(k)
       /\ UNCHANGED <<phase, engines, registry, it, deleted, threads, histories>>
    \/ /\ conPc[k] \notin {"away", "done"}
       /\ ~ Exists("net") \/ k \in freedConsoles \/ (phase = "consoles" /\ conPc[k] = "pushing")
       /\ Faults("late console")

ConsoleClientLeaves(k) ==
    /\ ConsoleLeaves(k)
    /\ UNCHANGED <<phase, engines, registry, it, deleted, threads, histories>>

-------------------------------------------------------------------------------
(* Game::Destroy, when the frames have ended. *)
Destroy ==
    /\ phase = "run"
    /\ phase' = "game"
    /\ start' = Registered
    /\ UNCHANGED <<consoleVars, fault, engines, registry, it, deleted, threads,
                   accepted, told>>

(* ~Game deletes the next engine.  The schedule engine's destructor stops  *)
(* and deletes its io_service, whose thread may have returned, for want of *)
(* work, or not: nobody has waited for it.  Neither it nor the database    *)
(* engine's touches the machines, or the events left in its queue.         *)
DeleteEngine ==
    /\ phase = "game"
    /\ engines # <<>>
    /\ \/ /\ Head(engines) = "net"
          /\ phase' = "consoles"
          /\ UNCHANGED <<consoleVars, fault, engines, registry, it, deleted, threads,
                         histories>>
       \/ /\ Head(engines) # "net"
          /\ engines' = Tail(engines)
          /\ UNCHANGED <<consoleVars, fault, phase, registry, it, deleted, threads,
                         histories>>
       \/ Head(engines) = "schedule" /\ Faults("schedule's io_service")

(* NetConsole::Disconnect sends, and pushes REMOVE_CONSOLE to the network  *)
(* engine's own queue, which nobody handles any more; it leaves mConsoles  *)
(* alone.                                                                  *)
DisconnectConsole ==
    /\ phase = "consoles"
    /\ it <= Len(mConsoles)
    /\ freedConsoles' = freedConsoles \cup {mConsoles[it]}
    /\ it' = it + 1
    /\ UNCHANGED <<consoleVars, fault, phase, engines, registry, freed, threads, histories>>

ConsolesDone ==
    /\ phase = "consoles"
    /\ it > Len(mConsoles)
    /\ phase' = "disconnect"
    /\ it' = 1
    /\ UNCHANGED <<consoleVars, fault, engines, registry, deleted, threads, histories>>

(* Mutant: mMachines.end() is taken before the loop. *)
AtFormerEnd == it = Cardinality(start) + 1

(* it == mMachines.end() *)
AtEnd == it = size + 1

(* What the iterator points to can be used. *)
Usable == it \in Place /\ mem[it] \in Machine \ freed

(* Disconnect(e) of what it points to: TCPSend, failing or not, and        *)
(* RemoveMachine.                                                          *)
Disconnect ==
    /\ phase = "disconnect"
    /\ ~ AtEnd
    /\ Usable
    /\ told' = told \cup {mem[it]}
    /\ RemoveMachine(mem[it])
    /\ phase' = "delete"
    /\ UNCHANGED <<consoleVars, fault, engines, it, deleted, threads, accepted, start>>

(* The TCPSend of a machine or a console that stays and does not read      *)
(* never returns, and with it the destructor.                              *)
DisconnectWaits ==
    /\ \/ phase = "consoles" /\ it <= Len(mConsoles)
       \/ phase = "disconnect" /\ ~ AtEnd /\ Usable
    /\ phase' = "waits"
    /\ UNCHANGED <<consoleVars, fault, engines, registry, it, deleted, threads, histories>>

(* Mutant: the iterator stays, which the erase alone would call for. *)
StayAt == it

Advanced == it + 1

(* delete of what it points to by now, and it++. *)
Delete ==
    /\ phase = "delete"
    /\ Usable
    /\ freed' = freed \cup {mem[it]}
    /\ it' = Advanced
    /\ phase' = "disconnect"
    /\ UNCHANGED <<consoleVars, fault, engines, registry, freedConsoles, threads,
                   histories>>

IteratorFaults ==
    /\ \/ phase = "disconnect" /\ ~ AtEnd
       \/ phase = "delete"
    /\ ~ Usable
    /\ Faults("iterator")

(* The loop ends: the sockets of the next connections are closed and       *)
(* deleted, if the pointers to them are not null.  The constructor does    *)
(* not make them null.                                                     *)
DeleteSockets ==
    /\ phase = "disconnect"
    /\ AtEnd
    /\ \/ /\ sockets
          /\ phase' = "stop"
          /\ UNCHANGED <<consoleVars, fault, engines, registry, it, deleted, threads,
                         histories>>
       \/ ~ sockets /\ Faults("sockets")

StopIO ==
    /\ phase = "stop"
    /\ io' = IF io = "none" THEN io ELSE "stopped"
    /\ phase' = "stopped"
    /\ UNCHANGED <<consoleVars, fault, engines, registry, it, deleted, sockets,
                   logins, threw, histories>>

(* Mutant: the engine is deleted again. *)
NetNotDeleted == engines

NetDeleted == Tail(engines)

(* The acceptors and mIO are deleted, "Connexions successfully closed".    *)
(* Nobody has waited for the thread that runs mIO.                         *)
ConnexionsClosed ==
    /\ phase = "stopped"
    /\ \/ /\ io # "stopped"
          /\ phase' = "game"
          /\ engines' = NetDeleted
          /\ UNCHANGED <<consoleVars, fault, registry, it, deleted, threads, histories>>
       \/ io = "stopped" /\ Faults("io_service")

-------------------------------------------------------------------------------
Destructor ==
    \/ DeleteEngine \/ DisconnectConsole \/ ConsolesDone \/ Disconnect \/ Delete
    \/ DisconnectWaits \/ IteratorFaults \/ DeleteSockets \/ StopIO \/ ConnexionsClosed

Others ==
    \/ AttachEngines \/ AcceptAuth \/ AcceptAuthThrows \/ HandlerFails \/ Destroy
    \/ \E m \in Machine : SendFails(m)
    \/ \E k \in Console : ConsoleThread(k) \/ ConsoleClientLeaves(k)
    \/ IoAccepts \/ IoReadsForMachine \/ IoAbortsForConsole \/ IoReturns
    \/ LoginAsks \/ LoginsMeet

Next == Defined /\ (Destructor \/ Others)

Spec == Init /\ [][Next]_vars /\ WF_vars(Defined /\ Destructor)

-------------------------------------------------------------------------------
Cause ==
    {"console left", "push_back", "late console", "not attached", "late login", "mAuth",
     "handler", "accept", "machine's handler", "console's handler", "iterator", "sockets",
     "io_service", "schedule's io_service"}

TypeOK ==
    /\ ConsoleTypeOK
    /\ fault \in Cause \cup {"none"}
    /\ phase \in {"construct", "run", "game", "consoles", "disconnect", "delete",
                  "stop", "stopped", "waits"}
    /\ engines \in Seq({"net", "schedule", "database"})
    /\ mem \in [Place -> Machine \cup {Unwritten}]
    /\ size \in 0 .. MaxMachine
    /\ it \in Nat \ {0}
    /\ mDeleting \subseteq Machine
    /\ freed \subseteq Machine
    /\ freedConsoles \subseteq Console
    /\ io \in {"none", "runs", "stopped", "returned"}
    /\ sockets \in BOOLEAN
    /\ login \in Nat
    /\ asked \in Nat
    /\ threw \in BOOLEAN
    /\ dbQueue \in Seq(Machine)
    /\ accepted \in 0 .. MaxMachine
    /\ start \subseteq Machine
    /\ told \subseteq Machine

Closed == ~ Exists("net")

(* If the destructor of the network engine comes to its end, half of the   *)
(* machines were told and taken from the vector but never deleted, the     *)
(* others deleted but never told nor taken from it.  So it does not when   *)
(* their number is odd; and only then does its iterator run astray.        *)
ClosedHalfway ==
    /\ Closed =>
        /\ told \cap freed = {}
        /\ told \cup freed = start
        /\ Cardinality(told) = Cardinality(freed)
        /\ freed = Registered
    /\ fault = "iterator" => Cardinality(start) % 2 = 1

(* Every machine that left the vector was reported to the database engine, *)
(* once, whether a send failed, Disconnect was called, or both.            *)
RemovalsReported ==
    /\ {dbQueue[i] : i \in 1 .. Len(dbQueue)} = (1 .. accepted) \ Registered
    /\ Len(dbQueue) = Cardinality((1 .. accepted) \ Registered)

(* An event for the database engine is pushed while that engine exists,    *)
(* during the destruction too.                                             *)
EventsReachLivingEngine ==
    [][dbQueue' # dbQueue => Exists("database")]_vars

(* While the game runs, each way in which it may become undefined, or end  *)
(* by an assertion or an exception, has its precondition: consoles that    *)
(* overlap, or leave at once; a login's thread; a connection that is gone  *)
(* when its login is accepted; somebody whose socket is armed; a failing   *)
(* accept.  So none but the last is open to a game with no login and no    *)
(* console, and none to one whose ports could not be bound.                *)
RunningIsDefined ==
    phase = "run" /\ ~ Defined =>
        /\ io = "runs"
        /\ \/ fault = "push_back" /\ overlapped
           \/ fault = "console left" /\ left # {}
           \/ fault = "mAuth" /\ login > 0
           \/ fault = "machine's handler" /\ threw
           \/ fault = "handler" /\ (SomeLogin \/ Listening # {})
           \/ fault = "accept"

(* With no more consoles, logins and events of clients from the beginning  *)
(* of its destruction, a game with an even number of machines that has     *)
(* bound its ports has but two ways left to end undefined: each of the two *)
(* io_services may be deleted under its thread.                            *)
ByClients == {"accept", "machine's handler", "late login", "mAuth"}
QuietDestruction ==
    \/ Defined \/ phase \in {"construct", "run"}
    \/ \E k \in Console : conPc[k] # "away"
    \/ Cardinality(start) % 2 = 1
    \/ fault \in ByClients
    \/ fault = "sockets" /\ io = "none"
    \/ fault = "io_service" /\ phase = "stopped"
    \/ fault = "schedule's io_service" /\ ~ Exists("net")

(* A game that is destroyed is gone, or its destruction is undefined, or   *)
(* waits for a client that does not read.                                  *)
DestructionEnds ==
    phase = "game" ~> ((phase = "game" /\ engines = <<>>) \/ ~ Defined \/ phase = "waits")
===============================================================================

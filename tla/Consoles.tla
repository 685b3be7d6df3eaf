------------------------------- MODULE Consoles -------------------------------
(***************************************************************************)
(* The network consoles (Engine/SNetConsole.cpp, Engine/SNetEngine.cpp).   *)
(* Each that connects gets a thread, which takes a number, constructs the  *)
(* NetConsole, appends it to mConsoles and welcomes it, without a lock.    *)
(* A console is never taken from mConsoles: REMOVE_CONSOLE, pushed when    *)
(* one cannot be sent to, is handled by nobody.                            *)
(*                                                                         *)
(* This is a component of module Shutdown, which adds what deletes them.   *)
(***************************************************************************)
EXTENDS Naturals, Sequences, FiniteSets

CONSTANT MaxConsole     \* bound on the consoles that connect

ASSUME ConsolesAssumption == MaxConsole \in Nat

(* The consoles, in the order in which they connect. *)
Console == 1 .. MaxConsole

VARIABLES conPc,        \* where each console's thread is
          mNextConsoleID,
          mID,          \* the number each thread has read
          mConsoles,    \* the registered consoles
          seen,         \* mConsoles.size() as each thread's push_back saw it
          left,         \* consoles whose connection is gone
          overlapped,   \* history: were two threads in the same update at once?
          fault         \* "none", or what made the process undefined or end it

consoleVars == <<conPc, mNextConsoleID, mID, mConsoles, seen, left, overlapped>>

ConsoleInit ==
    /\ conPc = [k \in Console |-> "away"]
    /\ mNextConsoleID = 1
    /\ mID = [k \in Console |-> 0]
    /\ mConsoles = <<>>
    /\ seen = [k \in Console |-> 0]
    /\ left = {}
    /\ overlapped = FALSE

-------------------------------------------------------------------------------
ConsoleGoes(k, from, to) ==
    /\ conPc[k] = from
    /\ conPc' = [conPc EXCEPT ![k] = to]

(* Another thread is between reading and writing the same variable. *)
Meets(pc) == \E k \in Console : conPc[k] = pc

HandleAcceptTcpCons(k) ==
    /\ ConsoleGoes(k, "away", "accepted")
    /\ \A j \in 1 .. k - 1 : conPc[j] # "away"
    /\ UNCHANGED <<mNextConsoleID, mID, mConsoles, seen, left, overlapped, fault>>

(* Its connection is gone.  Only the constructor notices, so that it is    *)
(* enough to let a console leave just before it.                           *)
ConsoleLeaves(k) ==
    /\ conPc[k] = "constructs"
    /\ k \notin left
    /\ left' = left \cup {k}
    /\ UNCHANGED <<conPc, mNextConsoleID, mID, mConsoles, seen, overlapped, fault>>

(* GetNextConsoleID *)
ReadsConsoleID(k) ==
    /\ ConsoleGoes(k, "accepted", "numbers")
    /\ mID' = [mID EXCEPT ![k] = mNextConsoleID]
    /\ overlapped' = (overlapped \/ Meets("numbers"))
    /\ UNCHANGED <<mNextConsoleID, mConsoles, seen, left, fault>>

(* Mutant: the number is not used up. *)
SameConsoleID(id) == id

NextConsoleID(id) == id + 1

WritesConsoleID(k) ==
    /\ ConsoleGoes(k, "numbers", "constructs")
    /\ mNextConsoleID' = NextConsoleID(mID[k])
    /\ UNCHANGED <<mID, mConsoles, seen, left, overlapped, fault>>

(* The constructor, which asks for the address of the other end.  That     *)
(* throws if there is none any more, and nobody catches it on this thread. *)
Constructs(k) ==
    /\ ConsoleGoes(k, "constructs", "pushes")
    /\ k \notin left
    /\ UNCHANGED <<mNextConsoleID, mID, mConsoles, seen, left, overlapped, fault>>

ConstructorThrows(k) ==
    /\ conPc[k] = "constructs"
    /\ k \in left
    /\ fault' = "console left"
    /\ UNCHANGED consoleVars

(* mConsoles.push_back: where the vector ends, then the element there.     *)
(* Another push_back in between is overwritten, or it has moved the vector *)
(* elsewhere.  (A thread that finds the vector shorter than it saw it, for *)
(* which two others must have met, is left to PushBackFaults.)             *)
PushBackSees(k) ==
    /\ ConsoleGoes(k, "pushes", "pushing")
    /\ seen' = [seen EXCEPT ![k] = Len(mConsoles)]
    /\ overlapped' = (overlapped \/ Meets("pushing"))
    /\ UNCHANGED <<mNextConsoleID, mID, mConsoles, left, fault>>

PushBackStores(k) ==
    /\ ConsoleGoes(k, "pushing", "welcomes")
    /\ seen[k] <= Len(mConsoles)
    /\ mConsoles' = Append(SubSeq(mConsoles, 1, seen[k]), k)
    /\ seen' = [seen EXCEPT ![k] = 0]
    /\ UNCHANGED <<mNextConsoleID, mID, left, overlapped, fault>>

PushBackFaults(k) ==
    /\ conPc[k] = "pushing"
    /\ seen[k] # Len(mConsoles)
    /\ fault' = "push_back"
    /\ UNCHANGED consoleVars

(* TCPSend of WELCOME.  If it fails REMOVE_CONSOLE is pushed, in vain.     *)
Welcomes(k) ==
    /\ ConsoleGoes(k, "welcomes", "done")
    /\ UNCHANGED <<mNextConsoleID, mID, mConsoles, seen, left, overlapped, fault>>

ServerThreadTcpReceiveCons(k) ==
    \/ ReadsConsoleID(k) \/ WritesConsoleID(k)
    \/ Constructs(k) \/ ConstructorThrows(k)
    \/ PushBackSees(k) \/ PushBackStores(k) \/ PushBackFaults(k)
    \/ Welcomes(k)

-------------------------------------------------------------------------------
ConsoleTypeOK ==
    /\ conPc \in [Console -> {"away", "accepted", "numbers", "constructs", "pushes",
                              "pushing", "welcomes", "done"}]
    /\ mNextConsoleID \in Nat
    /\ mID \in [Console -> Nat]
    /\ mConsoles \in Seq(Console)
    /\ seen \in [Console -> Nat]
    /\ left \subseteq Console
    /\ overlapped \in BOOLEAN

(* Unless two threads were in the same update at once, each console whose  *)
(* thread has appended it is registered once, for good, under a number of  *)
(* its own.                                                                *)
Appended(k) == conPc[k] \in {"welcomes", "done"}
ConsolesKept ==
    ~ overlapped =>
        /\ \A k \in Console :
              Appended(k) <=> \E i \in 1 .. Len(mConsoles) : mConsoles[i] = k
        /\ \A i, j \in 1 .. Len(mConsoles) :
              i # j => mID[mConsoles[i]] # mID[mConsoles[j]]
===============================================================================

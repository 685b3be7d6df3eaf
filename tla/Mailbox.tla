-------------------------------- MODULE Mailbox --------------------------------
(***************************************************************************)
(* What an Engine promises about the events it is given (abstract          *)
(* specification of Engine::PushEvent and Engine::ProcessQueue): they are  *)
(* handled one at a time, in the order they were put, each exactly once,   *)
(* as long as no handler throws.  A handler that throws consumes its event *)
(* and ends the handling for good: the thread that runs the engine leaves  *)
(* its loop, and what is put afterwards is kept but never handled.         *)
(***************************************************************************)
EXTENDS Sequences

CONSTANT Event          \* the events that may be put

VARIABLES inbox,        \* events put and not yet disposed of, oldest first
          handled,      \* events whose handler has returned, in that order
          alive         \* no handler has thrown so far

vars == <<inbox, handled, alive>>

Init ==
    /\ inbox = <<>>
    /\ handled = <<>>
    /\ alive = TRUE

Put(e) ==
    /\ inbox' = Append(inbox, e)
    /\ UNCHANGED <<handled, alive>>

Handle ==
    /\ alive
    /\ inbox # <<>>
    /\ handled' = Append(handled, Head(inbox))
    /\ inbox' = Tail(inbox)
    /\ UNCHANGED alive

Throw ==
    /\ alive
    /\ inbox # <<>>
    /\ alive' = FALSE
    /\ inbox' = Tail(inbox)
    /\ UNCHANGED handled

Next == (\E e \in Event : Put(e)) \/ Handle \/ Throw

Spec == Init /\ [][Next]_vars /\ WF_vars(Handle \/ Throw)

(* The part of Spec without fairness. *)
Safety == Init /\ [][Next]_vars
================================================================================

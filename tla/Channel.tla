-------------------------------- MODULE Channel --------------------------------
(***************************************************************************)
(* What the receiving side of a client's socket promises.  The client      *)
(* sends events 1, 2, ...  Some of them are handed on, in their order.     *)
(* While one receive is outstanding these are whole and handed on once;    *)
(* from the time there are two, an event may be handed on twice, and with  *)
(* the second half of another.                                             *)
(***************************************************************************)
EXTENDS Naturals, Sequences

VARIABLES sent,         \* how many events the client has sent
          doubled,      \* are there two receives outstanding?
          handled       \* the events handed on: which event each half is of

vars == <<sent, doubled, handled>>

Init ==
    /\ sent = 0
    /\ doubled = FALSE
    /\ handled = <<>>

Send ==
    /\ sent' = sent + 1
    /\ UNCHANGED <<doubled, handled>>

Double ==
    /\ ~ doubled
    /\ doubled' = TRUE
    /\ UNCHANGED <<sent, handled>>

LastHead == IF handled = <<>> THEN 0 ELSE handled[Len(handled)].head

HandOn(h, t) ==
    /\ handled' = Append(handled, [head |-> h, tail |-> t])
    /\ UNCHANGED <<sent, doubled>>

HandOnWhole ==
    /\ ~ doubled
    /\ \E e \in 1 .. sent : e > LastHead /\ HandOn(e, e)

(* The head is not older than the last one, and not that of the last two.  *)
HandOnMixed ==
    /\ doubled
    /\ \E h, t \in 1 .. sent :
          /\ h >= LastHead
          /\ Len(handled) > 1 => handled[Len(handled) - 1].head # h
          /\ HandOn(h, t)

Next == Send \/ Double \/ HandOnWhole \/ HandOnMixed

Spec == Init /\ [][Next]_vars
================================================================================

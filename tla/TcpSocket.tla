------------------------------- MODULE TcpSocket -------------------------------
(***************************************************************************)
(* One client's socket (Engine/STcpSocket.cpp): the byte streams both ways *)
(* and mBuffer, into which receives bring what has arrived.  A login's     *)
(* thread receives once and arms the socket (SyncReceive); the network     *)
(* thread runs a handler (AsyncRead) for each receive that completes,      *)
(* which parses the beginning of mBuffer and arms the socket again; the    *)
(* constructor of the machine arms it once more (NetMachine::NetMachine),  *)
(* so that from then on two receives share mBuffer.                        *)
(*                                                                         *)
(* An event is two pieces of the stream, so that it may be cut: piece      *)
(* 2e - 1 is the head of event e and 2e its tail.  The cut is one the      *)
(* parser notices, with nothing after it.                                  *)
(***************************************************************************)
EXTENDS Naturals, Sequences

CONSTANTS BufferSize,   \* TCP_BUFFER_SIZE, in pieces
          Window,       \* pieces the connection holds that the client has not read
          MaxSent,      \* bound on the events the client sends
          MaxReply      \* bound on the events it is sent

ASSUME TcpSocketAssumption ==
    /\ BufferSize \in Nat \ {0}
    /\ Window \in Nat \ {0}
    /\ MaxSent \in Nat
    /\ MaxReply \in Nat

VARIABLES sent,         \* how many events the client has sent
          taken,        \* how many pieces of them were received
          mBuffer,      \* its first two pieces; 0: never written
          owner,        \* mParent: "login" before SyncReceive, "engine", "machine"
          armed,        \* receives outstanding
          done,         \* receives that completed, by the pieces each brought,
                        \* whose handlers have not returned
          copied,       \* the first piece the running handler copied, if one runs
          open,         \* mSocket->is_open()
          gone,         \* has the client closed its end?
          handled,      \* history: the events handed on
          replies,      \* how many events SendEvent was called for
          writing,      \* is write_some under way, for the last of them?
          unread,       \* pieces sent that the client has not read
          read          \* history: those it has

receiving == <<taken, mBuffer, owner, armed, done, copied, handled>>
sending == <<replies, writing, unread, read>>
vars == <<sent, receiving, open, gone, sending>>

HeadOf(e) == 2 * e - 1
TailOf(e) == 2 * e

Init ==
    /\ sent = 0
    /\ taken = 0
    /\ mBuffer = <<0, 0>>
    /\ owner = "login"
    /\ armed = 0
    /\ done = <<>>
    /\ copied = <<>>
    /\ open = TRUE
    /\ gone = FALSE
    /\ handled = <<>>
    /\ replies = 0
    /\ writing = FALSE
    /\ unread = <<>>
    /\ read = <<>>

-------------------------------------------------------------------------------
(* The client.                                                             *)

ClientSends ==
    /\ ~ gone
    /\ sent < MaxSent
    /\ sent' = sent + 1
    /\ UNCHANGED <<receiving, open, gone, sending>>

ClientReads ==
    /\ ~ gone
    /\ unread # <<>>
    /\ unread' = Tail(unread)
    /\ read' = Append(read, Head(unread))
    /\ UNCHANGED <<sent, receiving, open, gone, replies, writing>>

ClientCloses ==
    /\ ~ gone
    /\ gone' = TRUE
    /\ UNCHANGED <<sent, receiving, open, sending>>

-------------------------------------------------------------------------------
(* Receiving.                                                              *)

(* n pieces arrive at the beginning of mBuffer; what lay behind them stays.*)
Brings(n) ==
    /\ open
    /\ n <= BufferSize
    /\ taken + n <= TailOf(sent)
    /\ taken' = taken + n
    /\ mBuffer' = <<taken + 1, IF n > 1 THEN taken + 2 ELSE mBuffer[2]>>

(* The events whose archives begin with piece p and end with piece q.      *)
Parsed(p, q) ==
    {[head |-> h, tail |-> t] : h \in {e \in 1 .. sent : p = HeadOf(e)},
                                t \in {e \in 1 .. sent : q = TailOf(e)}}

(* Mutant: it arms the socket twice. *)
ArmedTwice == armed + 2

(* SetBind *)
ArmedOnce == armed + 1

(* SyncReceive parses the whole of mBuffer, also where it was never        *)
(* written: that may make it fail in any case.                             *)
SyncReceive ==
    /\ owner = "login"
    /\ \/ /\ \E n \in 1 .. BufferSize : Brings(n)
          /\ \/ \E ent \in Parsed(mBuffer'[1], mBuffer'[2]) :
                   handled' = Append(handled, ent)
             \/ handled' = handled
       \/ gone /\ UNCHANGED <<taken, mBuffer, handled>>
    /\ owner' = "engine"
    /\ armed' = ArmedOnce
    /\ UNCHANGED <<sent, done, copied, open, gone, sending>>

(* A receive completes, on the network thread. *)
Receive ==
    /\ copied = <<>>
    /\ armed > 0
    /\ armed' = armed - 1
    /\ \E n \in 1 .. BufferSize : Brings(n) /\ done' = Append(done, n)
    /\ UNCHANGED <<sent, owner, copied, open, gone, handled, sending>>

(* The receive fails, and its handler returns at once. *)
ReceiveFails ==
    /\ copied = <<>>
    /\ armed > 0
    /\ gone
    /\ armed' = armed - 1
    /\ UNCHANGED <<sent, taken, mBuffer, owner, done, copied, open, gone,
                   handled, sending>>

(* AsyncRead begins: strData is copied from mBuffer, here its first piece. *)
AsyncReadCopies ==
    /\ copied = <<>>
    /\ done # <<>>
    /\ copied' = <<mBuffer[1]>>
    /\ UNCHANGED <<sent, taken, mBuffer, owner, armed, done, open, gone, handled,
                   sending>>

(* What the running handler can parse, within its own count of pieces.     *)
StrData == IF Head(done) > 1 THEN Parsed(copied[1], mBuffer[2]) ELSE {}

AsyncReadReturns ==
    /\ copied # <<>>
    /\ copied' = <<>>
    /\ done' = Tail(done)
    /\ UNCHANGED <<sent, taken, mBuffer, owner, open, gone, sending>>

Rearmed == IF open THEN armed + 1 ELSE armed

(* PushReceivedEvent of the socket's parent. *)
AsyncReadHandsOn ==
    /\ AsyncReadReturns
    /\ \E ne \in StrData : handled' = Append(handled, ne)
    /\ armed' = Rearmed

(* Mutant: the handler returns from the exception without arming. *)
AsyncReadGivesUp ==
    /\ AsyncReadReturns
    /\ \A ne \in StrData : ne.head # ne.tail
    /\ UNCHANGED <<handled, armed>>

(* An exception while parsing: the archive is cut short, starts in the     *)
(* middle of one, or is of two events that do not fit.                     *)
AsyncReadThrows ==
    /\ AsyncReadReturns
    /\ \A ne \in StrData : ne.head # ne.tail
    /\ handled' = handled
    /\ armed' = Rearmed

(* NetMachine's constructor, on the engine's thread.  With no other        *)
(* receive outstanding async_receive takes what has arrived on this        *)
(* thread, whatever the network thread does with mBuffer meanwhile.        *)
NetMachineBinds ==
    /\ owner = "engine"
    /\ open
    /\ owner' = "machine"
    /\ \/ /\ armed' = ArmedOnce
          /\ UNCHANGED <<taken, mBuffer, done>>
       \/ /\ armed = 0
          /\ \E n \in 1 .. BufferSize : Brings(n) /\ done' = Append(done, n)
          /\ UNCHANGED armed
    /\ UNCHANGED <<sent, copied, open, gone, handled, sending>>

(* Close: the receives outstanding are cancelled, their handlers return.   *)
Close ==
    /\ owner # "login"
    /\ open
    /\ open' = FALSE
    /\ armed' = 0
    /\ UNCHANGED <<sent, taken, mBuffer, owner, done, copied, gone, handled, sending>>

-------------------------------------------------------------------------------
(* Sending: SendEvent, which calls write_some and does not look at how     *)
(* much was written.  While there is no room it waits.                     *)

SendEvent ==
    /\ owner # "login"
    /\ open
    /\ ~ writing
    /\ replies < MaxReply
    /\ replies' = replies + 1
    /\ writing' = TRUE
    /\ UNCHANGED <<sent, receiving, open, gone, unread, read>>

Room == Window - Len(unread)

(* Mutant: what is left is written first, not last. *)
WrittenFromTheEnd ==
    IF Room = 1 THEN <<TailOf(replies)>> ELSE <<HeadOf(replies), TailOf(replies)>>

(* As much as there is room for.  (A client that is gone may be written to *)
(* for a while.)                                                           *)
Written ==
    IF Room = 1 THEN <<HeadOf(replies)>> ELSE <<HeadOf(replies), TailOf(replies)>>

WriteSome ==
    /\ writing
    /\ open
    /\ Room > 0
    /\ unread' = unread \o Written
    /\ writing' = FALSE
    /\ UNCHANGED <<sent, receiving, open, gone, replies, read>>

(* Mutant: it waits for room, though the client is gone. *)
WriteFailsIfClosed ==
    /\ writing
    /\ ~ open
    /\ writing' = FALSE
    /\ UNCHANGED <<sent, receiving, open, gone, replies, unread, read>>

WriteFails ==
    /\ writing
    /\ gone \/ ~ open
    /\ writing' = FALSE
    /\ UNCHANGED <<sent, receiving, open, gone, replies, unread, read>>

-------------------------------------------------------------------------------
NetworkThread ==
    \/ Receive \/ ReceiveFails \/ AsyncReadCopies \/ AsyncReadHandsOn \/ AsyncReadThrows

Write == WriteSome \/ WriteFails

Next ==
    \/ ClientSends \/ ClientReads \/ ClientCloses
    \/ SyncReceive \/ NetworkThread \/ NetMachineBinds \/ Close
    \/ SendEvent \/ Write

Spec ==
    /\ Init /\ [][Next]_vars
    /\ WF_vars(NetworkThread)
    /\ WF_vars(Write)

-------------------------------------------------------------------------------
TypeOK ==
    /\ sent \in 0 .. MaxSent
    /\ taken \in 0 .. TailOf(sent)
    /\ mBuffer \in Nat \X Nat
    /\ owner \in {"login", "engine", "machine"}
    /\ armed \in 0 .. 2
    /\ done \in Seq(1 .. BufferSize)
    /\ copied \in Seq(Nat) /\ Len(copied) <= 1
    /\ open \in BOOLEAN
    /\ gone \in BOOLEAN
    /\ handled \in Seq([head : Nat, tail : Nat])
    /\ replies \in 0 .. MaxReply
    /\ writing \in BOOLEAN
    /\ unread \in Seq(Nat)
    /\ read \in Seq(Nat)

(* What the socket hands on is what Channel promises: with one receive     *)
(* outstanding whole events, each at most once; with two, each at most     *)
(* twice, and never one older than the last, though it may end with        *)
(* another's tail.                                                         *)
Promised == INSTANCE Channel WITH doubled <- owner = "machine"
ImplementsChannel == Promised!Spec

(* Whatever could not be parsed, the socket listens on: once armed, every  *)
(* piece sent is received unless one of the ends is closed.                *)
ListensOn ==
    \A e \in 1 .. MaxSent :
        (e <= sent /\ owner # "login") ~> (taken >= TailOf(e) \/ ~ open \/ gone)

(* The client reads the events in the order they were sent, and a tail     *)
(* only after its head; but a head may lack its tail, when there was room  *)
(* for a part only, and this is then followed by the next event's head.    *)
Outgoing == read \o unread
SentInOrder ==
    \A i \in 1 .. Len(Outgoing) :
        LET before == IF i = 1 THEN 0 ELSE Outgoing[i - 1]
        IN  /\ Outgoing[i] > before
            /\ \A e \in 1 .. replies : Outgoing[i] = TailOf(e) => before = HeadOf(e)

(* Only a client that stays and does not read can hold up the thread that  *)
(* sends to it, for as long as its connection is full.                     *)
HeldUpOnlyByClient ==
    <>[]writing => <>[](Room = 0 /\ open /\ ~ gone)
===============================================================================

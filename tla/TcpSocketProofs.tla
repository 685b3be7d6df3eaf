---------------------------- MODULE TcpSocketProofs ----------------------------
(***************************************************************************)
(* What holds of a client's socket whatever the sizes of mBuffer and of    *)
(* the connection, and however much is sent: it implements the channel of  *)
(* module Channel, and what it sends arrives in order.                     *)
(***************************************************************************)
EXTENDS TcpSocket, DataLemmas

LastHead == IF handled = <<>> THEN 0 ELSE handled[Len(handled)].head
BeforeLast == IF Len(handled) > 1 THEN handled[Len(handled) - 1].head ELSE 0

(* How many receives there are: none before SyncReceive has armed the      *)
(* socket, one until the machine's constructor does, then two.             *)
Outstanding ==
    /\ owner = "login" => armed = 0 /\ done = <<>> /\ handled = <<>> /\ mBuffer = <<0, 0>>
    /\ owner = "engine" => armed + Len(done) <= 1
    /\ armed + Len(done) <= 2
    /\ copied # <<>> => done # <<>>

(* While there is one, what mBuffer holds is what it brought.              *)
Unshared ==
    owner = "engine" /\ done # <<>> =>
        /\ Head(done) > 1 => mBuffer[2] = mBuffer[1] + 1
        /\ HeadOf(LastHead) < mBuffer[1]
        /\ copied # <<>> => copied[1] = mBuffer[1]

(* The places in the stream of what was handed on last, what a running     *)
(* handler has copied, and what mBuffer begins with.  A handler is running *)
(* behind the times only if the machine's constructor has just received.   *)
Forward ==
    /\ mBuffer[1] <= taken
    /\ HeadOf(LastHead) <= mBuffer[1]
    /\ copied # <<>> => HeadOf(LastHead) <= copied[1] /\ copied[1] <= mBuffer[1]
    /\ copied # <<>> /\ copied[1] < mBuffer[1] =>
          armed = 0 /\ HeadOf(LastHead) < copied[1]

(* The event at the beginning of mBuffer can be handed on by as many       *)
(* handlers as are to run, and two in all.                                 *)
AtMostTwice ==
    /\ BeforeLast <= LastHead
    /\ handled # <<>> /\ mBuffer[1] = HeadOf(LastHead) =>
          /\ Len(done) <= 1
          /\ BeforeLast = LastHead => done = <<>>

Receiving == Outstanding /\ Unshared /\ Forward /\ AtMostTwice

-------------------------------------------------------------------------------
(* Facts about single operators.                                           *)

Ent == [head : Nat, tail : Nat]

LEMMA ParsedFacts ==
  ASSUME TypeOK, NEW p, NEW q, NEW ent \in Parsed(p, q)
  PROVE  /\ ent \in Ent
         /\ ent.head \in 1 .. sent /\ ent.tail \in 1 .. sent
         /\ p = HeadOf(ent.head) /\ q = TailOf(ent.tail)
BY DEF Parsed, Ent, TypeOK

LEMMA BringsFacts ==
  ASSUME TypeOK, NEW n \in 1 .. BufferSize, Brings(n)
  PROVE  /\ taken' = taken + n /\ taken' \in 0 .. TailOf(sent)
         /\ mBuffer' \in Nat \X Nat
         /\ mBuffer'[1] = taken + 1
         /\ n > 1 => mBuffer'[2] = taken + 2
         /\ ~ (n > 1) => mBuffer'[2] = mBuffer[2]
BY TcpSocketAssumption DEF Brings, TypeOK, TailOf

LEMMA DoneGrows ==
  ASSUME TypeOK, NEW n \in 1 .. BufferSize, done' = Append(done, n)
  PROVE  /\ done' \in Seq(1 .. BufferSize) /\ done' # <<>>
         /\ Len(done) \in Nat /\ Len(done') = Len(done) + 1
         /\ done = <<>> => Head(done') = n
         /\ done # <<>> => Head(done') = Head(done) /\ Len(done) > 0
<1>1. done \in Seq(1 .. BufferSize)
  BY DEF TypeOK
<1>2. Len(done) \in Nat /\ (done # <<>> => Len(done) > 0)
  BY <1>1, LenProperties, EmptySeq
<1>3. /\ done' \in Seq(1 .. BufferSize) /\ done' # <<>> /\ Len(done') = Len(done) + 1
  BY <1>1, AppendProperties
<1>4. done = <<>> => Head(done') = n
  BY <1>1
<1>5. done # <<>> => Head(done') = Head(done)
  BY <1>1, HeadTailAppend
<1>. QED  BY <1>2, <1>3, <1>4, <1>5

LEMMA DoneShrinks ==
  ASSUME TypeOK, done # <<>>, done' = Tail(done)
  PROVE  /\ done' \in Seq(1 .. BufferSize) /\ Head(done) \in 1 .. BufferSize
         /\ Len(done) \in Nat /\ Len(done') = Len(done) - 1 /\ Len(done') \in Nat
         /\ Len(done) <= 1 => done' = <<>>
<1>1. done \in Seq(1 .. BufferSize)
  BY DEF TypeOK
<1>2. /\ done' \in Seq(1 .. BufferSize) /\ Head(done) \in 1 .. BufferSize
      /\ Len(done') = Len(done) - 1
  BY <1>1, HeadTailProperties
<1>3. Len(done) \in Nat /\ Len(done') \in Nat
  BY <1>1, <1>2, LenProperties
<1>4. Len(done) <= 1 => done' = <<>>
  BY <1>2, <1>3, EmptySeq
<1>. QED  BY <1>2, <1>3, <1>4

LEMMA HandledGrows ==
  ASSUME TypeOK, NEW ent \in Ent, handled' = Append(handled, ent)
  PROVE  /\ handled' \in Seq(Ent) /\ handled' # <<>>
         /\ LastHead' = ent.head /\ BeforeLast' = LastHead
<1>1. handled \in Seq(Ent)
  BY DEF TypeOK, Ent
<1>2. /\ handled' \in Seq(Ent) /\ handled' # <<>>
      /\ Len(handled') = Len(handled) + 1
      /\ handled'[Len(handled) + 1] = ent
      /\ \A i \in 1 .. Len(handled) : handled'[i] = handled[i]
  BY <1>1, AppendProperties
<1>3. Len(handled) \in Nat /\ (handled = <<>> <=> Len(handled) = 0)
  BY <1>1, LenProperties, EmptySeq
<1>. QED  BY <1>2, <1>3 DEF LastHead, BeforeLast

LEMMA HeadsAreNumbers == TypeOK => LastHead \in Nat /\ BeforeLast \in Nat
<1>. SUFFICES ASSUME TypeOK  PROVE LastHead \in Nat /\ BeforeLast \in Nat
  OBVIOUS
<1>1. handled \in Seq(Ent)
  BY DEF TypeOK, Ent
<1>2. Len(handled) \in Nat /\ (handled # <<>> => Len(handled) > 0)
  BY <1>1, LenProperties, EmptySeq
<1>3. \A i \in 1 .. Len(handled) : handled[i] \in Ent
  BY <1>1, ElementOfSeq
<1>. QED  BY <1>2, <1>3 DEF LastHead, BeforeLast, Ent

-------------------------------------------------------------------------------
(* Type correctness.                                                       *)

(* An event being written has a number. *)
Numbered == writing => replies # 0

LEMMA InitTypeOK == Init => TypeOK
<1>. SUFFICES ASSUME Init  PROVE TypeOK
  OBVIOUS
<1>1. /\ <<>> \in Seq(1 .. BufferSize) /\ <<>> \in Seq(Nat)
      /\ <<>> \in Seq([head : Nat, tail : Nat]) /\ Len(<<>>) = 0
  BY EmptySeq
<1>2. sent \in 0 .. MaxSent /\ taken \in 0 .. TailOf(sent)
  BY TcpSocketAssumption DEF Init, TailOf
<1>3. mBuffer \in Nat \X Nat /\ replies \in 0 .. MaxReply
  BY TcpSocketAssumption DEF Init
<1>4. 0 <= 1 /\ armed \in 0 .. 2
  BY DEF Init
<1>. QED  BY <1>1, <1>2, <1>3, <1>4, Zenon DEF Init, TypeOK

LEMMA NextTypeOK == TypeOK /\ Outstanding /\ Numbered /\ [Next]_vars => TypeOK'
<1>. SUFFICES ASSUME TypeOK, Outstanding, Numbered, [Next]_vars
              PROVE  TypeOK'
  OBVIOUS
<1>. USE TcpSocketAssumption
<1>0. Len(done) \in Nat
  BY LenProperties DEF TypeOK
<1>1. CASE ClientSends
  <2>1. taken \in 0 .. TailOf(sent + 1)
    BY DEF TypeOK, TailOf
  <2>. QED  BY <1>1, <2>1 DEF ClientSends, receiving, sending, TypeOK
<1>2. CASE ClientReads
  <2>1. Tail(unread) \in Seq(Nat) /\ Head(unread) \in Nat
    BY <1>2, HeadTailProperties DEF ClientReads, TypeOK
  <2>2. Append(read, Head(unread)) \in Seq(Nat)
    BY <2>1, AppendProperties DEF TypeOK
  <2>. QED  BY <1>2, <2>1, <2>2 DEF ClientReads, receiving, TypeOK
<1>3. CASE ClientCloses
  BY <1>3 DEF ClientCloses, receiving, sending, TypeOK
<1>4. CASE SyncReceive
  <2>1. /\ taken' \in 0 .. TailOf(sent) /\ mBuffer' \in Nat \X Nat
        /\ handled' \in Seq(Ent)
    <3>1. CASE gone /\ UNCHANGED <<taken, mBuffer, handled>>
      BY <3>1 DEF TypeOK, Ent
    <3>2. CASE \E n \in 1 .. BufferSize : Brings(n)
      <4>1. handled' \in Seq(Ent)
        <5>1. handled' = handled \/ \E ent \in Parsed(mBuffer'[1], mBuffer'[2]) :
                                       handled' = Append(handled, ent)
          BY <1>4 DEF SyncReceive
        <5>2. handled \in Seq(Ent)
          BY DEF TypeOK, Ent
        <5>. QED  BY <5>1, <5>2, ParsedFacts, AppendProperties
      <4>. QED  BY <3>2, <4>1, BringsFacts
    <3>. QED  BY <1>4, <3>1, <3>2 DEF SyncReceive
  <2>2. armed' \in 0 .. 2 /\ owner' = "engine"
    BY <1>4 DEF SyncReceive, ArmedOnce, Outstanding
  <2>. QED  BY <1>4, <2>1, <2>2 DEF SyncReceive, sending, TypeOK, Ent
<1>5. CASE Receive
  <2>1. PICK n \in 1 .. BufferSize : Brings(n) /\ done' = Append(done, n)
    BY <1>5 DEF Receive
  <2>2. done' \in Seq(1 .. BufferSize)
    BY <2>1, DoneGrows
  <2>3. taken' \in 0 .. TailOf(sent) /\ mBuffer' \in Nat \X Nat
    BY <2>1, BringsFacts
  <2>. QED  BY <1>5, <2>2, <2>3 DEF Receive, sending, TypeOK
<1>6. CASE ReceiveFails
  BY <1>6 DEF ReceiveFails, sending, TypeOK
<1>7. CASE AsyncReadCopies
  <2>1. mBuffer[1] \in Nat
    BY DEF TypeOK
  <2>2. <<mBuffer[1]>> \in Seq(Nat) /\ Len(<<mBuffer[1]>>) = 1
    BY <2>1
  <2>. QED  BY <1>7, <2>2 DEF AsyncReadCopies, sending, TypeOK
<1>8. CASE AsyncReadHandsOn \/ AsyncReadThrows
  <2>1. /\ done # <<>> /\ done' = Tail(done) /\ copied' = <<>>
        /\ UNCHANGED <<sent, taken, mBuffer, owner, open, gone, sending>>
        /\ armed' = Rearmed
    BY <1>8 DEF AsyncReadHandsOn, AsyncReadThrows, AsyncReadReturns, Outstanding
  <2>2. done' \in Seq(1 .. BufferSize) /\ Len(done) >= 1
    BY <2>1, DoneShrinks
  <2>3. armed' \in 0 .. 2
    BY <1>0, <2>1, <2>2 DEF Rearmed, Outstanding, TypeOK
  <2>4. handled' \in Seq(Ent)
    <3>1. handled \in Seq(Ent)
      BY DEF TypeOK, Ent
    <3>2. CASE AsyncReadThrows
      BY <3>1, <3>2 DEF AsyncReadThrows
    <3>3. CASE AsyncReadHandsOn
      <4>1. PICK ne \in Parsed(copied[1], mBuffer[2]) : handled' = Append(handled, ne)
        BY <3>3 DEF AsyncReadHandsOn, StrData
      <4>. QED  BY <3>1, <4>1, ParsedFacts, AppendProperties
    <3>. QED  BY <1>8, <3>2, <3>3
  <2>5. <<>> \in Seq(Nat) /\ Len(<<>>) = 0
    BY EmptySeq
  <2>. QED  BY <2>1, <2>2, <2>3, <2>4, <2>5 DEF sending, TypeOK, Ent
<1>9. CASE NetMachineBinds
  <2>1. CASE armed' = ArmedOnce /\ UNCHANGED <<taken, mBuffer, done>>
    <3>1. armed' \in 0 .. 2
      BY <1>0, <1>9, <2>1 DEF NetMachineBinds, ArmedOnce, Outstanding, TypeOK
    <3>. QED  BY <1>9, <2>1, <3>1 DEF NetMachineBinds, sending, TypeOK
  <2>2. ASSUME NEW n \in 1 .. BufferSize, Brings(n), done' = Append(done, n),
               armed' = armed
        PROVE  TypeOK'
    <3>1. done' \in Seq(1 .. BufferSize)
      BY <2>2, DoneGrows
    <3>2. taken' \in 0 .. TailOf(sent) /\ mBuffer' \in Nat \X Nat
      BY <2>2, BringsFacts
    <3>. QED  BY <1>9, <2>2, <3>1, <3>2 DEF NetMachineBinds, sending, TypeOK
  <2>. QED  BY <1>9, <2>1, <2>2 DEF NetMachineBinds
<1>10. CASE Close
  <2>1. armed' = 0 /\ open' = FALSE
    BY <1>10, Zenon DEF Close
  <2>2. armed' \in 0 .. 2
    BY <2>1
  <2>. QED  BY <1>10, <2>1, <2>2 DEF Close, sending, TypeOK
<1>11. CASE SendEvent
  BY <1>11 DEF SendEvent, receiving, TypeOK
<1>12. CASE WriteSome
  <2>1. HeadOf(replies) \in Nat /\ TailOf(replies) \in Nat
    BY <1>12 DEF WriteSome, Numbered, HeadOf, TailOf, TypeOK
  <2>2. Written \in Seq(Nat)
    BY <2>1 DEF Written
  <2>3. unread' \in Seq(Nat)
    BY <1>12, <2>2, ConcatProperties DEF WriteSome, TypeOK
  <2>. QED  BY <1>12, <2>3 DEF WriteSome, receiving, TypeOK
<1>13. CASE WriteFails
  BY <1>13 DEF WriteFails, receiving, TypeOK
<1>14. CASE UNCHANGED vars
  BY <1>14 DEF vars, receiving, sending, TypeOK
<1>. QED
  BY <1>1, <1>2, <1>3, <1>4, <1>5, <1>6, <1>7, <1>8, <1>9, <1>10, <1>11, <1>12,
     <1>13, <1>14 DEF Next, NetworkThread, Write

-------------------------------------------------------------------------------
(* The receives.                                                           *)

LEMMA InitReceiving == Init => Receiving
<1>1. <<0, 0>>[1] = 0 /\ HeadOf(0) <= 0 /\ Len(<<>>) = 0
  BY EmptySeq DEF HeadOf
<1>. QED  BY <1>1 DEF Init, Receiving, Outstanding, Unshared, Forward, AtMostTwice,
                      LastHead, BeforeLast

(* A receive completes when no handler is behind the times: what mBuffer   *)
(* begins with is new.                                                     *)
LEMMA BroughtIsNew ==
  ASSUME TypeOK, Receiving, NEW n \in 1 .. BufferSize, Brings(n), handled' = handled
  PROVE  /\ mBuffer[1] < mBuffer'[1] /\ HeadOf(LastHead) < mBuffer'[1]
         /\ mBuffer'[1] <= taken'
         /\ LastHead' = LastHead /\ BeforeLast' = BeforeLast
<1>1. LastHead \in Nat
  BY HeadsAreNumbers
<1>2. mBuffer[1] \in Nat /\ taken \in Nat
  BY DEF TypeOK
<1>. QED  BY <1>1, <1>2, BringsFacts DEF Receiving, Forward, LastHead, BeforeLast, HeadOf

LEMMA NextReceiving == TypeOK /\ Receiving /\ [Next]_vars => Receiving'
<1>. SUFFICES ASSUME TypeOK, Receiving, [Next]_vars
              PROVE  Receiving'
  OBVIOUS
<1>0. /\ LastHead \in Nat /\ BeforeLast \in Nat /\ armed \in Nat /\ Len(done) \in Nat
      /\ mBuffer[1] \in Nat /\ mBuffer[2] \in Nat /\ taken \in Nat
      /\ done = <<>> => Len(done) = 0
      /\ done # <<>> => Len(done) > 0
  BY HeadsAreNumbers, LenProperties, EmptySeq DEF TypeOK
<1>1. CASE UNCHANGED receiving
  BY <1>1 DEF receiving, Receiving, Outstanding, Unshared, Forward, AtMostTwice,
              LastHead, BeforeLast
<1>2. CASE SyncReceive
  <2>1. /\ owner = "login" /\ owner' = "engine" /\ armed' = 1
        /\ done = <<>> /\ done' = <<>> /\ copied = <<>> /\ copied' = <<>>
        /\ handled = <<>> /\ mBuffer = <<0, 0>>
    BY <1>0, <1>2 DEF SyncReceive, ArmedOnce, Receiving, Outstanding
  <2>2. Outstanding' /\ Unshared'
    BY <1>0, <2>1 DEF Outstanding, Unshared
  <2>3. CASE handled' = handled
    <3>1. mBuffer'[1] <= taken' /\ LastHead' = 0 /\ BeforeLast' = 0
      <4>1. CASE UNCHANGED <<taken, mBuffer>>
        BY <2>1, <2>3, <4>1, EmptySeq DEF LastHead, BeforeLast, Receiving, Forward
      <4>2. CASE \E n \in 1 .. BufferSize : Brings(n)
        BY <2>1, <2>3, <4>2, BroughtIsNew, EmptySeq DEF LastHead, BeforeLast
      <4>. QED  BY <1>2, <4>1, <4>2 DEF SyncReceive
    <3>2. mBuffer'[1] \in Nat
      BY <1>0, <1>2, BringsFacts DEF SyncReceive
    <3>. QED  BY <2>1, <2>2, <2>3, <3>1, <3>2 DEF Receiving, Forward, AtMostTwice, HeadOf
  <2>4. CASE handled' # handled
    <3>1. PICK n \in 1 .. BufferSize : Brings(n)
      BY <1>2, <2>4 DEF SyncReceive
    <3>2. PICK ent \in Parsed(mBuffer'[1], mBuffer'[2]) : handled' = Append(handled, ent)
      BY <1>2, <2>4 DEF SyncReceive
    <3>3. ent \in Ent /\ HeadOf(ent.head) = mBuffer'[1] /\ ent.head \in Nat
      BY <3>2, ParsedFacts DEF Ent
    <3>4. LastHead' = ent.head /\ BeforeLast' = LastHead /\ LastHead = 0
      BY <2>1, <3>2, <3>3, HandledGrows DEF LastHead
    <3>5. mBuffer'[1] = taken + 1 /\ taken' = taken + n
      BY <3>1, BringsFacts
    <3>. QED  BY <1>0, <2>1, <2>2, <3>3, <3>4, <3>5
              DEF Receiving, Forward, AtMostTwice, HeadOf
  <2>. QED  BY <2>3, <2>4
<1>3. CASE Receive
  <2>1. PICK n \in 1 .. BufferSize : Brings(n) /\ done' = Append(done, n)
    BY <1>3 DEF Receive
  <2>2. /\ copied = <<>> /\ copied' = <<>> /\ armed > 0 /\ armed' = armed - 1
        /\ owner' = owner /\ handled' = handled /\ owner # "login"
    BY <1>0, <1>3 DEF Receive, Receiving, Outstanding
  <2>3. /\ mBuffer[1] < mBuffer'[1] /\ HeadOf(LastHead) < mBuffer'[1]
        /\ mBuffer'[1] <= taken' /\ LastHead' = LastHead /\ BeforeLast' = BeforeLast
    BY <2>1, <2>2, BroughtIsNew
  <2>4. Outstanding'
    BY <1>0, <2>1, <2>2, DoneGrows DEF Receiving, Outstanding
  <2>5. Unshared'
    <3>. SUFFICES ASSUME owner' = "engine"
                  PROVE  /\ Head(done') > 1 => mBuffer'[2] = mBuffer'[1] + 1
                         /\ HeadOf(LastHead') < mBuffer'[1]
      BY <2>2 DEF Unshared
    <3>1. done = <<>>
      BY <1>0, <2>2 DEF Receiving, Outstanding
    <3>. QED  BY <1>0, <2>1, <2>3, <3>1, DoneGrows, BringsFacts
  <2>6. mBuffer'[1] \in Nat
    BY <1>0, <2>1, BringsFacts
  <2>. QED  BY <1>0, <2>2, <2>3, <2>4, <2>5, <2>6
            DEF Receiving, Forward, AtMostTwice, HeadOf
<1>4. CASE ReceiveFails \/ Close
  <2>1. /\ UNCHANGED <<taken, mBuffer, owner, done, copied, handled>>
        /\ armed' \in Nat /\ armed' <= armed /\ owner # "login"
    BY <1>0, <1>4 DEF ReceiveFails, Close, Receiving, Outstanding
  <2>2. LastHead' = LastHead /\ BeforeLast' = BeforeLast
    BY <2>1 DEF LastHead, BeforeLast
  <2>. QED  BY <1>0, <2>1, <2>2 DEF Receiving, Outstanding, Unshared, Forward, AtMostTwice
<1>5. CASE AsyncReadCopies
  <2>1. /\ UNCHANGED <<taken, mBuffer, owner, armed, done, handled>>
        /\ copied' = <<mBuffer[1]>> /\ done # <<>>
    BY <1>5 DEF AsyncReadCopies
  <2>2. /\ LastHead' = LastHead /\ BeforeLast' = BeforeLast
        /\ copied' # <<>> /\ copied'[1] = mBuffer[1]
    BY <2>1 DEF LastHead, BeforeLast
  <2>. QED  BY <1>0, <2>1, <2>2 DEF Receiving, Outstanding, Unshared, Forward, AtMostTwice
<1>6. CASE AsyncReadHandsOn \/ AsyncReadThrows
  <2>1. /\ copied # <<>> /\ copied' = <<>> /\ done # <<>> /\ done' = Tail(done)
        /\ UNCHANGED <<taken, mBuffer, owner>>
        /\ armed' \in {armed, armed + 1}
    BY <1>6 DEF AsyncReadHandsOn, AsyncReadThrows, AsyncReadReturns, Rearmed, Receiving,
                Outstanding
  <2>2. /\ Len(done') = Len(done) - 1 /\ Len(done') \in Nat
        /\ Len(done) <= 1 => done' = <<>>
    BY <2>1, DoneShrinks
  <2>3. owner # "login"
    BY <2>1 DEF Receiving, Outstanding
  <2>4. Outstanding'
    BY <1>0, <2>1, <2>2, <2>3 DEF Receiving, Outstanding
  <2>5. Unshared'
    BY <1>0, <2>1, <2>2 DEF Receiving, Outstanding, Unshared
  <2>6. CASE handled' = handled
    <3>1. LastHead' = LastHead /\ BeforeLast' = BeforeLast
      BY <2>6 DEF LastHead, BeforeLast
    <3>. QED  BY <1>0, <2>1, <2>2, <2>4, <2>5, <2>6, <3>1
              DEF Receiving, Outstanding, Forward, AtMostTwice
  <2>7. CASE AsyncReadHandsOn
    <3>1. PICK ne \in Parsed(copied[1], mBuffer[2]) : handled' = Append(handled, ne)
      BY <2>7 DEF AsyncReadHandsOn, StrData
    <3>2. ne \in Ent /\ copied[1] = HeadOf(ne.head) /\ ne.head \in Nat
      BY <3>1, ParsedFacts DEF Ent
    <3>3. LastHead' = ne.head /\ BeforeLast' = LastHead /\ handled' # <<>>
      BY <3>1, <3>2, HandledGrows
    <3>4. HeadOf(LastHead) <= HeadOf(ne.head) /\ HeadOf(ne.head) <= mBuffer[1]
      BY <2>1, <3>2 DEF Receiving, Forward
    <3>5. Forward'
      BY <1>0, <2>1, <3>3, <3>4 DEF Receiving, Forward
    <3>6. AtMostTwice'
      <4>1. Len(done') <= 1
        BY <1>0, <2>1, <2>2 DEF Receiving, Outstanding
      <4>2. LastHead <= ne.head
        BY <1>0, <3>2, <3>4 DEF HeadOf
      <4>3. ASSUME mBuffer[1] = HeadOf(ne.head), LastHead = ne.head
            PROVE  done' = <<>>
        <5>1. handled # <<>>
          BY <1>0, <3>2, <3>1, <4>3, ParsedFacts DEF LastHead
        <5>. QED  BY <2>1, <2>2, <4>3, <5>1 DEF Receiving, AtMostTwice
      <4>. QED  BY <2>1, <3>3, <4>1, <4>2, <4>3 DEF AtMostTwice
    <3>. QED  BY <2>4, <2>5, <3>5, <3>6 DEF Receiving
  <2>. QED  BY <1>6, <2>6, <2>7 DEF AsyncReadThrows
<1>7. CASE NetMachineBinds
  <2>1. /\ owner = "engine" /\ owner' = "machine" /\ UNCHANGED <<copied, handled>>
    BY <1>7 DEF NetMachineBinds
  <2>2. LastHead' = LastHead /\ BeforeLast' = BeforeLast
    BY <2>1 DEF LastHead, BeforeLast
  <2>3. CASE armed' = ArmedOnce /\ UNCHANGED <<taken, mBuffer, done>>
    <3>1. Outstanding' /\ Unshared'
      BY <1>0, <2>1, <2>3 DEF Receiving, Outstanding, Unshared, ArmedOnce
    <3>2. Forward' /\ AtMostTwice'
      BY <1>0, <2>1, <2>2, <2>3 DEF Receiving, Outstanding, Unshared, Forward, AtMostTwice
    <3>. QED  BY <3>1, <3>2 DEF Receiving
  <2>4. ASSUME NEW n \in 1 .. BufferSize, armed = 0, armed' = armed,
               Brings(n), done' = Append(done, n)
        PROVE  Receiving'
    <3>1. /\ mBuffer[1] < mBuffer'[1] /\ HeadOf(LastHead) < mBuffer'[1]
          /\ mBuffer'[1] <= taken'
      BY <2>1, <2>4, BroughtIsNew
    <3>2. Outstanding' /\ Unshared'
      BY <1>0, <2>1, <2>4, DoneGrows DEF Receiving, Outstanding, Unshared
    <3>3. copied # <<>> => HeadOf(LastHead) < copied[1] /\ copied[1] = mBuffer[1]
      BY <2>1 DEF Receiving, Outstanding, Unshared
    <3>4. mBuffer'[1] \in Nat
      BY <1>0, <2>4, BringsFacts
    <3>5. Forward'
      BY <1>0, <2>1, <2>2, <2>4, <3>1, <3>3, <3>4 DEF Forward, HeadOf
    <3>6. AtMostTwice'
      BY <2>1, <2>2, <3>1, <3>4, <1>0 DEF Receiving, AtMostTwice, HeadOf
    <3>. QED  BY <3>2, <3>5, <3>6 DEF Receiving
  <2>. QED  BY <1>7, <2>3, <2>4 DEF NetMachineBinds
<1>8. CASE ClientSends \/ ClientReads \/ ClientCloses \/ SendEvent \/ Write
  BY <1>1, <1>8 DEF ClientSends, ClientReads, ClientCloses, SendEvent, Write, WriteSome,
                    WriteFails
<1>9. CASE UNCHANGED vars
  BY <1>1, <1>9 DEF vars
<1>. QED
  BY <1>2, <1>3, <1>4, <1>5, <1>6, <1>7, <1>8, <1>9 DEF Next, NetworkThread

-------------------------------------------------------------------------------
(* What is sent.                                                           *)

(* Nothing of an event that is not written yet has been sent. *)
LastWritten == IF writing THEN replies - 1 ELSE replies
UpToLast == \A i \in 1 .. Len(Outgoing) : Outgoing[i] <= TailOf(LastWritten)

Sending == Numbered /\ UpToLast /\ SentInOrder

LEMMA InitSending == Init => Sending
<1>. SUFFICES ASSUME Init  PROVE Sending
  OBVIOUS
<1>1. Outgoing = <<>>
  BY EmptySeq, ConcatEmptySeq DEF Init, Outgoing
<1>. QED  BY <1>1, EmptySeq DEF Init, Sending, Numbered, UpToLast, SentInOrder

(* The pieces of a stream are in order, and each tail follows its head.    *)
LastOf(o) == IF o = <<>> THEN 0 ELSE o[Len(o)]
MayFollow(p, o, r) == p > LastOf(o) /\ \A e \in 1 .. r : p = TailOf(e) => LastOf(o) = HeadOf(e)
InOrder(o, r) ==
    \A i \in 1 .. Len(o) :
        LET before == IF i = 1 THEN 0 ELSE o[i - 1]
        IN  o[i] > before /\ \A e \in 1 .. r : o[i] = TailOf(e) => before = HeadOf(e)

LEMMA PieceFollows ==
  ASSUME NEW o \in Seq(Nat), NEW p \in Nat, NEW r \in Nat, InOrder(o, r), MayFollow(p, o, r)
  PROVE  /\ InOrder(Append(o, p), r)
         /\ Append(o, p) \in Seq(Nat) /\ LastOf(Append(o, p)) = p
         /\ \A m \in Nat : p <= m /\ (\A i \in 1 .. Len(o) : o[i] <= m) =>
               \A i \in 1 .. Len(Append(o, p)) : Append(o, p)[i] <= m
<1>. DEFINE q == Append(o, p)
<1>1. /\ q \in Seq(Nat) /\ q # <<>> /\ Len(q) = Len(o) + 1 /\ q[Len(o) + 1] = p
      /\ \A i \in 1 .. Len(o) : q[i] = o[i]
  BY AppendProperties
<1>2. Len(o) \in Nat /\ (o = <<>> <=> Len(o) = 0)
  BY LenProperties, EmptySeq
<1>. HIDE DEF q
<1>3. LastOf(q) = p
  BY <1>1 DEF LastOf
<1>4. ASSUME NEW i \in 1 .. Len(q)
      PROVE  LET before == IF i = 1 THEN 0 ELSE q[i - 1]
             IN  q[i] > before /\ \A e \in 1 .. r : q[i] = TailOf(e) => before = HeadOf(e)
  <2>1. CASE i <= Len(o)
    <3>1. i \in 1 .. Len(o) /\ (i # 1 => i - 1 \in 1 .. Len(o))
      BY <1>2, <2>1
    <3>2. q[i] = o[i] /\ (i # 1 => q[i - 1] = o[i - 1])
      BY <1>1, <3>1
    <3>. QED  BY <3>1, <3>2 DEF InOrder
  <2>2. CASE i = Len(o) + 1
    <3>1. (IF i = 1 THEN 0 ELSE q[i - 1]) = LastOf(o)
      <4>1. CASE o = <<>>
        BY <1>2, <2>2, <4>1 DEF LastOf
      <4>2. CASE o # <<>>
        <5>1. i # 1 /\ i - 1 = Len(o) /\ Len(o) \in 1 .. Len(o)
          BY <1>2, <2>2, <4>2
        <5>. QED  BY <1>1, <4>2, <5>1 DEF LastOf
      <4>. QED  BY <4>1, <4>2
    <3>2. q[i] = p
      BY <1>1, <2>2
    <3>. QED  BY <3>1, <3>2 DEF MayFollow
  <2>. QED  BY <1>1, <1>2, <2>1, <2>2
<1>5. ASSUME NEW m \in Nat, p <= m, \A i \in 1 .. Len(o) : o[i] <= m, NEW i \in 1 .. Len(q)
      PROVE  q[i] <= m
  BY <1>1, <1>2, <1>5
<1>. QED  BY <1>1, <1>3, <1>4, <1>5 DEF InOrder, q

LEMMA Pair ==
  ASSUME NEW a \in Nat, NEW b \in Nat
  PROVE  <<a>> \o <<b>> = <<a, b>>
<1>1. <<a>> \in Seq(Nat) /\ <<b>> \in Seq(Nat) /\ <<a, b>> \in Seq(Nat)
      /\ Len(<<a>>) = 1 /\ Len(<<b>>) = 1 /\ Len(<<a, b>>) = 2
  OBVIOUS
<1>2. /\ <<a>> \o <<b>> \in Seq(Nat) /\ Len(<<a>> \o <<b>>) = 2
      /\ (<<a>> \o <<b>>)[1] = a /\ (<<a>> \o <<b>>)[2] = b
  BY <1>1, ConcatProperties
<1>3. <<a, b>>[1] = a /\ <<a, b>>[2] = b
  OBVIOUS
<1>. DEFINE s == <<a>> \o <<b>>
            t == <<a, b>>
<1>4. s \in Seq(Nat) /\ t \in Seq(Nat) /\ Len(s) = Len(t) /\ Len(s) = 2
      /\ s[1] = t[1] /\ s[2] = t[2]
  BY <1>1, <1>2, <1>3
<1>. HIDE DEF s, t
<1>5. \A i \in 1 .. Len(s) : s[i] = t[i]
  BY <1>4
<1>6. s = t
  BY <1>4, <1>5, SeqEqual
<1>. QED  BY <1>6 DEF s, t

LEMMA WriteSomeInOrder ==
  ASSUME TypeOK, Sending, WriteSome
  PROVE  Sending'
<1>1. replies \in Nat
  BY TcpSocketAssumption DEF TypeOK
<1>2. /\ replies > 0 /\ writing /\ writing' = FALSE /\ replies' = replies
      /\ read' = read /\ unread' = unread \o Written
  BY <1>1 DEF WriteSome, Sending, Numbered
<1>3. HeadOf(replies) \in Nat /\ TailOf(replies) \in Nat
  BY <1>1, <1>2 DEF HeadOf, TailOf
<1>. DEFINE o == Outgoing
            withHead == Append(o, HeadOf(replies))
            withBoth == Append(withHead, TailOf(replies))
<1>4. o \in Seq(Nat) /\ InOrder(o, replies)
  BY ConcatProperties DEF Outgoing, TypeOK, Sending, SentInOrder, InOrder
<1>5. \A i \in 1 .. Len(o) : o[i] \in Nat /\ o[i] <= 2 * replies - 2
  <2>1. \A i \in 1 .. Len(o) : o[i] \in Nat
    BY <1>4, ElementOfSeq
  <2>2. LastWritten = replies - 1
    BY <1>2 DEF LastWritten
  <2>. QED  BY <1>1, <2>1, <2>2 DEF Sending, UpToLast, TailOf
<1>6. LastOf(o) \in Nat /\ LastOf(o) <= 2 * replies - 2
  <2>1. o # <<>> => Len(o) \in 1 .. Len(o)
    BY <1>4, LenProperties, EmptySeq
  <2>. QED  BY <1>1, <1>2, <1>5, <2>1 DEF LastOf
<1>7. MayFollow(HeadOf(replies), o, replies)
  BY <1>1, <1>2, <1>6 DEF MayFollow, HeadOf, TailOf
<1>. HIDE DEF o
<1>8. /\ InOrder(withHead, replies) /\ withHead \in Seq(Nat)
      /\ LastOf(withHead) = HeadOf(replies)
      /\ \A i \in 1 .. Len(withHead) : withHead[i] <= TailOf(replies)
  <2>1. /\ HeadOf(replies) <= TailOf(replies)
        /\ \A i \in 1 .. Len(o) : o[i] <= TailOf(replies)
    BY <1>1, <1>5 DEF HeadOf, TailOf
  <2>. QED  BY <1>1, <1>3, <1>4, <1>7, <2>1, PieceFollows
<1>. HIDE DEF withHead
<1>9. MayFollow(TailOf(replies), withHead, replies)
  BY <1>1, <1>2, <1>8 DEF MayFollow, HeadOf, TailOf
<1>10. /\ InOrder(withBoth, replies)
       /\ \A i \in 1 .. Len(withBoth) : withBoth[i] <= TailOf(replies)
  <2>1. TailOf(replies) <= TailOf(replies)
    BY <1>3
  <2>. QED  BY <1>1, <1>3, <1>8, <1>9, <2>1, PieceFollows
<1>. HIDE DEF withBoth
<1>11. Outgoing' = withHead \/ Outgoing' = withBoth
  <2>1. Outgoing' = (read \o unread) \o Written
    <3>1. Written \in Seq(Nat)
      BY <1>3 DEF Written
    <3>2. read \in Seq(Nat) /\ unread \in Seq(Nat)
      BY DEF TypeOK
    <3>3. (read \o unread) \o Written = read \o (unread \o Written)
      BY <3>1, <3>2, ConcatAssociative
    <3>. QED  BY <1>2, <3>3, Zenon DEF Outgoing
  <2>2. withHead = o \o <<HeadOf(replies)>>
    BY <1>3, <1>4, AppendIsConcat DEF withHead
  <2>3. CASE Written = <<HeadOf(replies)>>
    BY <2>1, <2>2, <2>3, Zenon DEF o, Outgoing
  <2>4. CASE Written = <<HeadOf(replies), TailOf(replies)>>
    <3>1. withBoth = withHead \o <<TailOf(replies)>>
      BY <1>3, <1>8, AppendIsConcat DEF withBoth
    <3>2. <<HeadOf(replies)>> \in Seq(Nat) /\ <<TailOf(replies)>> \in Seq(Nat)
      BY <1>3
    <3>3. withBoth = o \o (<<HeadOf(replies)>> \o <<TailOf(replies)>>)
      BY <1>4, <2>2, <3>1, <3>2, ConcatAssociative
    <3>4. <<HeadOf(replies)>> \o <<TailOf(replies)>> = <<HeadOf(replies), TailOf(replies)>>
      BY <1>3, Pair
    <3>. QED  BY <2>1, <2>4, <3>3, <3>4, Zenon DEF o, Outgoing
  <2>. QED  BY <2>3, <2>4 DEF Written
<1>12. LastWritten' = replies
  BY <1>2 DEF LastWritten
<1>13. InOrder(Outgoing', replies) /\ \A i \in 1 .. Len(Outgoing') : Outgoing'[i] <= TailOf(replies)
  BY <1>8, <1>10, <1>11
<1>14. SentInOrder'
  BY <1>2, <1>13 DEF SentInOrder, InOrder
<1>15. UpToLast' /\ Numbered'
  BY <1>2, <1>12, <1>13 DEF UpToLast, Numbered
<1>. QED  BY <1>14, <1>15 DEF Sending

LEMMA NextSending == TypeOK /\ Sending /\ [Next]_vars => Sending'
<1>. SUFFICES ASSUME TypeOK, Sending, [Next]_vars
              PROVE  Sending'
  OBVIOUS
<1>0. replies \in Nat
  BY TcpSocketAssumption DEF TypeOK
<1>1. CASE UNCHANGED sending
  BY <1>1 DEF sending, Sending, Numbered, UpToLast, SentInOrder, LastWritten, Outgoing
<1>2. CASE ClientReads
  <2>1. <<Head(unread)>> \o Tail(unread) = unread /\ Head(unread) \in Nat
        /\ Tail(unread) \in Seq(Nat)
    BY <1>2, HeadBeforeTail, HeadTailProperties DEF ClientReads, TypeOK
  <2>2. Append(read, Head(unread)) = read \o <<Head(unread)>>
    BY <2>1, AppendIsConcat DEF TypeOK
  <2>3. Outgoing' = Outgoing
    <3>1. <<Head(unread)>> \in Seq(Nat) /\ read \in Seq(Nat)
      BY <2>1 DEF TypeOK
    <3>2. (read \o <<Head(unread)>>) \o Tail(unread) = read \o (<<Head(unread)>> \o Tail(unread))
      BY <2>1, <3>1, ConcatAssociative
    <3>. QED  BY <1>2, <2>1, <2>2, <3>2, Zenon DEF ClientReads, Outgoing
  <2>4. replies' = replies /\ writing' = writing
    BY <1>2 DEF ClientReads
  <2>. QED  BY <2>3, <2>4 DEF Sending, Numbered, UpToLast, SentInOrder, LastWritten
<1>3. CASE SendEvent
  <2>1. /\ replies' = replies + 1 /\ LastWritten' = LastWritten /\ LastWritten = replies
        /\ Outgoing' = Outgoing
    BY <1>0, <1>3 DEF SendEvent, LastWritten, Outgoing
  <2>2. SentInOrder'
    <3>. SUFFICES ASSUME NEW i \in 1 .. Len(Outgoing)
                  PROVE  LET before == IF i = 1 THEN 0 ELSE Outgoing[i - 1]
                         IN  /\ Outgoing[i] > before
                             /\ \A e \in 1 .. replies + 1 :
                                   Outgoing[i] = TailOf(e) => before = HeadOf(e)
      BY <2>1 DEF SentInOrder
    <3>1. Outgoing[i] <= TailOf(replies)
      BY <2>1 DEF Sending, UpToLast
    <3>2. \A e \in 1 .. replies + 1 : e \in 1 .. replies \/ TailOf(e) > TailOf(replies)
      BY <1>0 DEF TailOf
    <3>3. Outgoing \in Seq(Nat)
      BY ConcatProperties DEF Outgoing, TypeOK
    <3>4. Outgoing[i] \in Nat
      BY <3>3, ElementOfSeq
    <3>. QED  BY <1>0, <3>1, <3>2, <3>4 DEF Sending, SentInOrder, TailOf
  <2>. QED  BY <1>0, <2>1, <2>2 DEF Sending, Numbered, UpToLast
<1>4. CASE WriteSome
  BY <1>4, WriteSomeInOrder
<1>5. CASE WriteFails
  <2>1. /\ replies' = replies /\ Outgoing' = Outgoing /\ ~ writing'
        /\ LastWritten' = replies /\ LastWritten = replies - 1
    BY <1>5 DEF WriteFails, Outgoing, LastWritten
  <2>2. Outgoing \in Seq(Nat)
    BY ConcatProperties DEF Outgoing, TypeOK
  <2>3. \A i \in 1 .. Len(Outgoing) : Outgoing[i] \in Nat
    BY <2>2, ElementOfSeq
  <2>. QED  BY <1>0, <2>1, <2>3 DEF Sending, Numbered, UpToLast, SentInOrder, TailOf
<1>6. CASE ClientSends \/ ClientCloses \/ SyncReceive \/ NetworkThread \/ NetMachineBinds
           \/ Close
  BY <1>1, <1>6 DEF ClientSends, ClientCloses, SyncReceive, NetworkThread, Receive,
     ReceiveFails, AsyncReadCopies, AsyncReadHandsOn, AsyncReadThrows, AsyncReadReturns,
     NetMachineBinds, Close
<1>7. CASE UNCHANGED vars
  BY <1>1, <1>7 DEF vars
<1>. QED
  BY <1>2, <1>3, <1>4, <1>5, <1>6, <1>7 DEF Next, Write

-------------------------------------------------------------------------------
IInv == TypeOK /\ Receiving /\ Sending

(* In every state of every behaviour the inductive invariant holds.        *)
LEMMA Invariance == Spec => []IInv
<1>1. Init => IInv
  BY InitTypeOK, InitReceiving, InitSending DEF IInv
<1>2. IInv /\ [Next]_vars => IInv'
  BY NextTypeOK, NextReceiving, NextSending DEF IInv, Receiving, Sending
<1>. QED  BY <1>1, <1>2, PTL DEF Spec

(* Every variable of the socket keeps its type; in particular there are    *)
(* never more than two receives outstanding.                               *)
THEOREM TypeCorrect == Spec => []TypeOK
<1>1. IInv => TypeOK
  BY DEF IInv
<1>. QED  BY <1>1, Invariance, PTL

(* What SendEvent writes arrives in order, an event's tail right after its *)
(* head, whatever the room there was for each write_some.                  *)
THEOREM SendsInOrder == Spec => []SentInOrder
<1>1. IInv => SentInOrder
  BY DEF IInv, Sending
<1>. QED  BY <1>1, Invariance, PTL

(* The socket implements the channel: its first receive hands on whole     *)
(* events once and in order, two receives an event at most twice and never *)
(* an older one than the last, however the stream is cut and whatever      *)
(* mBuffer still holds.                                                    *)
THEOREM Refinement == Spec => ImplementsChannel
<1>1. Init => Promised!Init
  BY DEF Init, Promised!Init
<1>2. IInv /\ [Next]_vars => [Promised!Next]_(Promised!vars)
  <2>. SUFFICES ASSUME IInv, [Next]_vars
                PROVE  [Promised!Next]_(Promised!vars)
    OBVIOUS
  <2>. USE DEF Promised!vars
  <2>0. /\ TypeOK /\ Receiving /\ LastHead \in Nat /\ BeforeLast \in Nat
        /\ Promised!LastHead = LastHead
    BY HeadsAreNumbers DEF IInv, LastHead, Promised!LastHead
  <2>1. CASE ClientSends
    BY <2>1 DEF ClientSends, receiving, Promised!Next, Promised!Send
  <2>2. CASE SyncReceive
    <3>1. /\ owner = "login" /\ owner' = "engine" /\ sent' = sent
          /\ mBuffer = <<0, 0>> /\ handled = <<>>
      BY <2>0, <2>2 DEF SyncReceive, Receiving, Outstanding
    <3>2. CASE handled' = handled
      BY <3>1, <3>2
    <3>3. CASE handled' # handled
      <4>1. PICK n \in 1 .. BufferSize : Brings(n)
        BY <2>2, <3>3 DEF SyncReceive
      <4>2. PICK ent \in Parsed(mBuffer'[1], mBuffer'[2]) :
                   handled' = Append(handled, ent)
        BY <2>2, <3>3 DEF SyncReceive
      <4>3. /\ ent \in Ent /\ ent.head \in 1 .. sent /\ ent.tail \in 1 .. sent
            /\ mBuffer'[1] = HeadOf(ent.head) /\ mBuffer'[2] = TailOf(ent.tail)
        BY <2>0, <4>2, ParsedFacts
      <4>4. mBuffer'[2] = mBuffer'[1] + 1
        <5>1. mBuffer[2] # TailOf(ent.tail)
          BY <2>0, <3>1, <4>3 DEF TailOf, TypeOK
        <5>2. taken \in Nat /\ n \in Nat
          BY TcpSocketAssumption, <2>0 DEF TypeOK
        <5>3. /\ mBuffer'[1] = taken + 1
              /\ n > 1 => mBuffer'[2] = taken + 2
              /\ ~ (n > 1) => mBuffer'[2] = mBuffer[2]
          BY <2>0, <4>1, BringsFacts
        <5>4. mBuffer'[2] # mBuffer[2]
          BY <4>3, <5>1
        <5>. QED  BY <5>2, <5>3, <5>4
      <4>5. ent.head = ent.tail
        <5>1. sent \in Nat
          BY TcpSocketAssumption, <2>0 DEF TypeOK
        <5>2. ent.head \in Nat /\ ent.tail \in Nat /\ HeadOf(ent.head) + 1 = TailOf(ent.tail)
          BY <4>3, <4>4, <5>1
        <5>. QED  BY <5>2 DEF HeadOf, TailOf
      <4>6. ent = [head |-> ent.head, tail |-> ent.head]
        BY <4>3, <4>5 DEF Ent
      <4>7. ent.head > LastHead
        BY <3>1, <4>3 DEF LastHead
      <4>8. Promised!HandOn(ent.head, ent.head)
        BY <3>1, <4>2, <4>6 DEF Promised!HandOn
      <4>. QED  BY <2>0, <3>1, <4>3, <4>7, <4>8 DEF Promised!Next, Promised!HandOnWhole
    <3>. QED  BY <3>2, <3>3
  <2>3. CASE AsyncReadHandsOn
    <3>1. /\ copied # <<>> /\ owner' = owner /\ sent' = sent /\ done # <<>>
      BY <2>0, <2>3 DEF AsyncReadHandsOn, AsyncReadReturns, Receiving, Outstanding
    <3>2. PICK ne \in Parsed(copied[1], mBuffer[2]) :
                 handled' = Append(handled, ne) /\ Head(done) > 1
      BY <2>3 DEF AsyncReadHandsOn, StrData
    <3>3. /\ ne \in Ent /\ ne.head \in 1 .. sent /\ ne.tail \in 1 .. sent
          /\ copied[1] = HeadOf(ne.head) /\ mBuffer[2] = TailOf(ne.tail)
      BY <2>0, <3>2, ParsedFacts
    <3>4. ne = [head |-> ne.head, tail |-> ne.tail]
      BY <3>3 DEF Ent
    <3>5. Promised!HandOn(ne.head, ne.tail)
      BY <3>1, <3>2, <3>4, Zenon DEF Promised!HandOn
    <3>6. mBuffer[1] \in Nat /\ mBuffer[2] \in Nat /\ sent \in Nat
      BY <2>0 DEF TypeOK
    <3>7. CASE owner = "engine"
      <4>1. /\ mBuffer[2] = mBuffer[1] + 1 /\ copied[1] = mBuffer[1]
            /\ HeadOf(LastHead) < mBuffer[1]
        BY <2>0, <3>1, <3>2, <3>7 DEF Receiving, Unshared
      <4>2. ne.head = ne.tail /\ ne.head > LastHead
        BY <2>0, <3>3, <3>6, <4>1 DEF HeadOf, TailOf
      <4>. QED  BY <2>0, <3>3, <3>5, <3>7, <4>2 DEF Promised!Next, Promised!HandOnWhole
    <3>8. CASE owner = "machine"
      <4>1. HeadOf(LastHead) <= HeadOf(ne.head) /\ HeadOf(ne.head) <= mBuffer[1]
        BY <2>0, <3>1, <3>3 DEF Receiving, Forward
      <4>2. ne.head >= LastHead
        BY <2>0, <3>3, <3>6, <4>1 DEF HeadOf
      <4>3. ASSUME Len(handled) > 1, handled[Len(handled) - 1].head = ne.head
            PROVE  FALSE
        <5>1. BeforeLast = ne.head /\ LastHead = ne.head
          BY <2>0, <3>3, <3>6, <4>2, <4>3 DEF BeforeLast, Receiving, AtMostTwice
        <5>2. mBuffer[1] = HeadOf(LastHead)
          BY <2>0, <3>1, <3>3, <3>6, <4>1, <5>1 DEF Receiving, Forward, HeadOf
        <5>3. handled # <<>>
          BY <4>3, EmptySeq
        <5>. QED  BY <2>0, <3>1, <5>1, <5>2, <5>3 DEF Receiving, AtMostTwice
      <4>. QED  BY <2>0, <3>3, <3>5, <3>8, <4>2, <4>3
                DEF Promised!Next, Promised!HandOnMixed
    <3>. QED  BY <2>0, <3>1, <3>7, <3>8 DEF TypeOK, Receiving, Outstanding
  <2>4. CASE NetMachineBinds
    BY <2>4 DEF NetMachineBinds, Promised!Next, Promised!Double
  <2>5. CASE ClientReads \/ ClientCloses \/ Receive \/ ReceiveFails \/ AsyncReadCopies
             \/ AsyncReadThrows \/ Close \/ SendEvent \/ Write
    BY <2>5 DEF ClientReads, ClientCloses, Receive, ReceiveFails, AsyncReadCopies,
       AsyncReadThrows, AsyncReadReturns, Close, SendEvent, Write, WriteSome, WriteFails,
       receiving
  <2>6. CASE UNCHANGED vars
    BY <2>6 DEF vars, receiving
  <2>. QED  BY <2>1, <2>2, <2>3, <2>4, <2>5, <2>6 DEF Next, NetworkThread
<1>. QED  BY <1>1, <1>2, Invariance, PTL DEF Spec, ImplementsChannel, Promised!Spec
===============================================================================

-------------------------- MODULE DataBaseMongoProofs --------------------------
(***************************************************************************)
(* What holds of the documents whatever the accounts, the characters and   *)
(* the number of logins and requests, and whenever the connection breaks.  *)
(***************************************************************************)
EXTENDS DataBaseMongo, DataLemmas

-------------------------------------------------------------------------------
(* Min and Max are what they are named for. *)

LEMMA MinOfNumbers ==
  ASSUME NEW S \in SUBSET Nat, S # {}
  PROVE  Min(S) \in S /\ \A n \in S : Min(S) <= n
BY LeastNumber DEF Min

LEMMA MaxOfNumbers ==
  ASSUME NEW S \in SUBSET Nat, S # {}, IsFiniteSet(S)
  PROVE  Max(S) \in S /\ \A n \in S : Max(S) >= n
BY GreatestNumber DEF Max

-------------------------------------------------------------------------------
(* The invariant.                                                          *)

Online == [online : BOOLEAN]
Created == [acctid : Account, name : Nick]

(* An account's document is what it was, until its WELCOME is handled;     *)
(* from then on it has lost its fields, if the update could arrive.        *)
AccountsInv ==
    /\ DOMAIN accounts = Account
    /\ \A a \in Account : accounts[a] = AccountDoc(a) \/ accounts[a] \in Online
    /\ \A a \in Account \ welcomed : accounts[a] = AccountDoc(a)
    /\ link = "up" => \A a \in welcomed : accounts[a] \in Online

(* Only the old characters have an id, which is their key. *)
CharactersInv ==
    /\ DOMAIN characters \in SUBSET Nat /\ IsFiniteSet(DOMAIN characters)
    /\ 0 \notin DOMAIN characters
    /\ \A i \in DOMAIN characters :
          \/ characters[i] \in Old /\ characters[i].id = i
          \/ characters[i] \in Created \cup Online
    /\ CharactersIntact

(* An account's first WELCOME is before anything its machines ask for.     *)
Announced(queue, done, a, n) ==
    \/ a \in done
    \/ \E j \in 1 .. Len(queue) :
          j < n /\ queue[j].type = "WELCOME" /\ queue[j].acct = a

FirstPlayer == [type : {"DEL_PLAYER"}, player : {PlayerID}]
DbEvent == AuthEvent \cup StateEvent \cup CharacterEvent \cup FirstPlayer

QueueInv ==
    /\ dbQueue \in Seq(DbEvent)
    /\ \A i \in 1 .. Len(dbQueue) :
          dbQueue[i].type = "REMOVE_MACHINE" => Announced(dbQueue, welcomed, dbQueue[i].acct, i)
    /\ \A a \in Account : machines[a] > 0 => Announced(dbQueue, welcomed, a, Len(dbQueue) + 1)

RestInv ==
    /\ answers \in Seq(Account)
    /\ machines \in [Account -> Nat]
    /\ link \in {"up", "broken", "failed"}
    /\ thread \in {"runs", "dead", "crashed"}
    /\ logins \in 0 .. MaxLogin
    /\ requests \in 0 .. MaxRequest
    /\ welcomed \subseteq Account

IInv == AccountsInv /\ CharactersInv /\ QueueInv /\ RestInv

-------------------------------------------------------------------------------
(* Documents.                                                              *)

LEMMA AccountDocs ==
  ASSUME NEW a \in Account
  PROVE  /\ {"id", "name"} \subseteq DOMAIN AccountDoc(a)
         /\ AccountDoc(a)["id"] = a /\ AccountDoc(a)["name"] = a
         /\ AccountDoc(a).password = "right"
         /\ AccountDoc(a) \in [id : Account, name : Account, password : {"right"},
                               online : BOOLEAN]
BY DEF AccountDoc

LEMMA OnlineDocs ==
  ASSUME NEW d \in Online
  PROVE  "id" \notin DOMAIN d /\ "name" \notin DOMAIN d
BY DEF Online

LEMMA OldDocs ==
  ASSUME NEW c \in Old
  PROVE  /\ c.id \in Nat /\ c.id # 0 /\ c["id"] = c.id /\ {"id", "name"} \subseteq DOMAIN c
         /\ c["name"] = c.name
         /\ c \in [id : Nat, acctid : Account, name : Nick]
BY DataBaseMongoAssumption

LEMMA CreatedDocs ==
  ASSUME NEW d \in Created
  PROVE  "id" \notin DOMAIN d
BY DEF Created

(* A query for an account by its id or its name finds its document, as     *)
(* long as that has both, and no other.                                    *)
LEMMA FindsAccount ==
  ASSUME AccountsInv, NEW a, NEW f \in {"id", "name"}
  PROVE  /\ \A b \in Matching(accounts, f, a) : b = a /\ b \in Account /\ accounts[b] = AccountDoc(b)
         /\ a \in Account /\ accounts[a] = AccountDoc(a) => a \in Matching(accounts, f, a)
<1>1. ASSUME NEW b \in Matching(accounts, f, a)
      PROVE  b = a /\ b \in Account /\ accounts[b] = AccountDoc(b)
  <2>1. b \in Account /\ f \in DOMAIN accounts[b] /\ accounts[b][f] = a
    BY DEF Matching, AccountsInv
  <2>2. accounts[b] = AccountDoc(b)
    BY <2>1, OnlineDocs DEF AccountsInv
  <2>. QED  BY <2>1, <2>2, AccountDocs
<1>2. ASSUME a \in Account, accounts[a] = AccountDoc(a)
      PROVE  a \in Matching(accounts, f, a)
  BY <1>2, AccountDocs DEF Matching, AccountsInv
<1>. QED  BY <1>1, <1>2

LEMMA FirstAccount ==
  ASSUME AccountsInv, NEW a, NEW f \in {"id", "name"}, Matching(accounts, f, a) # {}
  PROVE  /\ FirstOf(Matching(accounts, f, a)) = a
         /\ a \in Account /\ accounts[a] = AccountDoc(a)
<1>. DEFINE S == Matching(accounts, f, a)
<1>1. \A b \in S : b = a /\ b \in Account /\ accounts[b] = AccountDoc(b)
  BY FindsAccount
<1>2. S \in SUBSET Nat /\ S # {}
  BY <1>1, DataBaseMongoAssumption
<1>3. Min(S) \in S
  <2>. HIDE DEF S
  <2>. QED  BY <1>2, MinOfNumbers
<1>. QED  BY <1>1, <1>3 DEF FirstOf

LEMMA AccountUpdated ==
  ASSUME AccountsInv, NEW a \in Account, NEW o \in BOOLEAN,
         accounts' = Updated(accounts, Matching(accounts, "id", a), [online |-> o])
  PROVE  /\ DOMAIN accounts' = Account
         /\ accounts'[a] \in Online
         /\ \A b \in Account : b # a => accounts'[b] = accounts[b]
<1>. DEFINE found == Matching(accounts, "id", a)
<1>0. [online |-> o] \in Online /\ DOMAIN accounts = Account
  BY DEF Online, AccountsInv
<1>1. CASE found = {}
  <2>1. accounts' = accounts
    BY <1>1 DEF Updated
  <2>2. accounts[a] # AccountDoc(a)
    BY <1>1, FindsAccount
  <2>. QED  BY <2>1, <2>2 DEF AccountsInv
<1>2. CASE found # {}
  <2>1. FirstOf(found) = a
    BY <1>2, FirstAccount
  <2>2. accounts' = [accounts EXCEPT ![a] = [online |-> o]]
    BY <1>2, <2>1 DEF Updated, Replaced
  <2>. QED  BY <1>0, <2>2
<1>. QED  BY <1>1, <1>2

(* A query for a character by its number finds at most one, an old one.    *)
LEMMA FindsNumber ==
  ASSUME CharactersInv, NEW id, NEW i \in Numbered(id)
  PROVE  /\ i = id /\ i \in DOMAIN characters /\ i # 0
         /\ characters[i] \in Old /\ characters[i].id = i
<1>1. i \in DOMAIN characters /\ "id" \in DOMAIN characters[i] /\ characters[i]["id"] = id
  BY DEF Numbered, Matching
<1>2. characters[i] \notin Created \cup Online
  BY <1>1, OnlineDocs, CreatedDocs
<1>3. characters[i] \in Old /\ characters[i].id = i
  BY <1>1, <1>2 DEF CharactersInv
<1>. QED  BY <1>1, <1>3, OldDocs DEF CharactersInv

LEMMA FirstCharacter ==
  ASSUME CharactersInv, NEW S \in SUBSET DOMAIN characters, S # {}
  PROVE  FirstOf(S) \in S
BY MinOfNumbers DEF CharactersInv, FirstOf

(* What the number of a character found by its name is. *)
LEMMA NumberOf ==
  ASSUME CharactersInv, NEW i \in DOMAIN characters
  PROVE  LET id == IntField(characters[i], "id")
         IN  id = NoField \/ (id = i /\ characters[i] \in Old)
<1>1. CASE characters[i] \in Old /\ characters[i].id = i
  BY <1>1, OldDocs DEF IntField
<1>2. CASE characters[i] \in Created \cup Online
  BY <1>2, OnlineDocs, CreatedDocs DEF IntField
<1>. QED  BY <1>1, <1>2 DEF CharactersInv
-------------------------------------------------------------------------------
(* The queue.                                                              *)

LEMMA HeadEvent ==
  ASSUME QueueInv, dbQueue # <<>>
  PROVE  /\ Event \in DbEvent /\ Event = dbQueue[1] /\ 1 \in 1 .. Len(dbQueue)
         /\ Tail(dbQueue) \in Seq(DbEvent) /\ Len(dbQueue) \in Nat
         /\ Len(Tail(dbQueue)) = Len(dbQueue) - 1
         /\ \A i \in 1 .. Len(Tail(dbQueue)) :
               i + 1 \in 1 .. Len(dbQueue) /\ Tail(dbQueue)[i] = dbQueue[i + 1]
BY TailElements DEF QueueInv, Event

LEMMA EventFields ==
  ASSUME NEW e \in DbEvent
  PROVE  /\ e.type \in {"WELCOME", "REMOVE_MACHINE"} => e.acct \in Account
         /\ e.type \in {"CREATE_CHARACTER", "DELETE_CHARACTER"} => e.acct \in Account /\ e.nick \in Nick
         /\ e.type = "DEL_PLAYER" => e.player = PlayerID
BY DEF DbEvent, AuthEvent, StateEvent, CharacterEvent, FirstPlayer

LEMMA QueueTail ==
  ASSUME QueueInv, dbQueue # <<>>, dbQueue' = Tail(dbQueue), machines' = machines,
         welcomed' = IF Event.type = "WELCOME" THEN welcomed \cup {Event.acct} ELSE welcomed
  PROVE  QueueInv'
<1>1. ASSUME NEW a, NEW n \in Nat, n >= 1, Announced(dbQueue, welcomed, a, n + 1)
      PROVE  Announced(dbQueue', welcomed', a, n)
  <2>1. CASE a \in welcomed
    BY <2>1 DEF Announced
  <2>2. ASSUME NEW j \in 1 .. Len(dbQueue), j < n + 1, dbQueue[j].type = "WELCOME",
               dbQueue[j].acct = a
        PROVE  Announced(dbQueue', welcomed', a, n)
    <3>1. CASE j = 1
      BY <2>2, <3>1, HeadEvent DEF Announced
    <3>2. CASE j # 1
      <4>1. j - 1 \in 1 .. Len(dbQueue') /\ (j - 1) + 1 = j /\ j - 1 < n
        BY <2>2, <3>2, HeadEvent
      <4>2. dbQueue'[j - 1] = dbQueue[j]
        BY <4>1, HeadEvent
      <4>. QED  BY <2>2, <4>1, <4>2 DEF Announced
    <3>. QED  BY <3>1, <3>2
  <2>. QED  BY <1>1, <2>1, <2>2 DEF Announced
<1>2. dbQueue' \in Seq(DbEvent)
  BY HeadEvent
<1>3. ASSUME NEW i \in 1 .. Len(dbQueue'), dbQueue'[i].type = "REMOVE_MACHINE"
      PROVE  Announced(dbQueue', welcomed', dbQueue'[i].acct, i)
  <2>1. /\ i + 1 \in 1 .. Len(dbQueue) /\ dbQueue'[i] = dbQueue[i + 1]
        /\ i \in Nat /\ i >= 1
    BY HeadEvent
  <2>2. Announced(dbQueue, welcomed, dbQueue[i + 1].acct, i + 1)
    BY <1>3, <2>1 DEF QueueInv
  <2>. QED  BY <1>1, <2>1, <2>2
<1>4. ASSUME NEW a \in Account, machines[a] > 0
      PROVE  Announced(dbQueue', welcomed', a, Len(dbQueue') + 1)
  <2>1. Announced(dbQueue, welcomed, a, Len(dbQueue) + 1)
    BY <1>4 DEF QueueInv
  <2>2. Len(dbQueue') + 1 = Len(dbQueue) /\ Len(dbQueue) \in Nat /\ Len(dbQueue) >= 1
    BY HeadEvent
  <2>. QED  BY <1>1, <2>1, <2>2
<1>. QED  BY <1>2, <1>3, <1>4 DEF QueueInv

LEMMA QueueAppend ==
  ASSUME QueueInv, NEW e \in DbEvent, dbQueue' = Append(dbQueue, e), welcomed' = welcomed,
         \A a \in Account : machines'[a] > 0 =>
             machines[a] > 0 \/ (e.type = "WELCOME" /\ e.acct = a),
         e.type = "REMOVE_MACHINE" => machines[e.acct] > 0
  PROVE  QueueInv'
<1>0. /\ dbQueue' \in Seq(DbEvent) /\ Len(dbQueue) \in Nat
      /\ Len(dbQueue') = Len(dbQueue) + 1
      /\ \A i \in 1 .. Len(dbQueue) : dbQueue'[i] = dbQueue[i]
      /\ dbQueue'[Len(dbQueue) + 1] = e
  BY AppendProperties, LenProperties DEF QueueInv
<1>1. ASSUME NEW a, NEW n \in Nat, Announced(dbQueue, welcomed, a, n)
      PROVE  \A m \in Nat : m >= n => Announced(dbQueue', welcomed', a, m)
  <2>1. CASE a \in welcomed
    BY <2>1 DEF Announced
  <2>2. ASSUME NEW j \in 1 .. Len(dbQueue), j < n, dbQueue[j].type = "WELCOME",
               dbQueue[j].acct = a, NEW m \in Nat, m >= n
        PROVE  Announced(dbQueue', welcomed', a, m)
    <3>1. j \in 1 .. Len(dbQueue') /\ j < m /\ dbQueue'[j] = dbQueue[j]
      BY <1>0, <2>2
    <3>. QED  BY <2>2, <3>1 DEF Announced
  <2>. QED  BY <1>1, <2>1, <2>2 DEF Announced
<1>2. ASSUME NEW a \in Account, machines[a] > 0
      PROVE  \A m \in Nat : m > Len(dbQueue) => Announced(dbQueue', welcomed', a, m)
  <2>1. Announced(dbQueue, welcomed, a, Len(dbQueue) + 1)
    BY <1>2 DEF QueueInv
  <2>. QED  BY <1>0, <1>1, <2>1
<1>3. ASSUME NEW i \in 1 .. Len(dbQueue'), dbQueue'[i].type = "REMOVE_MACHINE"
      PROVE  Announced(dbQueue', welcomed', dbQueue'[i].acct, i)
  <2>1. CASE i \in 1 .. Len(dbQueue)
    <3>1. Announced(dbQueue, welcomed, dbQueue[i].acct, i)
      BY <1>0, <1>3, <2>1 DEF QueueInv
    <3>. QED  BY <1>0, <1>1, <2>1, <3>1
  <2>2. CASE i = Len(dbQueue) + 1
    <3>1. e.acct \in Account /\ machines[e.acct] > 0
      BY <1>0, <1>3, <2>2, EventFields
    <3>. QED  BY <1>0, <1>2, <2>2, <3>1
  <2>. QED  BY <1>0, <2>1, <2>2
<1>4. ASSUME NEW a \in Account, machines'[a] > 0
      PROVE  Announced(dbQueue', welcomed', a, Len(dbQueue') + 1)
  <2>1. CASE machines[a] > 0
    BY <1>0, <1>2, <2>1
  <2>2. CASE e.type = "WELCOME" /\ e.acct = a
    <3>1. Len(dbQueue) + 1 \in 1 .. Len(dbQueue') /\ Len(dbQueue) + 1 < Len(dbQueue') + 1
      BY <1>0
    <3>. QED  BY <1>0, <2>2, <3>1 DEF Announced
  <2>. QED  BY <1>4, <2>1, <2>2
<1>. QED  BY <1>0, <1>3, <1>4 DEF QueueInv

(* A machine's removal is handled after a WELCOME of its account.          *)
LEMMA RemovedIsWelcomed ==
  ASSUME QueueInv, dbQueue # <<>>, Event.type = "REMOVE_MACHINE"
  PROVE  Event.acct \in welcomed
<1>1. Announced(dbQueue, welcomed, dbQueue[1].acct, 1)
  BY HeadEvent DEF QueueInv
<1>. QED  BY <1>1, HeadEvent DEF Announced

-------------------------------------------------------------------------------
(* The steps.                                                              *)

NetworkStep == LogsIn \/ AcceptAuth \/ \E a \in Account : RemoveMachine(a) \/ AsksAboutCharacter(a)
HandlerStep ==
    \/ ProcessAuth \/ ProcessWelcome \/ ProcessRemoveMachine
    \/ ProcessCreateCharacter \/ ProcessDeleteCharacter \/ ProcessDelPlayer

LEMMA NextSplits == Next <=> NetworkStep \/ HandlerStep
BY DEF Next, NetworkStep, HandlerStep

LEMMA NetworkQueue == IInv /\ NetworkStep => QueueInv'
<1>. SUFFICES ASSUME IInv, NetworkStep PROVE QueueInv'
  OBVIOUS
<1>0. QueueInv /\ machines \in [Account -> Nat] /\ answers \in Seq(Account)
  BY DEF IInv, RestInv
<1>1. CASE LogsIn
  <2>1. PICK name \in Account \cup {Stranger}, pass \in {"right", "wrong"} :
           Ask([type |-> "AUTH", name |-> name, pass |-> pass])
    BY <1>1 DEF LogsIn
  <2>2. [type |-> "AUTH", name |-> name, pass |-> pass] \in DbEvent
    BY DEF DbEvent, AuthEvent
  <2>. QED  BY <1>0, <1>1, <2>1, <2>2, QueueAppend DEF LogsIn, Ask
<1>2. CASE AcceptAuth
  <2>0. answers # <<>>
    BY <1>2 DEF AcceptAuth
  <2>1. Head(answers) \in Account
    BY <1>0, <2>0, HeadTailProperties
  <2>2. [type |-> "WELCOME", acct |-> Head(answers)] \in DbEvent
    BY <2>1 DEF DbEvent, StateEvent
  <2>3. /\ dbQueue' = Append(dbQueue, [type |-> "WELCOME", acct |-> Head(answers)])
        /\ welcomed' = welcomed
        /\ machines' = [machines EXCEPT ![Head(answers)] = @ + 1]
    BY <1>2 DEF AcceptAuth, Ask
  <2>4. \A a \in Account : machines'[a] > 0 => machines[a] > 0 \/ Head(answers) = a
    BY <1>0, <2>1, <2>3
  <2>. QED  BY <1>0, <2>2, <2>3, <2>4, QueueAppend
<1>3. ASSUME NEW a \in Account, RemoveMachine(a)
      PROVE  QueueInv'
  <2>2. [type |-> "REMOVE_MACHINE", acct |-> a] \in DbEvent
    BY DEF DbEvent, StateEvent
  <2>3. /\ dbQueue' = Append(dbQueue, [type |-> "REMOVE_MACHINE", acct |-> a])
        /\ welcomed' = welcomed /\ machines[a] > 0
        /\ machines' = [machines EXCEPT ![a] = @ - 1]
    BY <1>3 DEF RemoveMachine, Ask
  <2>4. \A b \in Account : machines'[b] > 0 => machines[b] > 0
    BY <1>0, <2>3
  <2>. QED  BY <1>0, <2>2, <2>3, <2>4, QueueAppend
<1>4. ASSUME NEW a \in Account, AsksAboutCharacter(a)
      PROVE  QueueInv'
  <2>1. PICK e : /\ Ask(e)
                 /\ \/ \E t \in {"CREATE_CHARACTER", "DELETE_CHARACTER"}, n \in Nick :
                          e = [type |-> t, acct |-> a, nick |-> n]
                    \/ e = [type |-> "DEL_PLAYER", player |-> PlayerID]
    BY <1>4 DEF AsksAboutCharacter
  <2>2. e \in DbEvent /\ e.type # "REMOVE_MACHINE"
    BY <2>1 DEF DbEvent, CharacterEvent, FirstPlayer
  <2>3. machines' = machines
    BY <1>4 DEF AsksAboutCharacter
  <2>. QED  BY <1>0, <2>1, <2>2, <2>3, QueueAppend DEF Ask
<1>. QED  BY <1>1, <1>2, <1>3, <1>4 DEF NetworkStep

LEMMA HandlerQueue == IInv /\ HandlerStep => QueueInv'
<1>. SUFFICES ASSUME IInv, HandlerStep PROVE QueueInv'
  OBVIOUS
<1>1. CASE ProcessWelcome
  BY <1>1, QueueTail DEF ProcessWelcome, ProcessEvent, IInv
<1>2. CASE HandlerStep /\ ~ ProcessWelcome
  <2>1. /\ dbQueue # <<>> /\ dbQueue' = Tail(dbQueue) /\ machines' = machines
        /\ Event.type # "WELCOME" /\ welcomed' = welcomed
    BY <1>2 DEF HandlerStep, ProcessAuth, ProcessRemoveMachine, ProcessCreateCharacter,
       ProcessDeleteCharacter, ProcessDelPlayer, ProcessEvent
  <2>. QED  BY <2>1, QueueTail DEF IInv
<1>. QED  BY <1>1, <1>2
(* A message that does not arrive changes no document.                     *)
Fault == Unsaid \/ Unanswered \/ NextThrows

LEMMA Faults ==
  ASSUME RestInv, Fault
  PROVE  /\ accounts' = accounts /\ characters' = characters
         /\ link' \in {"up", "broken", "failed"} /\ thread' \in {"runs", "dead", "crashed"}
         /\ link' = "up" => link = "up"
         /\ Unsaid => link' # "up"
BY DEF RestInv, Fault, Unsaid, Lost, SocketException, Throws, NoCursor, Unanswered,
       NextThrows, Arrives, collections

LEMMA AccountsSame ==
  ASSUME AccountsInv, accounts' = accounts, welcomed' = welcomed, link' = "up" => link = "up"
  PROVE  AccountsInv'
BY DEF AccountsInv

LEMMA CharactersSame ==
  ASSUME CharactersInv, characters' = characters
  PROVE  CharactersInv'
BY DEF CharactersInv, CharactersIntact

LEMMA NetworkDocuments == IInv /\ NetworkStep => AccountsInv' /\ CharactersInv'
<1>. SUFFICES ASSUME IInv, NetworkStep PROVE AccountsInv' /\ CharactersInv'
  OBVIOUS
<1>1. /\ accounts' = accounts /\ characters' = characters /\ welcomed' = welcomed
      /\ link' = link
  BY DEF NetworkStep, LogsIn, AcceptAuth, RemoveMachine, AsksAboutCharacter, Ask, collections
<1>. QED  BY <1>1, AccountsSame, CharactersSame DEF IInv

(* The state of an account is changed at its WELCOME or after it.          *)
LEMMA StateChange ==
  ASSUME IInv, NEW a \in Account, Event.acct = a, NEW o \in BOOLEAN, ChangeAccountState(o),
         welcomed' = welcomed \cup {a}
  PROVE  AccountsInv'
<1>1. CASE Unsaid
  <2>1. accounts' = accounts /\ link' # "up"
    BY <1>1, Faults DEF Fault, IInv
  <2>. QED  BY <2>1 DEF IInv, AccountsInv
<1>2. CASE Arrives /\ accounts' = Updated(accounts, Matching(accounts, "id", Event.acct),
                                          [online |-> o])
  <2>1. /\ DOMAIN accounts' = Account
        /\ accounts'[a] \in Online
        /\ \A b \in Account : b # a => accounts'[b] = accounts[b]
    BY <1>2, AccountUpdated DEF IInv
  <2>2. link' = "up" => link = "up"
    BY <1>2 DEF Arrives
  <2>. QED  BY <2>1, <2>2 DEF IInv, AccountsInv, RestInv
<1>. QED  BY <1>1, <1>2 DEF ChangeAccountState

LEMMA HandlerAccounts == IInv /\ HandlerStep => AccountsInv'
<1>. SUFFICES ASSUME IInv, HandlerStep PROVE AccountsInv'
  OBVIOUS
<1>0. AccountsInv /\ RestInv /\ QueueInv
  BY DEF IInv
<1>1. CASE ProcessWelcome
  <2>1. Event.acct \in Account
    BY <1>0, <1>1, HeadEvent, EventFields DEF ProcessWelcome, ProcessEvent
  <2>. QED  BY <1>1, <2>1, StateChange DEF ProcessWelcome
<1>2. CASE ProcessRemoveMachine
  <2>1. Event.acct \in Account /\ Event.acct \in welcomed
    BY <1>0, <1>2, HeadEvent, EventFields, RemovedIsWelcomed
       DEF ProcessRemoveMachine, ProcessEvent
  <2>2. welcomed' = welcomed \cup {Event.acct}
    BY <1>2, <2>1 DEF ProcessRemoveMachine
  <2>. QED  BY <1>2, <2>1, <2>2, StateChange DEF ProcessRemoveMachine
<1>3. CASE ProcessAuth \/ ProcessCreateCharacter \/ ProcessDeleteCharacter \/ ProcessDelPlayer
  <2>1. welcomed' = welcomed
    BY <1>3 DEF ProcessAuth, ProcessCreateCharacter, ProcessDeleteCharacter, ProcessDelPlayer
  <2>2. Fault \/ (Arrives /\ accounts' = accounts)
    BY <1>3 DEF ProcessAuth, ProcessCreateCharacter, ProcessDeleteCharacter,
       ProcessDelPlayer, Fault, collections
  <2>3. accounts' = accounts /\ (link' = "up" => link = "up")
    BY <1>0, <2>2, Faults DEF Arrives
  <2>. QED  BY <1>0, <2>1, <2>3, AccountsSame
<1>. QED  BY <1>1, <1>2, <1>3 DEF HandlerStep
(* The number a new character's document gets is nobody's.                 *)
LEMMA NumbersOfOld == IsFiniteSet({c.id : c \in Old}) /\ {c.id : c \in Old} \in SUBSET Nat
<1>. DEFINE ids == {c.id : c \in Old}
            f == [i \in ids |-> CHOOSE c \in Old : c.id = i]
<1>1. \A i \in ids : f[i] \in Old /\ f[i].id = i
  OBVIOUS
<1>2. f \in Injection(ids, Old)
  BY <1>1 DEF Injection, IsInjective
<1>3. IsFiniteSet(ids)
  BY <1>2, FS_Injection, DataBaseMongoAssumption
<1>. QED  BY <1>3, DataBaseMongoAssumption

LEMMA NextOIDIsNew ==
  ASSUME CharactersInv
  PROVE  /\ NextOID \in Nat /\ NextOID # 0
         /\ NextOID \notin DOMAIN characters
         /\ \A c \in Old : c.id # NextOID
<1>. DEFINE S == {0} \cup DOMAIN characters \cup {c.id : c \in Old}
<1>1. S \in SUBSET Nat /\ S # {} /\ IsFiniteSet(S)
  <2>1. IsFiniteSet({0}) /\ IsFiniteSet(DOMAIN characters)
    BY FS_Singleton DEF CharactersInv
  <2>2. IsFiniteSet({0} \cup DOMAIN characters)
    BY <2>1, FS_Union
  <2>3. IsFiniteSet(S)
    BY <2>2, NumbersOfOld, FS_Union
  <2>. QED  BY <2>3, NumbersOfOld DEF CharactersInv
<1>2. Max(S) \in S /\ \A n \in S : Max(S) >= n
  <2>. HIDE DEF S
  <2>. QED  BY <1>1, MaxOfNumbers
<1>3. NextOID = 1 + Max(S)
  BY DEF NextOID
<1>4. Max(S) \in Nat /\ NextOID \notin S /\ NextOID # 0
  <2>. HIDE DEF S
  <2>1. Max(S) \in Nat
    BY <1>1, <1>2
  <2>2. \A n \in S : n \in Nat /\ n # NextOID
    BY <1>1, <1>2, <1>3, <2>1
  <2>. QED  BY <1>3, <2>1, <2>2
<1>5. (\A i \in DOMAIN characters : i \in S) /\ (\A c \in Old : c.id \in S)
  OBVIOUS
<1>. HIDE DEF S
<1>6. NextOID \in Nat
  BY <1>3, <1>4
<1>. QED  BY <1>4, <1>5, <1>6

LEMMA CharacterCreated ==
  ASSUME CharactersInv, NEW d \in Created, NEW n \in Nat, n # 0, n \notin DOMAIN characters,
         \A c \in Old : c.id # n,
         characters' = [i \in DOMAIN characters \cup {n} |-> IF i = n THEN d ELSE characters[i]]
  PROVE  CharactersInv'
<1>1. DOMAIN characters' = DOMAIN characters \cup {n}
  OBVIOUS
<1>2. IsFiniteSet(DOMAIN characters')
  BY <1>1, FS_AddElement DEF CharactersInv
<1>3. \A i \in DOMAIN characters' : characters'[i] = IF i = n THEN d ELSE characters[i]
  BY <1>1
<1>4. \A i \in DOMAIN characters' :
         \/ characters'[i] \in Old /\ characters'[i].id = i
         \/ characters'[i] \in Created \cup Online
  BY <1>1, <1>3 DEF CharactersInv
<1>5. \A c \in Old : c.id \in DOMAIN characters' /\ c.id # PlayerID => characters'[c.id] = c
  BY <1>1, <1>3 DEF CharactersInv, CharactersIntact
<1>. QED  BY <1>1, <1>2, <1>4, <1>5 DEF CharactersInv, CharactersIntact

LEMMA CharactersDeleted ==
  ASSUME CharactersInv, NEW S, characters' = Without(characters, S)
  PROVE  CharactersInv'
<1>1. DOMAIN characters' = DOMAIN characters \ S
  BY DEF Without
<1>2. DOMAIN characters' \in SUBSET DOMAIN characters
  BY <1>1
<1>3. IsFiniteSet(DOMAIN characters')
  BY <1>2, FS_Subset DEF CharactersInv
<1>4. \A i \in DOMAIN characters' : characters'[i] = characters[i]
  BY <1>1 DEF Without
<1>. QED  BY <1>2, <1>3, <1>4 DEF CharactersInv, CharactersIntact

LEMMA PlayerUpdated ==
  ASSUME CharactersInv,
         characters' = Updated(characters, Numbered(PlayerID), [online |-> FALSE])
  PROVE  CharactersInv' /\ DOMAIN characters' = DOMAIN characters
<1>. DEFINE found == Numbered(PlayerID)
<1>0. [online |-> FALSE] \in Online
  BY DEF Online
<1>1. CASE found = {}
  <2>1. characters' = characters
    BY <1>1 DEF Updated
  <2>. QED  BY <2>1, CharactersSame
<1>2. CASE found # {}
  <2>1. \A i \in found : i = PlayerID /\ i \in DOMAIN characters
    BY FindsNumber
  <2>2. FirstOf(found) = PlayerID
    <3>1. FirstOf(found) \in found
      <4>1. found \in SUBSET DOMAIN characters
        BY <2>1
      <4>. HIDE DEF found
      <4>. QED  BY <1>2, <4>1, FirstCharacter
    <3>. QED  BY <2>1, <3>1
  <2>3. characters' = [characters EXCEPT ![PlayerID] = [online |-> FALSE]]
    BY <1>2, <2>2 DEF Updated, Replaced
  <2>4. /\ DOMAIN characters' = DOMAIN characters
        /\ \A i \in DOMAIN characters : i # PlayerID => characters'[i] = characters[i]
        /\ PlayerID \in DOMAIN characters => characters'[PlayerID] = [online |-> FALSE]
    BY <2>3
  <2>5. \A i \in DOMAIN characters' :
           \/ characters'[i] \in Old /\ characters'[i].id = i
           \/ characters'[i] \in Created \cup Online
    BY <1>0, <2>4 DEF CharactersInv
  <2>6. \A c \in Old : c.id \in DOMAIN characters' /\ c.id # PlayerID => characters'[c.id] = c
    BY <2>4 DEF CharactersInv, CharactersIntact
  <2>. QED  BY <2>4, <2>5, <2>6 DEF CharactersInv, CharactersIntact
<1>. QED  BY <1>1, <1>2

LEMMA HandlerCharacters == IInv /\ HandlerStep => CharactersInv'
<1>. SUFFICES ASSUME IInv, HandlerStep PROVE CharactersInv'
  OBVIOUS
<1>0. AccountsInv /\ CharactersInv /\ RestInv /\ QueueInv
  BY DEF IInv
<1>1. CASE Fault \/ (characters' = characters)
  BY <1>0, <1>1, Faults, CharactersSame
<1>2. CASE ProcessCreateCharacter /\ ~ Fault
  <2>1. /\ [acctid |-> Event.acct, name |-> Event.nick] \in Created
    BY <1>0, <1>2, HeadEvent, EventFields DEF ProcessCreateCharacter, ProcessEvent, Created
  <2>2. characters' = [i \in DOMAIN characters \cup {NextOID} |->
                          IF i = NextOID THEN [acctid |-> Event.acct, name |-> Event.nick]
                          ELSE characters[i]]
    BY <1>2 DEF ProcessCreateCharacter, Fault
  <2>. QED  BY <1>0, <2>1, <2>2, NextOIDIsNew, CharacterCreated
<1>3. CASE ProcessDeleteCharacter /\ ~ Fault
  <2>1. \E S : characters' = Without(characters, S)
    BY <1>3 DEF ProcessDeleteCharacter, Fault
  <2>. QED  BY <1>0, <2>1, CharactersDeleted
<1>4. CASE ProcessDelPlayer /\ ~ Fault
  <2>1. Event.player = PlayerID
    BY <1>0, <1>4, HeadEvent, EventFields DEF ProcessDelPlayer, ProcessEvent
  <2>2. characters' = Updated(characters, Numbered(PlayerID), [online |-> FALSE])
    BY <1>4, <2>1 DEF ProcessDelPlayer, Fault
  <2>. QED  BY <1>0, <2>2, PlayerUpdated
<1>5. CASE ProcessAuth \/ ProcessWelcome \/ ProcessRemoveMachine
  <2>1. Fault \/ characters' = characters
    BY <1>5 DEF ProcessAuth, ProcessWelcome, ProcessRemoveMachine, ChangeAccountState,
       Fault, collections
  <2>. QED  BY <1>1, <2>1
<1>. QED  BY <1>1, <1>2, <1>3, <1>4, <1>5 DEF HandlerStep
-------------------------------------------------------------------------------
(* The answers to logins.                                                  *)

(* A login is granted only for an account whose document is still there to *)
(* be found, which is never one whose WELCOME has been handled.            *)
LEMMA AuthAnswers ==
  ASSUME IInv, ProcessAuth
  PROVE  \/ answers' = answers
         \/ \E a \in Account \ welcomed : answers' = Append(answers, a)
<1>. DEFINE found == Matching(accounts, "name", Event.name)
            doc == accounts[FirstOf(found)]
<1>0. \/ Unanswered
      \/ NextThrows
      \/ /\ found # {} /\ Arrives
         /\ answers' = IF doc.password = Event.pass THEN Append(answers, IntField(doc, "id"))
                       ELSE answers
  BY DEF ProcessAuth
<1>1. CASE Unanswered \/ NextThrows
  BY <1>1 DEF Unanswered, NextThrows
<1>2. CASE /\ found # {} /\ Arrives
           /\ answers' = IF doc.password = Event.pass THEN Append(answers, IntField(doc, "id"))
                         ELSE answers
  <2>1. FirstOf(found) = Event.name /\ Event.name \in Account
        /\ accounts[Event.name] = AccountDoc(Event.name)
    BY <1>2, FirstAccount DEF IInv
  <2>2. IntField(doc, "id") = Event.name
    BY <2>1, AccountDocs DEF IntField
  <2>3. Event.name \notin welcomed
    BY <1>2, <2>1, AccountDocs, OnlineDocs DEF IInv, AccountsInv, Arrives
  <2>4. answers' = answers \/ answers' = Append(answers, IntField(doc, "id"))
    BY <1>2
  <2>. HIDE DEF doc
  <2>. QED  BY <2>1, <2>2, <2>3, <2>4
<1>. QED  BY <1>0, <1>1, <1>2

LEMMA AnswersStep ==
  ASSUME IInv, Next
  PROVE  \/ answers' = answers
         \/ answers # <<>> /\ answers' = Tail(answers)
         \/ \E a \in Account \ welcomed : answers' = Append(answers, a)
<1>1. CASE AcceptAuth
  BY <1>1 DEF AcceptAuth
<1>2. CASE ProcessAuth
  BY <1>2, AuthAnswers
<1>3. CASE ~ AcceptAuth /\ ~ ProcessAuth
  BY <1>3 DEF Next, LogsIn, RemoveMachine, AsksAboutCharacter, ProcessWelcome,
     ProcessRemoveMachine, ChangeAccountState, ProcessCreateCharacter,
     ProcessDeleteCharacter, ProcessDelPlayer, Unanswered, NextThrows
<1>. QED  BY <1>1, <1>2, <1>3

LEMMA AnswersTyped ==
  ASSUME IInv, Next
  PROVE  answers' \in Seq(Account)
<1>0. answers \in Seq(Account)
  BY DEF IInv, RestInv
<1>1. answers # <<>> => Tail(answers) \in Seq(Account)
  BY <1>0, HeadTailProperties
<1>2. \A a \in Account : Append(answers, a) \in Seq(Account)
  BY <1>0, AppendProperties
<1>. QED  BY <1>0, <1>1, <1>2, AnswersStep

LEMMA GrantedTail ==
  ASSUME NEW S, NEW q \in Seq(S), q # <<>>, NEW a
  PROVE  Cardinality({i \in 1 .. Len(Tail(q)) : Tail(q)[i] = a})
            <= Cardinality({i \in 1 .. Len(q) : q[i] = a})
<1>. DEFINE new == {i \in 1 .. Len(Tail(q)) : Tail(q)[i] = a}
            old == {i \in 1 .. Len(q) : q[i] = a}
            f == [i \in new |-> i + 1]
<1>1. \A i \in new : i \in Nat /\ i + 1 \in old
  BY TailElements
<1>2. f \in Injection(new, old)
  BY <1>1 DEF Injection, IsInjective
<1>3. IsFiniteSet(old)
  <2>1. IsFiniteSet(1 .. Len(q)) /\ old \in SUBSET (1 .. Len(q))
    BY FS_Interval, LenProperties
  <2>. QED  BY <2>1, FS_Subset
<1>. QED  BY <1>2, <1>3, FS_Injection

LEMMA GrantedAppend ==
  ASSUME NEW S, NEW q \in Seq(S), NEW b \in S, NEW a, a # b
  PROVE  {i \in 1 .. Len(Append(q, b)) : Append(q, b)[i] = a} = {i \in 1 .. Len(q) : q[i] = a}
<1>1. /\ Len(q) \in Nat /\ Len(Append(q, b)) = Len(q) + 1
      /\ \A i \in 1 .. Len(q) : Append(q, b)[i] = q[i]
      /\ Append(q, b)[Len(q) + 1] = b
  BY AppendProperties, LenProperties
<1>. QED  BY <1>1

LEMMA GrantedFinite ==
  ASSUME RestInv, NEW a
  PROVE  Granted(a) \in Nat
<1>1. IsFiniteSet(1 .. Len(answers))
  BY FS_Interval, LenProperties DEF RestInv
<1>2. IsFiniteSet({i \in 1 .. Len(answers) : answers[i] = a})
  BY <1>1, FS_Subset
<1>. QED  BY <1>2, FS_CardinalityType DEF Granted

LEMMA GrantedStep ==
  ASSUME IInv, Next, NEW a \in welcomed
  PROVE  Granted(a)' <= Granted(a)
<1>0. answers \in Seq(Account) /\ Granted(a) \in Nat
  BY GrantedFinite DEF IInv, RestInv
<1>1. CASE answers' = answers
  BY <1>0, <1>1 DEF Granted
<1>2. CASE answers # <<>> /\ answers' = Tail(answers)
  BY <1>0, <1>2, GrantedTail DEF Granted
<1>3. ASSUME NEW b \in Account \ welcomed, answers' = Append(answers, b)
      PROVE  Granted(a)' <= Granted(a)
  <2>1. {i \in 1 .. Len(answers') : answers'[i] = a} = {i \in 1 .. Len(answers) : answers[i] = a}
    BY <1>0, <1>3, GrantedAppend
  <2>2. Granted(a)' = Granted(a)
    BY <2>1 DEF Granted
  <2>. QED  BY <1>0, <2>2
<1>. QED  BY <1>1, <1>2, <1>3, AnswersStep

-------------------------------------------------------------------------------
(* The invariant holds.                                                    *)

LEMMA NetworkRest == IInv /\ NetworkStep => RestInv'
<1>. SUFFICES ASSUME IInv, NetworkStep PROVE RestInv'
  OBVIOUS
<1>0. RestInv /\ answers \in Seq(Account) /\ machines \in [Account -> Nat]
      /\ logins \in Nat /\ requests \in Nat /\ MaxLogin \in Nat /\ MaxRequest \in Nat
  BY DataBaseMongoAssumption DEF IInv, RestInv
<1>1. link' = link /\ thread' = thread /\ welcomed' = welcomed
  BY DEF NetworkStep, LogsIn, AcceptAuth, RemoveMachine, AsksAboutCharacter, Ask
<1>2. answers' \in Seq(Account) /\ (answers # <<>> => Head(answers) \in Account)
  BY <1>0, AnswersTyped, NextSplits, HeadTailProperties
<1>3. machines' \in [Account -> Nat]
  <2>1. CASE AcceptAuth
    BY <1>0, <1>2, <2>1 DEF AcceptAuth
  <2>2. ASSUME NEW a \in Account, RemoveMachine(a) PROVE machines' \in [Account -> Nat]
    <3>1. machines[a] - 1 \in Nat
      BY <1>0, <2>2 DEF RemoveMachine
    <3>. QED  BY <1>0, <2>2, <3>1 DEF RemoveMachine
  <2>3. CASE machines' = machines
    BY <1>0, <2>3
  <2>. QED  BY <2>1, <2>2, <2>3 DEF NetworkStep, LogsIn, AsksAboutCharacter
<1>4. logins' \in 0 .. MaxLogin /\ requests' \in 0 .. MaxRequest
  <2>1. logins' = logins \/ (logins < MaxLogin /\ logins' = logins + 1)
    BY DEF NetworkStep, LogsIn, AcceptAuth, RemoveMachine, AsksAboutCharacter, counts
  <2>2. requests' = requests \/ (requests < MaxRequest /\ requests' = requests + 1)
    BY DEF NetworkStep, LogsIn, AcceptAuth, RemoveMachine, AsksAboutCharacter, counts
  <2>. QED  BY <1>0, <2>1, <2>2 DEF RestInv
<1>. QED  BY <1>0, <1>1, <1>2, <1>3, <1>4 DEF RestInv

LEMMA HandlerRest == IInv /\ HandlerStep => RestInv'
<1>. SUFFICES ASSUME IInv, HandlerStep PROVE RestInv'
  OBVIOUS
<1>0. RestInv /\ QueueInv /\ answers \in Seq(Account)
  BY DEF IInv, RestInv
<1>1. machines' = machines /\ logins' = logins /\ requests' = requests
      /\ dbQueue # <<>>
  BY DEF HandlerStep, ProcessAuth, ProcessWelcome, ProcessRemoveMachine,
     ProcessCreateCharacter, ProcessDeleteCharacter, ProcessDelPlayer, ProcessEvent, counts
<1>2. Fault \/ (Arrives /\ thread' = thread)
  BY DEF HandlerStep, ProcessAuth, ProcessWelcome, ProcessRemoveMachine,
     ChangeAccountState, ProcessCreateCharacter, ProcessDeleteCharacter,
     ProcessDelPlayer, Fault
<1>3. link' \in {"up", "broken", "failed"} /\ thread' \in {"runs", "dead", "crashed"}
  BY <1>0, <1>2, Faults DEF Arrives, RestInv
<1>4. answers' \in Seq(Account)
  BY AnswersTyped, NextSplits
<1>5. welcomed' \subseteq Account
  <2>1. CASE ProcessWelcome
    <3>1. Event.acct \in Account
      BY <1>0, <2>1, HeadEvent, EventFields DEF ProcessWelcome, ProcessEvent
    <3>. QED  BY <1>0, <2>1, <3>1 DEF ProcessWelcome, RestInv
  <2>2. CASE welcomed' = welcomed
    BY <1>0, <2>2 DEF RestInv
  <2>. QED  BY <2>1, <2>2 DEF HandlerStep, ProcessAuth, ProcessRemoveMachine,
               ProcessCreateCharacter, ProcessDeleteCharacter, ProcessDelPlayer
<1>. QED  BY <1>0, <1>1, <1>3, <1>4, <1>5 DEF RestInv
LEMMA Initially == Init => IInv
<1>. SUFFICES ASSUME Init PROVE IInv
  OBVIOUS
<1>1. AccountsInv
  BY DEF Init, AccountsInv
<1>2. CharactersInv
  <2>1. characters = [i \in {c.id : c \in Old} |-> CHOOSE c \in Old : c.id = i]
    BY DEF Init
  <2>2. DOMAIN characters = {c.id : c \in Old}
    BY <2>1
  <2>3. DOMAIN characters \in SUBSET Nat /\ IsFiniteSet(DOMAIN characters)
    BY <2>2, NumbersOfOld
  <2>4. 0 \notin DOMAIN characters
    BY <2>2, OldDocs
  <2>5. \A i \in DOMAIN characters : characters[i] \in Old /\ characters[i].id = i
    BY <2>1
  <2>6. \A c \in Old : c.id \in DOMAIN characters => characters[c.id] = c
    BY <2>2, <2>5, DataBaseMongoAssumption
  <2>. QED  BY <2>3, <2>4, <2>5, <2>6 DEF CharactersInv, CharactersIntact
<1>3. QueueInv
  <2>1. /\ dbQueue = <<>> /\ dbQueue \in Seq(DbEvent) /\ 1 .. Len(dbQueue) = {}
        /\ \A a \in Account : machines[a] = 0
    BY DEF Init
  <2>. QED  BY <2>1 DEF QueueInv
<1>4. RestInv
  BY DataBaseMongoAssumption DEF Init, RestInv
<1>. QED  BY <1>1, <1>2, <1>3, <1>4 DEF IInv

LEMMA Stuttering ==
  ASSUME IInv, UNCHANGED vars
  PROVE  IInv'
BY DEF IInv, AccountsInv, CharactersInv, CharactersIntact, QueueInv, Announced, RestInv,
       vars, collections, counts

LEMMA Inductive == IInv /\ [Next]_vars => IInv'
<1>. SUFFICES ASSUME IInv, [Next]_vars PROVE IInv'
  OBVIOUS
<1>1. CASE NetworkStep
  BY <1>1, NetworkQueue, NetworkDocuments, NetworkRest DEF IInv
<1>2. CASE HandlerStep
  BY <1>2, HandlerQueue, HandlerAccounts, HandlerCharacters, HandlerRest DEF IInv
<1>. QED  BY <1>1, <1>2, NextSplits, Stuttering

LEMMA Invariance == Spec => []IInv
BY Initially, Inductive, PTL DEF Spec

-------------------------------------------------------------------------------
(* What follows from it.                                                   *)

LEMMA TypeHolds == IInv => TypeOK
<1>. SUFFICES ASSUME IInv PROVE TypeOK
  OBVIOUS
<1>1. \A a \in Account : accounts[a] \in
         [id : Account, name : Account, password : {"right"}, online : BOOLEAN]
         \cup [online : BOOLEAN]
  BY AccountDocs DEF IInv, AccountsInv, Online
<1>2. \A i \in DOMAIN characters : characters[i] \in
         [id : Nat, acctid : Account, name : Nick]
         \cup [acctid : Account, name : Nick] \cup [online : BOOLEAN]
  BY OldDocs DEF IInv, CharactersInv, Online, Created
<1>3. dbQueue \in Seq(AuthEvent \cup StateEvent \cup CharacterEvent \cup PlayerEvent)
  <2>1. FirstPlayer \subseteq PlayerEvent
    BY DEF FirstPlayer, PlayerEvent, PlayerID
  <2>2. DbEvent \subseteq AuthEvent \cup StateEvent \cup CharacterEvent \cup PlayerEvent
    BY <2>1 DEF DbEvent
  <2>3. dbQueue \in Seq(DbEvent)
    BY DEF IInv, QueueInv
  <2>. QED  BY <2>2, <2>3
<1>. QED  BY <1>1, <1>2, <1>3 DEF IInv, AccountsInv, RestInv, TypeOK

(* Every state is one the program's types allow, and the documents keep to *)
(* the forms that the handlers give them.                                  *)
THEOREM TypeCorrect == Spec => []TypeOK
BY Invariance, TypeHolds, PTL

(* An account's document is untouched until its own WELCOME is handled,    *)
(* and of the old characters all but number 1 keep their documents as long *)
(* as they exist, whatever logs in, leaves or is asked for and wherever    *)
(* the connection breaks.                                                  *)
THEOREM OthersUntouched == Spec => []OthersIntact
<1>1. IInv => OthersIntact
  BY DEF IInv, AccountsInv, CharactersInv, OthersIntact, AccountsIntact
<1>. QED  BY <1>1, Invariance, PTL

(* Once the WELCOME of an account has been handled, no login to it is ever *)
(* granted again.                                                          *)
THEOREM NoLaterLogin == Spec => NoLoginAfterWelcome
<1>1. IInv /\ [Next]_vars => [\A a \in welcomed : Granted(a)' <= Granted(a)]_vars
  BY GrantedStep
<1>. QED  BY <1>1, Invariance, PTL DEF Spec, NoLoginAfterWelcome

(* What a deletion removes is the first character of the name, if that has *)
(* a number of its own, and nothing else removes a character.              *)
LEMMA DeletesTheNamed ==
  ASSUME IInv, Next, NEW i \in DOMAIN characters \ DOMAIN characters'
  PROVE  /\ characters[i].name = Event.nick
         /\ i \in {c.id : c \in Old}
         /\ DOMAIN characters' = DOMAIN characters \ {i}
<1>0. CharactersInv /\ RestInv
  BY DEF IInv
<1>1. CASE ProcessDeleteCharacter
  <2>. DEFINE found == Matching(characters, "name", Event.nick)
              f == FirstOf(found)
              id == IntField(characters[f], "id")
  <2>1. \/ Fault
        \/ found # {} /\ characters' = Without(characters, Numbered(id))
    BY <1>1 DEF ProcessDeleteCharacter, Fault
  <2>2. found # {} /\ characters' = Without(characters, Numbered(id))
    BY <1>0, <2>1, Faults
  <2>3. f \in found
    <3>1. found \in SUBSET DOMAIN characters
      BY DEF Matching
    <3>. HIDE DEF found
    <3>. QED  BY <1>0, <2>2, <3>1, FirstCharacter
  <2>4. f \in DOMAIN characters /\ characters[f].name = Event.nick
    BY <2>3 DEF Matching
  <2>5. DOMAIN characters' = DOMAIN characters \ Numbered(id)
    BY <2>2 DEF Without
  <2>6. id = NoField \/ (id = f /\ characters[f] \in Old)
    BY <1>0, <2>4, NumberOf
  <2>. HIDE DEF id, f
  <2>7. i \in Numbered(id)
    BY <2>5
  <2>8. i = id /\ i # 0 /\ characters[i] \in Old /\ characters[i].id = i
    BY <1>0, <2>7, FindsNumber
  <2>9. i = f
    BY <2>6, <2>8 DEF NoField
  <2>10. Numbered(id) = {i}
    BY <1>0, <2>7, <2>8, FindsNumber
  <2>. QED  BY <2>4, <2>5, <2>8, <2>9, <2>10
<1>2. CASE ~ ProcessDeleteCharacter
  <2>1. CASE NetworkStep
    BY <2>1 DEF NetworkStep, LogsIn, AcceptAuth, RemoveMachine, AsksAboutCharacter, Ask,
       collections
  <2>2. CASE ProcessAuth \/ ProcessWelcome \/ ProcessRemoveMachine
    <3>1. Fault \/ characters' = characters
      BY <2>2 DEF ProcessAuth, ProcessWelcome, ProcessRemoveMachine, ChangeAccountState,
         Fault, collections
    <3>. QED  BY <1>0, <3>1, Faults
  <2>3. CASE ProcessCreateCharacter
    <3>1. Fault \/ DOMAIN characters' = DOMAIN characters \cup {NextOID}
      BY <2>3 DEF ProcessCreateCharacter, Fault
    <3>. QED  BY <1>0, <3>1, Faults
  <2>4. CASE ProcessDelPlayer
    <3>1. Fault \/ DOMAIN characters' = DOMAIN characters
      BY <2>4 DEF ProcessDelPlayer, Fault, Updated
    <3>. QED  BY <1>0, <3>1, Faults
  <2>. QED  BY <1>2, <2>1, <2>2, <2>3, <2>4, NextSplits DEF HandlerStep
<1>. QED  BY <1>1, <1>2

(* A character that goes has the name its deletion was asked for by, comes *)
(* from the database and goes alone.                                       *)
THEOREM NamedDeleted == Spec => DeletesOnlyTheNamed
<1>1. IInv /\ [Next]_vars =>
         [\A i \in DOMAIN characters \ DOMAIN characters' :
             /\ characters[i].name = Event.nick
             /\ i \in {c.id : c \in Old}
             /\ DOMAIN characters' = DOMAIN characters \ {i}]_vars
  BY DeletesTheNamed
<1>. QED  BY <1>1, Invariance, PTL DEF Spec, DeletesOnlyTheNamed
===============================================================================

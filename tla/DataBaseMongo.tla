----------------------------- MODULE DataBaseMongo -----------------------------
(***************************************************************************)
(* The documents of the Mongo database (DataBase/SDataBaseMongo.cpp) and   *)
(* what the database engine's handlers (Engine/SDataBaseEngine.cpp) do to  *)
(* them, in the order of its queue.  An update without $set replaces the   *)
(* document it matches; a query that matches nothing has no next().        *)
(* The network engine is reduced to what it sends: a login's AUTH, WELCOME *)
(* once it is accepted, REMOVE_MACHINE when the machine leaves, and the    *)
(* requests of machines about their characters in between.                 *)
(* The connection to Mongo may break at any time.  The driver's            *)
(* DBClientConnection (mongo/client/dbclient.cpp), made without            *)
(* autoReconnect, notices when it next sends or waits for an answer.       *)
(***************************************************************************)
EXTENDS Naturals, Sequences, FiniteSets, FiniteSetsExt

CONSTANTS Account,      \* the accounts, each known by its id
          Nick,         \* the names characters are given
          Old,          \* characters the database holds at first: [id, acctid, name]
          MaxLogin,     \* bound on the logins
          MaxRequest    \* bound on the events about characters

(* An account's name is its id in the model; Stranger is nobody's name.    *)
(* NoField is what getIntField returns for a field that is not there, a    *)
(* number no document has.                                                 *)
Stranger == 0
NoField == 0

ASSUME DataBaseMongoAssumption ==
    /\ Account \subseteq Nat \ {0}
    /\ Old \subseteq [id : Nat \ {0}, acctid : Account, name : Nick]
    /\ \A c, d \in Old : c.id = d.id => c = d
    /\ IsFiniteSet(Old)
    /\ MaxLogin \in Nat
    /\ MaxRequest \in Nat

VARIABLES accounts,     \* Sung.accounts: _id -> document
          characters,   \* Sung.character: _id -> document
          dbQueue,      \* the database engine's mEventsQueue
          answers,      \* the ACCT_IDs of accepted logins on their way back
          machines,     \* how many machines each account has
          link,         \* mConnection: "up", "broken" unnoticed, "failed" (_failed)
          thread,       \* the engine thread: "runs", "dead" by an exception, or
                        \* "crashed" with the process
          logins,       \* how many logins there have been
          requests,     \* how many events about characters
          welcomed      \* history: accounts whose WELCOME has been handled

counts == <<logins, requests>>
collections == <<accounts, characters>>
vars == <<collections, dbQueue, answers, machines, link, thread, counts, welcomed>>

(* A document is a function from the names of its fields to their values.  *)
AccountDoc(a) == [id |-> a, name |-> a, password |-> "right", online |-> FALSE]

Init ==
    /\ accounts = [a \in Account |-> AccountDoc(a)]
    /\ characters = [i \in {c.id : c \in Old} |-> CHOOSE c \in Old : c.id = i]
    /\ dbQueue = <<>>
    /\ answers = <<>>
    /\ machines = [a \in Account |-> 0]
    /\ link \in {"up", "failed"}      \* Open may fail, the engine goes on
    /\ thread = "runs"
    /\ logins = 0
    /\ requests = 0
    /\ welcomed = {}

-------------------------------------------------------------------------------
(* The database.                                                           *)

(* The documents a query by one field finds. *)
Matching(docs, field, value) ==
    {i \in DOMAIN docs : field \in DOMAIN docs[i] /\ docs[i][field] = value}

(* The oldest of them, which the cursor's next() returns.                  *)
FirstOf(found) == Min(found)

IntField(doc, field) == IF field \in DOMAIN doc THEN doc[field] ELSE NoField

(* Mutant: the update is a $set. *)
SetIn(doc, obj) == [f \in DOMAIN doc \cup DOMAIN obj |->
                       IF f \in DOMAIN obj THEN obj[f] ELSE doc[f]]

(* What update() makes of a document it matches: obj, whatever it was.     *)
Replaced(doc, obj) == obj

(* Mutant: an update that matches nothing changes the oldest document. *)
UpdatedAnyway(docs, found, obj) ==
    [docs EXCEPT ![FirstOf(IF found = {} THEN DOMAIN docs ELSE found)] = Replaced(@, obj)]

(* update(), neither upsert nor multi: the first match, if there is one. *)
Updated(docs, found, obj) ==
    IF found = {} THEN docs
    ELSE [docs EXCEPT ![FirstOf(found)] = Replaced(@, obj)]

Without(docs, found) == [i \in DOMAIN docs \ found |-> docs[i]]

-------------------------------------------------------------------------------
(* The network engine's events.                                            *)

Ask(event) ==
    /\ thread = "runs"
    /\ dbQueue' = Append(dbQueue, event)
    /\ UNCHANGED <<collections, link, thread, welcomed>>

LogsIn ==
    /\ logins < MaxLogin
    /\ logins' = logins + 1
    /\ \E name \in Account \cup {Stranger}, pass \in {"right", "wrong"} :
          Ask([type |-> "AUTH", name |-> name, pass |-> pass])
    /\ UNCHANGED <<answers, machines, requests>>

AcceptAuth ==
    /\ answers # <<>>
    /\ answers' = Tail(answers)
    /\ machines' = [machines EXCEPT ![Head(answers)] = @ + 1]
    /\ Ask([type |-> "WELCOME", acct |-> Head(answers)])
    /\ UNCHANGED counts

RemoveMachine(a) ==
    /\ machines[a] > 0
    /\ machines' = [machines EXCEPT ![a] = @ - 1]
    /\ Ask([type |-> "REMOVE_MACHINE", acct |-> a])
    /\ UNCHANGED <<answers, counts>>

(* GetPlayerID of a machine without a player: no machine has one, for      *)
(* nothing calls SetPlayer.                                                *)
PlayerID == 1

(* The account is stamped by the machine; the name is the client's choice. *)
(* A DEL_PLAYER that names nobody fits every machine, none having a nick,  *)
(* and the first one's player is meant (ProcessReceivedDelPlayer).         *)
AsksAboutCharacter(a) ==
    /\ machines[a] > 0
    /\ requests < MaxRequest
    /\ requests' = requests + 1
    /\ \/ \E t \in {"CREATE_CHARACTER", "DELETE_CHARACTER"}, n \in Nick :
             Ask([type |-> t, acct |-> a, nick |-> n])
       \/ Ask([type |-> "DEL_PLAYER", player |-> PlayerID])
    /\ UNCHANGED <<answers, machines, logins>>

-------------------------------------------------------------------------------
(* The driver.                                                             *)

(* Only RunEngines catches an exception. *)
Throws == thread' = "dead" /\ UNCHANGED collections

(* A connection that has failed before, or fails now. *)
SocketException == link' = "failed" /\ Throws

(* say(): the message was written to a connection that is gone. *)
Lost == link # "failed" /\ link' = "broken" /\ UNCHANGED <<collections, thread>>

(* What becomes of an update, an insert or a removal that does not arrive. *)
Unsaid == Lost \/ SocketException

(* A message arrives. *)
Arrives == link = "up" /\ UNCHANGED link

(* call(): no answer comes, query() returns a null cursor and its next()   *)
(* is undefined.                                                           *)
NoCursor ==
    /\ link # "failed"
    /\ link' = "failed"
    /\ thread' = "crashed"
    /\ UNCHANGED collections

Unanswered == (NoCursor \/ SocketException) /\ UNCHANGED answers

(* An empty cursor has no next(). *)
NextThrows == Arrives /\ Throws /\ UNCHANGED answers

-------------------------------------------------------------------------------
(* The database engine's handlers.                                         *)

Event == Head(dbQueue)

ProcessEvent(type) ==
    /\ thread = "runs"
    /\ dbQueue # <<>>
    /\ Event.type = type
    /\ dbQueue' = Tail(dbQueue)
    /\ UNCHANGED <<machines, counts>>

ProcessAuth ==
    /\ ProcessEvent("AUTH")
    /\ UNCHANGED welcomed
    /\ LET found == Matching(accounts, "name", Event.name)
           doc == accounts[FirstOf(found)]
       IN  \/ Unanswered
           \/ found = {} /\ NextThrows
           \/ /\ found # {} /\ Arrives
              /\ answers' = IF doc.password = Event.pass
                            THEN Append(answers, IntField(doc, "id")) ELSE answers
              /\ UNCHANGED <<collections, thread>>

ChangeAccountState(online) ==
    /\ \/ Unsaid
       \/ /\ Arrives
          /\ accounts' = Updated(accounts, Matching(accounts, "id", Event.acct),
                                 [online |-> online])
          /\ UNCHANGED <<characters, thread>>
    /\ UNCHANGED answers

ProcessWelcome ==
    /\ ProcessEvent("WELCOME")
    /\ ChangeAccountState(TRUE)
    /\ welcomed' = welcomed \cup {Event.acct}

ProcessRemoveMachine ==
    /\ ProcessEvent("REMOVE_MACHINE")
    /\ ChangeAccountState(FALSE)
    /\ UNCHANGED welcomed

(* CreateCharacter gives the document an _id (genOID) but no id. *)
NextOID == 1 + Max({0} \cup DOMAIN characters \cup {c.id : c \in Old})

ProcessCreateCharacter ==
    /\ ProcessEvent("CREATE_CHARACTER")
    /\ \/ Unsaid
       \/ /\ Arrives
          /\ characters' = [i \in DOMAIN characters \cup {NextOID} |->
                               IF i = NextOID
                               THEN [acctid |-> Event.acct, name |-> Event.nick]
                               ELSE characters[i]]
          /\ UNCHANGED <<accounts, thread>>
    /\ UNCHANGED <<answers, welcomed>>

(* Mutant: characters without an id go too. *)
NumberedOrNot(id) ==
    {i \in DOMAIN characters : IntField(characters[i], "id") \in {id, NoField}}

Numbered(id) == Matching(characters, "id", id)

(* GetPersonIDByNickName, then DeleteCharacter, between which the          *)
(* connection may break.                                                   *)
ProcessDeleteCharacter ==
    /\ ProcessEvent("DELETE_CHARACTER")
    /\ LET found == Matching(characters, "name", Event.nick)
           id == IntField(characters[FirstOf(found)], "id")
       IN  \/ Unanswered
           \/ found = {} /\ NextThrows
           \/ found # {} /\ link = "up" /\ Unsaid /\ UNCHANGED answers
           \/ /\ found # {} /\ Arrives
              /\ characters' = Without(characters, Numbered(id))
              /\ UNCHANGED <<accounts, answers, thread>>
    /\ UNCHANGED welcomed

(* ChangePlayerState(id, false) *)
ProcessDelPlayer ==
    /\ ProcessEvent("DEL_PLAYER")
    /\ \/ Unsaid
       \/ /\ Arrives
          /\ characters' = Updated(characters, Numbered(Event.player), [online |-> FALSE])
          /\ UNCHANGED <<accounts, thread>>
    /\ UNCHANGED <<answers, welcomed>>

-------------------------------------------------------------------------------
Next ==
    \/ LogsIn \/ AcceptAuth
    \/ \E a \in Account : RemoveMachine(a) \/ AsksAboutCharacter(a)
    \/ ProcessAuth \/ ProcessWelcome \/ ProcessRemoveMachine
    \/ ProcessCreateCharacter \/ ProcessDeleteCharacter \/ ProcessDelPlayer

Spec == Init /\ [][Next]_vars

-------------------------------------------------------------------------------
AuthEvent == [type : {"AUTH"}, name : Account \cup {Stranger},
              pass : {"right", "wrong"}]
StateEvent == [type : {"WELCOME", "REMOVE_MACHINE"}, acct : Account]
PlayerEvent == [type : {"DEL_PLAYER"}, player : Nat]
CharacterEvent == [type : {"CREATE_CHARACTER", "DELETE_CHARACTER"},
                   acct : Account, nick : Nick]

TypeOK ==
    /\ DOMAIN accounts = Account
    /\ \A a \in Account : accounts[a] \in
           [id : Account, name : Account, password : {"right"}, online : BOOLEAN]
           \cup [online : BOOLEAN]
    /\ \A i \in DOMAIN characters : characters[i] \in
           [id : Nat, acctid : Account, name : Nick]
           \cup [acctid : Account, name : Nick] \cup [online : BOOLEAN]
    /\ dbQueue \in Seq(AuthEvent \cup StateEvent \cup CharacterEvent \cup PlayerEvent)
    /\ answers \in Seq(Account)
    /\ machines \in [Account -> Nat]
    /\ link \in {"up", "broken", "failed"}
    /\ thread \in {"runs", "dead", "crashed"}
    /\ logins \in 0 .. MaxLogin
    /\ requests \in 0 .. MaxRequest
    /\ welcomed \subseteq Account

(* The first WELCOME replaces the document, its id and name included, so   *)
(* that no later event of the account finds it: nobody logs in to an       *)
(* account after its first WELCOME, and two machines of one account come   *)
(* from logins verified before it.                                         *)
Granted(a) == Cardinality({i \in 1 .. Len(answers) : answers[i] = a})
NoLoginAfterWelcome ==
    [][\A a \in welcomed : Granted(a)' <= Granted(a)]_vars

(* A deletion removes at most one character, one of the name it was asked  *)
(* for, and never one the server created: those have no id to find them by.*)
DeletesOnlyTheNamed ==
    [][\A i \in DOMAIN characters \ DOMAIN characters' :
          /\ characters[i].name = Event.nick
          /\ i \in {c.id : c \in Old}
          /\ DOMAIN characters' = DOMAIN characters \ {i}]_vars

AccountsIntact ==
    \A a \in Account \ welcomed : accounts[a] = AccountDoc(a)

CharactersIntact ==
    \A c \in Old :
        c.id \in DOMAIN characters /\ c.id # PlayerID => characters[c.id] = c

(* The updates of one account leave the others' documents alone, even when *)
(* it no longer has a document that answers to its id.  GetPlayerID        *)
(* answers 1 for a machine without a player, which is some character's     *)
(* number: its document is replaced when any machine sends a DEL_PLAYER.   *)
(* No other character of the database is ever changed, only deleted by its *)
(* name.                                                                   *)
OthersIntact == AccountsIntact /\ CharactersIntact

(* A registered machine whose WELCOME has been handled has its account     *)
(* online, as IsAccountConnected sees it ("setting account online on DB",  *)
(* Engine/SNetEngine.cpp:440).                                             *)
IsAccountConnected(name) ==
    \E i \in Matching(accounts, "name", name) : accounts[i].online
WelcomedAreConnected ==
    \A a \in welcomed : machines[a] > 0 => IsAccountConnected(a)
================================================================================

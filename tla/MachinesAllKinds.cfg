\* Two clients that send an event each, once they are accepted: one kind for
\* each way an event can take.  (PLAYER_PROP and NPC_PROP take that of
\* CHARACTERS_LIST.)  Three machines, so that one of them can be removed, one be
\* passed over and one be left; two are then bound to one client.  The engine
\* thread may end: deadlock is not checked.
CONSTANTS
    Conn = {c1, c2}
    Sender = {c1, c2}
    Kind = {"CHARACTERS_LIST", "CREATE_CHARACTER", "DELETE_CHARACTER", "UNREQUESTED", "PING", "PONG", "PLAYER_POS", "CHAT_EVENT", "AUTH"}
    MaxRequest = 1
    OwnStamp = {0}
    MaxMachine = 3
    Eager = FALSE
SPECIFICATION Spec
CHECK_DEADLOCK FALSE
INVARIANTS
    AssertionsHold
    ChatMissesOnlyAfterRemoval
PROPERTY
    RequestsAnswered

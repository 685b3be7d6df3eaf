\* A client sends before it hears that it is accepted.
CONSTANTS
    Conn = {c1, c2}
    Sender = {c1, c2}
    Kind = {"CHARACTERS_LIST"}
    MaxRequest = 1
    OwnStamp = {0}
    MaxMachine = 2
    Eager = TRUE
SPECIFICATION Spec
CHECK_DEADLOCK FALSE
INVARIANTS
    AssertionsHold

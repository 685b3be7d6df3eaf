\* Two accounts, two old characters and whatever is created.  An exception may
\* end the engine thread: deadlock is not checked.
CONSTANTS
    Account = {1, 2}
    Nick = {"hero", "mage"}
    Old <- OldCharacters
    MaxLogin = 3
    MaxRequest = 2
SPECIFICATION Spec
CHECK_DEADLOCK FALSE
INVARIANTS
    OthersIntact
PROPERTIES
    NoLoginAfterWelcome
    DeletesOnlyTheNamed

\* The same instance without requests, for the one property.
CONSTANTS
    Account = {1, 2}
    Nick = {"hero", "mage"}
    Old <- OldCharacters
    MaxLogin = 3
    MaxRequest = 0
SPECIFICATION Spec
CHECK_DEADLOCK FALSE
INVARIANT
    WelcomedAreConnected

\* Two connections, whose clients know the password of one account or not, with
\* accesses to id and mAuth that overlap or not, and one AUTH event that a client or
\* a console sends.  The engine thread may end: deadlock is not checked.
CONSTANTS
    Conn = {c1, c2}
    Account = {a1}
    NoAccount = noAccount
    NoCred = noCred
    MaxAuth = 1
SPECIFICATION Spec
CHECK_DEADLOCK FALSE
INVARIANTS
    RightAnswers
    AccountsVerified
    MachinesInOrder
    OnlineMeansPresent
PROPERTIES
    LoginAnswered

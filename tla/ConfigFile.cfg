\* Files of up to four lines, with and without a last newline.  A parsed file is
\* left alone: deadlock is not checked.
CONSTANTS
    Key = {k1, k2}
    MaxLines = 4
SPECIFICATION ParserSpec
CHECK_DEADLOCK FALSE
INVARIANTS
    ParserTypeOK
    ReadAsMeant
PROPERTY
    ParserEnds

\* Every directory, script, spawn and exit outcome; keys of up to three
\* characters; write and add.
CONSTANTS
    Actions = {"write", "add"}
    Lower <- MCLower
    Upper <- MCUpper
    MaxKeyLen = 3
    Values <- MCValues
    Codes <- MCCodes
    Null = Null
SPECIFICATION Spec
INVARIANTS
    SuccessMeansZeroExit
    ArgumentsAsTyped
PROPERTY ExecutorSettles
CHECK_DEADLOCK FALSE

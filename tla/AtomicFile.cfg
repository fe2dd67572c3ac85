SPECIFICATION Spec
CONSTANTS
    MaxBlocks = 2
    MaxWrites = 3
INVARIANTS
    TypeOK
    NeverTorn
PROPERTIES
    ImplementsRegister
\* The bound on writes ends every behaviour.
CHECK_DEADLOCK FALSE

CONSTANTS
    Addr <- MCAddr
    None = None
SPECIFICATION Spec
INVARIANTS
    TypeOK
    LoopInv
    OwnerIsCyclicSuccessor
\* The loop ends.
CHECK_DEADLOCK FALSE

\* The system stops when the call has returned or panicked.
SPECIFICATION Spec
CONSTANTS
    MaxLen = 3
    LastTerm = 2
INVARIANTS LoopsMatchOperator NothingElseLost
CHECK_DEADLOCK FALSE

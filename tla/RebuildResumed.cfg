\* An entity and an assertion; one interruption, one edit of each row, and rows retired.
SPECIFICATION Spec
CONSTANTS
    Rows <- MCRows
    Entities <- MCEntities
    MaxText = 2
    MaxInterrupts = 1
CHECK_DEADLOCK FALSE
PROPERTY ResumeCompletes

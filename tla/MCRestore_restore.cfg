SPECIFICATION RestoreSpec
CONSTANTS
    a = a
    b = b
    Emails = {a, b}
    Local = {a}
    Batches = {r1}
    Exports = {x1}
    Lists <- OneOrTwo
    Size <- SizeAB
    MaxBytes = 2
    MaxStarts = 3
    MaxChanges = 2
    MaxFaults = 1
CHECK_DEADLOCK FALSE
INVARIANTS
    TypeOK
    BudgetKept
    CopiesAccounted

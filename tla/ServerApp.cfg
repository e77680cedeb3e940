SPECIFICATION Spec
CONSTANTS
    NumConns = 2
    Budgets <- MCBudgets
INVARIANTS
    StateOK
    DeletedLeftAlone
    Ownership
    GoesOnListening

    
    
CHECK_DEADLOCK FALSE

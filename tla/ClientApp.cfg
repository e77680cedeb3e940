SPECIFICATION Spec
CONSTANTS
    Addrs = {"p", "f1", "f2"}
    Primary = "p"
    Advertised <- MCAdvertised
    Budgets <- MCBudgets
INVARIANTS
    ClientOK
    NotForgotten
    KnowsServer
PROPERTIES
    NoStorm
    Reconnects
    FailsBack
CHECK_DEADLOCK FALSE

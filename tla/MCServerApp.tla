---------------------------- MODULE MCServerApp ----------------------------
(* The bounds of ServerApp for TLC: two clients and no requests, one client  *)
(* and requests that may meet, and requests alone with screens and ports     *)
(* that do not open.                                                         *)
EXTENDS ServerApp

Budget(conns, tls, asks, fails) ==
    [conns |-> conns, secure |-> tls, asks |-> asks, fails |-> fails]

MCBudgets ==
    {Budget(2, FALSE, {}, 0),
     Budget(1, TRUE, {"suspend", "resume"}, 0),
     Budget(1, FALSE, {"suspend", "quit"}, 0),
     Budget(1, FALSE, {"reset"}, 0),
     Budget(1, TRUE, {"reconnect"}, 0),
     Budget(0, FALSE, {"suspend", "resume", "reset"}, 3),
     Budget(0, FALSE, {"suspend", "reset", "quit"}, 1),
     Budget(0, FALSE, {"suspend", "resume", "reset", "quit"}, 0)}
=============================================================================

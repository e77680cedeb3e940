---------------------------- MODULE MCClientApp ----------------------------
(* The bounds of ClientApp for TLC. *)
EXTENDS ClientApp

Bounds(suspends, changes, screens, odd, early) ==
    [suspends |-> suspends, changes |-> changes, screens |-> screens, odd |-> odd,
     early |-> early]

MCAdvertised == {<<"p", "f1">>, <<"f1", "f2", "f1">>, <<"p">>}

MCBudgets == {Bounds(2, 0, 0, 0, 0), Bounds(1, 1, 0, 0, 1), Bounds(0, 1, 0, 1, 0),
              Bounds(0, 2, 0, 0, 0), Bounds(0, 0, 2, 0, 0)}
=============================================================================

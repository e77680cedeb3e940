-------------------------- MODULE MCServerScreens --------------------------
(***************************************************************************)
(* Small instances of ServerScreens: up to two connections, three names.   *)
(* Screen 2 is the primary, so that the cycle of handleToggleScreen wraps. *)
(***************************************************************************)
EXTENDS ServerScreens, TLC

CONSTANTS c1, c2

\* A configuration without aliases whose screens are D.
Plain(D, delay, tap, rel, mods, corners) ==
  [ canon |-> [n \in D |-> n], switchDelay |-> delay, twoTap |-> tap,
    relative |-> rel, needsMods |-> mods, corners |-> corners ]

\* Clients come and go: a reload adds or drops screen 3, and sets or leaves
\* out the delay before a switch.
MCClients ==
  { Plain({1, 2, 3}, "on", "unset", "unset", FALSE, FALSE),
    Plain({1, 2}, "unset", "unset", "unset", FALSE, FALSE) }

\* Gestures: every option that guards a switch, set, cleared or left out.
\* Name 3 is an alias of the screen 1 throughout.
MCGestures ==
  { [cfg EXCEPT !.canon[3] = 1] : cfg \in
      { Plain({1, 2, 3}, "on", "on", "unset", FALSE, FALSE),
        Plain({1, 2, 3}, "off", "on", "unset", TRUE, TRUE),
        Plain({1, 2, 3}, "unset", "off", "on", FALSE, TRUE) } }

\* Connections are interchangeable.
MCSymmetry == Permutations({c1, c2})

=============================================================================

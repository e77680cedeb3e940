---------------------------- MODULE MCEventQueue ----------------------------
(***************************************************************************)
(* Small instances of EventQueue: the main thread, one or two other        *)
(* threads, one or two events each.                                        *)
(***************************************************************************)
EXTENDS EventQueue

\* Everyone posts: the main thread and a signal thread once.
MCFew == [t \in Threads |-> IF t \in SignalThreads \cup {Main} THEN 1 ELSE 2]

=============================================================================

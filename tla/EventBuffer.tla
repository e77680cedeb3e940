---------------------------- MODULE EventBuffer -----------------------------
(***************************************************************************)
(* What EventQueue expects of an IEventQueueBuffer: ids come out in the    *)
(* order in which they were added, none is lost and none comes twice.      *)
(***************************************************************************)
EXTENDS Naturals, Sequences

CONSTANT Ids  \* the ids that can be added

VARIABLES
  queue,  \* ids added and not yet returned, the oldest first
  dataID  \* the id that getEvent returned last, or none

Init == queue = <<>> /\ dataID \notin Ids

AddEvent(id) ==
  /\ queue' = Append(queue, id)
  /\ UNCHANGED dataID

GetEvent ==
  /\ queue # <<>>
  /\ dataID' = Head(queue)
  /\ queue' = Tail(queue)

Next == GetEvent \/ \E id \in Ids : AddEvent(id)

Spec == Init /\ [][Next]_<<queue, dataID>>

=============================================================================

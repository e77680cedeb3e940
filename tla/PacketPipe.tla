----------------------------- MODULE PacketPipe -----------------------------
(***************************************************************************)
(* What a stream of packets promises to the two ends that use it, as       *)
(* lib/io/IStream.h describes it: what is read is what was sent, in order, *)
(* without a gap, and only of packets; what goes out is what was written,  *)
(* in order, without a gap; the end of input is told once, after all that  *)
(* came before it, and nothing is read after it.                           *)
(***************************************************************************)
EXTENDS Integers, Sequences

VARIABLES
    sent,       \* payload bytes the far end has sent, numbered from 1
    whole,      \* as many of them belong to complete packets
    read,       \* those that were read here
    put,        \* bytes written here, numbered from 1
    out,        \* those that went out
    ended       \* how often the end of input has been told

pipeVars == <<sent, whole, read, put, out, ended>>

\* from + 1, ..., to
Span(from, to) == [i \in 1..(to - from) |-> from + i]

Init ==
    /\ sent = 0 /\ whole = 0 /\ read = <<>>
    /\ put = 0 /\ out = <<>>
    /\ ended = 0

Send ==
    /\ sent' \in {sent, sent + 1}
    /\ whole' \in {whole, sent'}
    /\ UNCHANGED <<read, put, out, ended>>

ReadSome ==
    /\ ended = 0
    /\ \E n \in Len(read) + 1 .. whole : read' = read \o Span(Len(read), n)
    /\ UNCHANGED <<sent, whole, put, out, ended>>

Put ==
    /\ put' > put
    /\ UNCHANGED <<sent, whole, read, out, ended>>

Transmit ==
    /\ \E n \in Len(out) + 1 .. put : out' = out \o Span(Len(out), n)
    /\ UNCHANGED <<sent, whole, read, put, ended>>

TellEnd ==
    /\ ended = 0
    /\ ended' = 1
    /\ Len(read) = whole
    /\ UNCHANGED <<sent, whole, read, put, out>>

Next == Send \/ ReadSome \/ Put \/ Transmit \/ TellEnd

Spec == Init /\ [][Next]_pipeVars
=============================================================================

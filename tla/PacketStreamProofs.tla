------------------------- MODULE PacketStreamProofs -------------------------
(***************************************************************************)
(* Proofs about TCPSocket and PacketStream, for any size of the header, of *)
(* the packets, of the buffers and of a read, and for any number of bytes  *)
(* and of writes.                                                          *)
(*                                                                         *)
(* The inductive invariant Inv has four layers.  The types come first.     *)
(* Stage says how far the connection has come: which job there is, which   *)
(* is being made, and who has been told of the connection; without it a    *)
(* job of the handshake might replace one that writes.  OutInv follows the *)
(* output through write, newJob and setJob: as long as there is some, the  *)
(* socket is writable, and the job that is set, or about to be, writes.    *)
(* Signalled follows the input: a byte or a packet that nobody looks at    *)
(* has its event in the queue.                                             *)
(*                                                                         *)
(* Two more invariants are kept up here for PacketPipeProofs.  PutInv: the *)
(* bytes written are numbered in one run through the network,              *)
(* m_outputBuffer and the pieces still to be handed over, and what doWrite *)
(* keeps for a retry of OpenSSL begins that buffer.  EndInv: the event of  *)
(* the end of input is in the queue only behind all that it must not       *)
(* overtake, or once nothing is left to be read.                           *)
(***************************************************************************)
EXTENDS PacketStream, TLAPS

\* The prover of a leaf that names none.
USE ZenonT(60)

-----------------------------------------------------------------------------
(* Sequences *)

LEMMA Slices ==
  ASSUME NEW S, NEW s \in Seq(S), NEW n \in Nat
  PROVE  /\ SubSeq(s, n + 1, Len(s)) \in Seq(S)
         /\ n <= Len(s) => SubSeq(s, 1, n) \in Seq(S)
         /\ n = 0 => SubSeq(s, n + 1, Len(s)) = s
         /\ n = Len(s) => SubSeq(s, n + 1, Len(s)) = <<>>
BY SMTT(120)

LEMMA SliceLengths ==
  ASSUME NEW S, NEW s \in Seq(S), NEW n \in Nat, n <= Len(s)
  PROVE  /\ Len(SubSeq(s, 1, n)) = n
         /\ Len(SubSeq(s, n + 1, Len(s))) = Len(s) - n
         /\ \A i \in 1..n : SubSeq(s, 1, n)[i] = s[i]
         /\ \A i \in 1..(Len(s) - n) : SubSeq(s, n + 1, Len(s))[i] = s[i + n]
BY SMTT(120)

LEMMA Joins ==
  ASSUME NEW S, NEW s \in Seq(S), NEW t \in Seq(S)
  PROVE  /\ s \o t \in Seq(S) /\ Len(s \o t) = Len(s) + Len(t)
         /\ \A i \in 1..Len(s) : (s \o t)[i] = s[i]
         /\ \A i \in 1..Len(t) : (s \o t)[Len(s) + i] = t[i]
         /\ s \o t = <<>> => s = <<>> /\ t = <<>>
BY SMTT(120)

LEMMA Appends ==
  ASSUME NEW S, NEW s \in Seq(S), NEW x \in S
  PROVE  /\ Append(s, x) \in Seq(S) /\ Append(s, x) = s \o <<x>> /\ <<x>> \in Seq(S)
         /\ Len(Append(s, x)) = Len(s) + 1
BY SMTT(120)

LEMMA Tails ==
  ASSUME NEW S, NEW s \in Seq(S), s # <<>>
  PROVE  /\ Tail(s) \in Seq(S) /\ Head(s) \in S /\ Head(s) = s[1]
         /\ Len(s) >= 1 /\ Len(Tail(s)) = Len(s) - 1
         /\ \A i \in 1..(Len(s) - 1) : Tail(s)[i] = s[i + 1]
BY SMTT(120)

-----------------------------------------------------------------------------
(* Jobs and outcomes *)

LEMMA JobFacts ==
  ASSUME NEW connected \in BOOLEAN, NEW readable \in BOOLEAN, NEW writable \in BOOLEAN,
         NEW output, NEW ready \in BOOLEAN, NEW j,
         j = JobOf(connected, readable, writable, output, ready)
  PROVE  /\ j \in Job /\ j.kind \in {"none", "connecting", "connected"}
         /\ j.kind = "connecting" => ~connected /\ (readable \/ writable)
         /\ j.kind = "connected" => connected /\ (secure => ready)
         /\ j.kind = "none" => j = NoJob
         /\ connected /\ writable /\ output # <<>> /\ (secure => ready) =>
              j.kind = "connected" /\ j.write
BY DEF JobOf, Job, NoJob, JobKinds

Writes == {"none", "some", "shutdown", "disconnected", "error", "retry", "fatal"}
Reads == {"none", "data", "eof", "disconnected", "last", "fatal", "retry"}

\* The bytes doWrite hands to the connection.
Sent == IF writeRetry # <<>> THEN writeRetry ELSE m_outputBuffer

LEMMA WriteFacts ==
  ASSUME m_outputBuffer \in Seq(Nat), writeRetry \in Seq(Nat),
         NEW write, NEW x \in WriteOutcomes(write)
  PROVE  /\ x[1] \in Writes /\ x[2] \in 0..Len(Sent)
         /\ x[1] = "some" <=> x[2] > 0
         /\ x[1] = "some" => link # "reset"
         /\ x[1] \in {"shutdown", "disconnected", "error"} => ~secure
         /\ x[1] \in {"disconnected", "error"} => link = "reset"
         /\ x[1] = "retry" => secure
<1>1. Len(Sent) \in Nat
  BY SMTT(120) DEF Sent
<1>2. \/ x = <<"none", 0>> \/ x = <<"fatal", 0>>
      \/ x = <<"shutdown", 0>> /\ ~secure
      \/ x \in {<<"disconnected", 0>>, <<"error", 0>>} /\ ~secure /\ link = "reset"
      \/ x = <<"retry", 0>> /\ secure
      \/ \E n \in 1..Len(Sent) : x = <<"some", n>> /\ link # "reset"
  BY SMTT(120), <1>1 DEF WriteOutcomes, When, Sent
<1>. QED
  BY SMTT(120), <1>1, <1>2 DEF Writes

LEMMA ReadFacts ==
  ASSUME inNet \in Seq(Byte), m_inputBuffer \in Seq(Byte),
         NEW read, NEW w, NEW x \in ReadOutcomes(read, w)
  PROVE  /\ x[1] \in Reads /\ x[2] \in 0..Len(inNet)
         /\ x[1] \in {"data", "last"} <=> x[2] > 0
         /\ x[1] \in {"data", "last"} => m_readable
         /\ x[1] = "eof" => link = "eof" /\ inNet = <<>>
         /\ x[1] = "disconnected" => link = "reset" /\ ~secure
<1>1. Len(inNet) \in Nat /\ (Len(inNet) = 0 => inNet = <<>>)
  BY SMTT(120)
<1>2. \/ x \in {<<"none", 0>>, <<"fatal", 0>>, <<"retry", 0>>}
      \/ x = <<"eof", 0>> /\ link = "eof" /\ Len(inNet) = 0
      \/ x = <<"disconnected", 0>> /\ link = "reset" /\ ~secure
      \/ \E n \in 1..Len(inNet) : (x = <<"data", n>> \/ x = <<"last", n>>) /\ m_readable
  BY SMTT(120), <1>1 DEF ReadOutcomes, When, Slurp
<1>. QED
  BY SMTT(120), <1>1, <1>2 DEF Reads

-----------------------------------------------------------------------------
(* Types.  TypeOK lists its variables in sets; the provers want them one by *)
(* one. *)

Flags ==
  /\ secure \in BOOLEAN /\ accepted \in BOOLEAN /\ up \in BOOLEAN
  /\ m_connected \in BOOLEAN /\ m_readable \in BOOLEAN /\ m_writable \in BOOLEAN
  /\ m_flushed \in BOOLEAN /\ m_secureReady \in BOOLEAN /\ m_fatal \in BOOLEAN
  /\ thenFlush \in BOOLEAN /\ m_inputShutdown \in BOOLEAN /\ wasReady \in BOOLEAN

Input == /\ m_inputBuffer \in Seq(Byte) /\ inNet \in Seq(Byte)
         /\ m_buffer \in Seq(Byte) /\ delivered \in Seq(Byte)

Output == /\ m_outputBuffer \in Seq(Nat) /\ writeRetry \in Seq(Nat)
          /\ outNet \in Seq(Nat) /\ todo \in Seq(Seq(Nat))

Peers == [size : Nat, left : Nat, payload : Nat, whole : Nat, bytes : Nat]

Rest == /\ job \in Job /\ made \in Job /\ call \in Calls /\ link \in Links
        /\ events \in Seq(EventNames)
        /\ m_size \in Nat /\ endTold \in Nat /\ written \in Nat
        /\ peer \in Peers

LEMMA TypesAre == TypeOK <=> Flags /\ Input /\ Output /\ Rest
BY SMTT(120) DEF TypeOK, Flags, Input, Output, Rest, Peers

LEMMA Constants ==
  /\ HeaderLen \in Nat /\ HeaderLen >= 1 /\ ReadChunk \in Nat /\ ReadChunk >= 1
  /\ MaxMessage \in Nat /\ MaxInputBuffer \in Nat
  /\ Sizes \subseteq Nat /\ 0 \notin Sizes
BY SMTT(120), StreamAssumption, MaxInputBufferAssumption

LEMMA InitTypes == Init => Flags /\ Input /\ Output /\ Rest
<1>. SUFFICES ASSUME Init PROVE Flags /\ Input /\ Output /\ Rest
  OBVIOUS
<1>1. Flags
  BY DEF Init, Flags
<1>2. Input /\ Output
  BY SMTT(120) DEF Init, Input, Output
<1>3. job \in Job
  BY DEF Init, Job, NoJob, JobKinds
<1>4. peer \in Peers
  BY DEF Init, Peers
<1>5. Rest
  BY SMTT(120), <1>3, <1>4 DEF Init, Rest, Job, Calls, Links
<1>. QED
  BY <1>1, <1>2, <1>5

\* The events that say the connection has come about, and the others.  Every
\* step but three adds only others to the queue, or nothing.
Coming == {"connected", "secureConnected"}
Later == EventNames \ Coming
Grows == \E more \in Seq(Later) : events' = events \o more

LEMMA LaterNames ==
  {"connectionFailed", "inputReady", "inputShutdown", "outputShutdown", "outputError",
   "inputFormatError", "disconnected", "stopRetry", "filterShutdown"} \subseteq Later
BY DEF Later, Coming, EventNames

LEMMA LaterSeq == ASSUME NEW more \in Seq(Later) PROVE more \in Seq(EventNames)
BY SMTT(120) DEF Later

LEMMA Grown == ASSUME events \in Seq(EventNames), Grows PROVE events' \in Seq(EventNames)
<1>1. PICK more \in Seq(Later) : events' = events \o more
  BY DEF Grows
<1>. QED
  BY <1>1, LaterSeq, Joins

LEMMA GrowsByOne ==
  ASSUME events \in Seq(EventNames), NEW name \in Later, events' = Append(events, name)
  PROVE  Grows
<1>1. name \in EventNames
  BY DEF Later
<1>2. events' = events \o <<name>> /\ <<name>> \in Seq(Later)
  BY SMTT(120), <1>1, Appends
<1>. QED
  BY <1>2 DEF Grows

LEMMA GrowsByNone ==
  ASSUME events \in Seq(EventNames), UNCHANGED events
  PROVE  Grows
<1>1. events' = events \o <<>> /\ <<>> \in Seq(Later)
  BY SMTT(120)
<1>. QED
  BY <1>1 DEF Grows

LEMMA GrowsByTwo ==
  ASSUME events \in Seq(EventNames), NEW s \in Seq(Later), NEW t \in Seq(Later),
         events' = events \o s \o t
  PROVE  Grows
<1>1. s \o t \in Seq(Later) /\ events' = events \o (s \o t)
  BY SMTT(120), LaterSeq
<1>. QED
  BY <1>1 DEF Grows

\* What the filter's helpers return.
LEMMA FilterTypes ==
  ASSUME NEW size \in Nat, NEW buffer \in Seq(Byte)
  PROVE  /\ SizeAfter(size, buffer) \in Nat
         /\ BufferAfter(size, buffer) \in Seq(Byte)
         /\ FormatError(size, buffer) \in Seq(Later)
         /\ FormatError(size, buffer) \in {<<>>, <<"inputFormatError">>}
<1>1. TakesSize(size, buffer) => buffer[1] \in Byte
  BY SMTT(120), Constants DEF TakesSize
<1>2. SizeAfter(size, buffer) \in Nat
  BY <1>1 DEF SizeAfter, Byte
<1>3. BufferAfter(size, buffer) \in Seq(Byte)
  BY Slices, Constants DEF BufferAfter
<1>4. "inputFormatError" \in Later
  BY LaterNames
<1>5. <<"inputFormatError">> \in Seq(Later)
  BY SMTT(120), <1>4
<1>. QED
  BY SMTT(120), <1>2, <1>3, <1>5 DEF FormatError

Types == Flags /\ Input /\ Output /\ Rest

LEMMA ConnectTypes ==
  ASSUME Types, Connect, UNCHANGED <<filterVars, ownerVars, peer>> PROVE Types'
<1>1. events' \in Seq(EventNames)
  BY Appends DEF Connect, Types, Rest, EventNames
<1>2. Flags'
  BY DEF Connect, Types, Flags, roleVars, tlsVars, pieceVars, filterVars, ownerVars
<1>3. Input' /\ Output'
  BY DEF Connect, Types, Input, Output, bufVars, tlsVars, pieceVars, netVars, filterVars,
     ownerVars
<1>4. Rest'
  BY <1>1 DEF Connect, Types, Rest, Calls, netVars, filterVars, ownerVars
<1>. QED
  BY <1>2, <1>3, <1>4 DEF Types

LEMMA WriteTypes ==
  ASSUME Types, todo # <<>>, Write, UNCHANGED <<filterVars, ownerVars, peer>>
  PROVE  Types' /\ Grows
<1>1. todo' \in Seq(Seq(Nat)) /\ Head(todo) \in Seq(Nat)
  BY Tails DEF Write, Types, Output
<1>2. m_outputBuffer' \in Seq(Nat)
  <2>1. m_outputBuffer \in Seq(Nat)
    BY DEF Types, Output
  <2>2. m_outputBuffer \o Head(todo) \in Seq(Nat)
    BY <1>1, <2>1, Joins
  <2>. QED
    BY <2>1, <2>2 DEF Write
<1>0. events \in Seq(EventNames)
  BY DEF Types, Rest
<1>g. Grows
  BY <1>0, GrowsByOne, GrowsByNone, LaterNames DEF Write
<1>3. events' \in Seq(EventNames)
  BY <1>0, <1>g, Grown
<1>4. call' \in Calls /\ m_flushed' \in BOOLEAN
  BY DEF Write, AfterPiece, Calls, Types, Flags
<1>5. Flags' /\ Input'
  BY SMTT(120), <1>4 DEF Write, Types, Flags, Input, roleVars, tlsVars, netVars, filterVars, ownerVars
<1>6. Output' /\ Rest'
  BY <1>1, <1>2, <1>3, <1>4 DEF Write, Types, Output, Rest, tlsVars, netVars,
     filterVars, ownerVars
<1>. QED
  BY <1>5, <1>6, <1>g DEF Types

LEMMA MakeJobTypes ==
  ASSUME Types, MakeJob, UNCHANGED <<filterVars, ownerVars, peer>> PROVE Types'
<1>1. made' \in Job
  BY SMTT(120), JobFacts DEF MakeJob, Types, Flags
<1>. QED
  BY SMTT(120), <1>1 DEF MakeJob, Types, Flags, Input, Output, Rest, Calls, roleVars, flagVars, bufVars,
     tlsVars, pieceVars, netVars, filterVars, ownerVars

LEMMA SetJobTypes ==
  ASSUME Types, SetJob, UNCHANGED <<filterVars, ownerVars, peer>>
  PROVE  Types' /\ job'.kind = made.kind /\ job'.write = made.write
                /\ (made = NoJob => job' = NoJob)
<1>1. PICK late \in {TRUE, m_readable} : job' = [made EXCEPT !.read = @ /\ late]
  BY DEF SetJob
<1>2. late \in BOOLEAN /\ made \in Job
  BY DEF Types, Flags, Rest
<1>3. job' \in Job /\ job'.kind = made.kind /\ job'.write = made.write
      /\ (made = NoJob => job' = NoJob)
  <2>1. CASE made = NoJob
    <3>1. job' = [kind |-> "none", read |-> FALSE /\ late, write |-> FALSE]
      BY <1>1, <2>1 DEF NoJob
    <3>. QED
      BY <2>1, <3>1 DEF NoJob, Job
  <2>2. CASE made \in [kind : JobKinds, read : BOOLEAN, write : BOOLEAN]
    <3>1. job' = [kind |-> made.kind, read |-> made.read /\ late, write |-> made.write]
      BY <1>1, <2>2
    <3>. QED
      BY SMTT(120), <1>2, <2>2, <3>1 DEF NoJob, Job, JobKinds
  <2>. QED
    BY <1>2, <2>1, <2>2 DEF Job
<1>4. call' \in Calls /\ made' \in Job
  BY DEF SetJob, AfterPiece, Calls, Job
<1>. QED
  BY SMTT(120), <1>3, <1>4 DEF SetJob, Types, Flags, Input, Output, Rest, roleVars, flagVars, bufVars,
     tlsVars, pieceVars, netVars, filterVars, ownerVars

LEMMA PlainTypes ==
  ASSUME Types, Flush \/ FreeSSLResources \/ RemoveJob,
         UNCHANGED <<filterVars, ownerVars, peer>>
  PROVE  Types'
BY SMTT(120) DEF Flush, FreeSSLResources, RemoveJob, Types, Flags, Input, Output, Rest, Job, Calls,
   roleVars, flagVars, bufVars, tlsVars, pieceVars, netVars, filterVars, ownerVars

LEMMA CloseTypes ==
  ASSUME Types, Close, UNCHANGED <<filterVars, ownerVars, peer>> PROVE Types' /\ Grows
<1>0. events \in Seq(EventNames)
  BY DEF Types, Rest
<1>g. Grows
  BY <1>0, GrowsByOne, GrowsByNone, LaterNames DEF Close
<1>1. events' \in Seq(EventNames)
  BY <1>0, <1>g, Grown
<1>2. Flags'
  BY DEF Close, OnDisconnected, Types, Flags, roleVars, tlsVars, pieceVars, filterVars,
     ownerVars
<1>3. Input' /\ Output'
  BY SMTT(120) DEF Close, OnDisconnected, Types, Input, Output, tlsVars, pieceVars, netVars,
     filterVars, ownerVars
<1>4. Rest'
  BY <1>1 DEF Close, Types, Rest, Calls, netVars, filterVars, ownerVars
<1>. QED
  BY <1>2, <1>3, <1>4, <1>g DEF Types

-----------------------------------------------------------------------------
(* The service thread: types *)

LEMMA TlsFailureTypes == TlsFailure \in Seq(Later)
<1>1. {"stopRetry", "disconnected", "inputShutdown"} \subseteq Later
  BY LaterNames
<1>. QED
  BY SMTT(120), <1>1 DEF TlsFailure

LEMMA ConnectingTypes ==
  ASSUME Types, ServiceConnecting, UNCHANGED <<filterVars, ownerVars, peer>> PROVE Types'
<1>1. events' \in Seq(EventNames)
  BY SMTT(120), Appends DEF ServiceConnecting, Types, Rest, EventNames
<1>2. Flags'
  BY DEF ServiceConnecting, OnDisconnected, Types, Flags, roleVars, tlsVars, callVars,
     pieceVars, filterVars, ownerVars
<1>3. Input' /\ Output'
  <2>1. m_inputBuffer' \in {m_inputBuffer, <<>>} /\ m_outputBuffer' \in {m_outputBuffer, <<>>}
    BY DEF ServiceConnecting, OnDisconnected
  <2>2. m_inputBuffer' \in Seq(Byte) /\ m_outputBuffer' \in Seq(Nat)
    <3>1. <<>> \in Seq(Byte) /\ <<>> \in Seq(Nat)
      BY SMTT(120)
    <3>2. m_inputBuffer \in Seq(Byte) /\ m_outputBuffer \in Seq(Nat)
      BY DEF Types, Input, Output
    <3>. QED
      BY <2>1, <3>1, <3>2
  <2>3. Input'
    BY <2>2 DEF ServiceConnecting, Types, Input, netVars, filterVars, ownerVars
  <2>4. Output'
    BY <2>2 DEF ServiceConnecting, Types, Output, tlsVars, callVars, pieceVars, netVars
  <2>. QED
    BY <2>3, <2>4
<1>4. job' \in Job
  <2>1. m_connected' \in BOOLEAN /\ m_readable' \in BOOLEAN /\ m_writable' \in BOOLEAN
        /\ m_secureReady \in BOOLEAN
    BY <1>2 DEF Flags, Types
  <2>. QED
    BY SMTT(120), <2>1, JobFacts DEF ServiceConnecting
<1>5. Rest'
  BY <1>1, <1>4 DEF ServiceConnecting, Types, Rest, callVars, netVars, filterVars, ownerVars
<1>. QED
  BY <1>2, <1>3, <1>5 DEF Types

LEMMA HandshakeTypes ==
  ASSUME Types, ServiceHandshake, UNCHANGED <<filterVars, ownerVars, peer>> PROVE Types'
<1>1. events' \in Seq(EventNames)
  <2>1. events \in Seq(EventNames) /\ "secureConnected" \in EventNames
    BY DEF Types, Rest, EventNames
  <2>2. Append(events, "secureConnected") \in Seq(EventNames)
    BY <2>1, Appends
  <2>3. events \o TlsFailure \in Seq(EventNames)
    BY <2>1, TlsFailureTypes, LaterSeq, Joins
  <2>. QED
    BY <2>2, <2>3 DEF ServiceHandshake
<1>2. Flags'
  <2>1. m_secureReady' \in {m_secureReady, TRUE} /\ m_fatal' \in {m_fatal, TRUE}
    BY DEF ServiceHandshake
  <2>. QED
    <3>1. m_secureReady' \in BOOLEAN /\ m_fatal' \in BOOLEAN
      BY <2>1 DEF Types, Flags
    <3>2. UNCHANGED <<roleVars, flagVars, callVars, filterVars, ownerVars>>
      BY DEF ServiceHandshake
    <3>. QED
      BY <3>1, <3>2
         DEF Types, Flags, roleVars, flagVars, callVars, pieceVars, filterVars, ownerVars
<1>3. Input' /\ Output'
  BY DEF ServiceHandshake, Types, Input, Output, bufVars, callVars,
     pieceVars, netVars, filterVars, ownerVars
<1>4. job' \in Job
  <2>. DEFINE j == JobOf(m_connected, m_readable, m_writable, m_outputBuffer, TRUE)
  <2>0. m_connected \in BOOLEAN /\ m_readable \in BOOLEAN /\ m_writable \in BOOLEAN
    BY DEF Types, Flags
  <2>1. j \in Job
    BY <2>0, JobFacts, TRUE \in BOOLEAN
  <2>. QED
    BY <2>1 DEF ServiceHandshake, Job
<1>5. Rest'
  BY <1>1, <1>4 DEF ServiceHandshake, Types, Rest, callVars, netVars, filterVars, ownerVars
<1>. QED
  BY <1>2, <1>3, <1>5 DEF Types

LEMMA OverTypes == ASSUME NEW ends \in BOOLEAN PROVE Over(ends) \in Seq(Later)
<1>1. "disconnected" \in Later
  BY LaterNames
<1>2. <<"disconnected">> \in Seq(Later) /\ <<>> \in Seq(Later)
  BY SMTT(120), <1>1
<1>. QED
  BY <1>2 DEF Over

LEMMA ReportTypes ==
  ASSUME NEW w, NEW r, NEW a \in BOOLEAN, NEW b \in BOOLEAN
  PROVE  /\ WriteEvents(w, Over(a)) \in Seq(Later)
         /\ ReadEvents(r, Over(b)) \in Seq(Later)
<1>1. \A c \in BOOLEAN : Over(c) \in Seq(Later)
  BY OverTypes
<1>2. /\ <<"outputShutdown">> \in Seq(Later) /\ <<"disconnected">> \in Seq(Later)
      /\ <<"outputError", "disconnected">> \in Seq(Later)
      /\ <<"inputReady">> \in Seq(Later) /\ <<"inputShutdown">> \in Seq(Later)
      /\ <<>> \in Seq(Later)
  BY SMTT(120), LaterNames
<1>3. /\ <<"outputShutdown">> \o Over(a) \in Seq(Later)
      /\ <<"inputShutdown">> \o Over(b) \in Seq(Later)
  BY <1>1, <1>2, Joins
<1>4. WriteEvents(w, Over(a)) \in Seq(Later)
  BY <1>2, <1>3, TlsFailureTypes DEF WriteEvents
<1>5. ReadEvents(r, Over(b)) \in Seq(Later)
  BY <1>2, <1>3, TlsFailureTypes DEF ReadEvents
<1>. QED
  BY <1>4, <1>5

\* The variables that DoWriteDoRead leaves alone, with the step it is part of.
Around == UNCHANGED <<roleVars, m_secureReady, callVars, link, filterVars, ownerVars, peer>>

Outcome(w, n, r, k) ==
  /\ w \in Writes /\ n \in 0..Len(Sent) /\ (w = "some" <=> n > 0)
  /\ r \in Reads /\ k \in 0..Len(inNet) /\ (r \in {"data", "last"} <=> k > 0)
  /\ w = "some" => link # "reset"
  /\ w \in {"shutdown", "disconnected", "error"} => ~secure
  /\ w \in {"disconnected", "error"} => link = "reset"
  /\ w = "retry" => secure
  /\ r \in {"data", "last"} => m_readable
  /\ r = "eof" => link = "eof" /\ inNet = <<>>
  /\ r = "disconnected" => link = "reset" /\ ~secure

LEMMA DoTypes ==
  ASSUME Types, NEW w, NEW n, NEW r, NEW k, Outcome(w, n, r, k),
         DoWriteDoRead(w, n, r, k), Around
  PROVE  Types' /\ Grows
<1>. DEFINE gone == w \in {"disconnected", "error"} \/ r = "disconnected"
            hungUp == w = "shutdown" /\ ~m_readable /\ m_inputBuffer = <<>>
            endsIn == r = "eof" /\ m_inputBuffer = <<>> /\ (~m_writable \/ w = "shutdown")
<1>1. Sent \in Seq(Nat) /\ n \in Nat /\ n <= Len(Sent) /\ k \in Nat /\ k <= Len(inNet)
  BY SMTT(120) DEF Outcome, Sent, Types, Input, Output
<1>2. Flags'
  BY DEF DoWriteDoRead, Types, Flags, Around, roleVars, callVars, pieceVars, filterVars,
     ownerVars
<1>3. m_inputBuffer' \in Seq(Byte) /\ inNet' \in Seq(Byte)
  <2>1. inNet \in Seq(Byte) /\ m_inputBuffer \in Seq(Byte)
    BY DEF Types, Input
  <2>2. SubSeq(inNet, 1, k) \in Seq(Byte) /\ SubSeq(inNet, k + 1, Len(inNet)) \in Seq(Byte)
    BY <1>1, <2>1, Slices
  <2>3. m_inputBuffer \o SubSeq(inNet, 1, k) \in Seq(Byte)
    BY <2>1, <2>2, Joins
  <2>. QED
    BY SMTT(120), <2>2, <2>3 DEF DoWriteDoRead
<1>4. m_outputBuffer' \in Seq(Nat)
  <2>1. SubSeq(m_outputBuffer, n + 1, Len(m_outputBuffer)) \in Seq(Nat)
    BY <1>1, Slices DEF Types, Output
  <2>. QED
    BY SMTT(120), <2>1 DEF DoWriteDoRead
<1>5. outNet' \in Seq(Nat)
  <2>1. SubSeq(Sent, 1, n) \in Seq(Nat)
    BY <1>1, Slices
  <2>2. outNet \o SubSeq(Sent, 1, n) \in Seq(Nat)
    BY <2>1, Joins DEF Types, Output
  <2>. QED
    BY <2>2 DEF DoWriteDoRead, Sent
<1>6. writeRetry' \in Seq(Nat)
  <2>1. writeRetry' = RetryAfter(w, Sent)
    BY DEF DoWriteDoRead, Sent
  <2>. QED
    BY SMTT(120), <1>1, <2>1 DEF RetryAfter, Types, Output
<1>7. events' \in Seq(EventNames) /\ Grows
  <2>1. events' = events \o WriteEvents(w, Over(hungUp)) \o ReadEvents(r, Over(endsIn))
    BY DEF DoWriteDoRead
  <2>2. events \in Seq(EventNames) /\ hungUp \in BOOLEAN /\ endsIn \in BOOLEAN
    BY DEF Types, Rest, Flags
  <2>. HIDE DEF hungUp, endsIn
  <2>3. WriteEvents(w, Over(hungUp)) \in Seq(Later) /\ ReadEvents(r, Over(endsIn)) \in Seq(Later)
    BY <2>2, ReportTypes
  <2>4. Grows
    BY <2>1, <2>2, <2>3, GrowsByTwo
  <2>. QED
    BY <2>2, <2>4, Grown
<1>8. job' \in Job
  <2>1. m_connected' \in BOOLEAN /\ m_readable' \in BOOLEAN /\ m_writable' \in BOOLEAN
        /\ m_secureReady \in BOOLEAN
    BY <1>2 DEF Flags, Types
  <2>2. JobOf(m_connected', m_readable', m_writable', m_outputBuffer', m_secureReady) \in Job
    BY SMTT(120), <2>1, JobFacts
  <2>3. job' \in {NoJob, job,
                  JobOf(m_connected', m_readable', m_writable', m_outputBuffer', m_secureReady)}
    BY DEF DoWriteDoRead
  <2>. QED
    BY <2>2, <2>3 DEF Types, Rest, Job
<1>9. Input' /\ Output'
  BY <1>3, <1>4, <1>5, <1>6 DEF Types, Input, Output, Around, callVars, pieceVars,
     filterVars, ownerVars
<1>10. Rest'
  BY <1>7, <1>8 DEF Types, Rest, Around, callVars, filterVars, ownerVars
<1>. QED
  BY <1>2, <1>7, <1>9, <1>10 DEF Types

\* Input and output stay as they are, or the job finds the connection reset.
ConnectedLost ==
  /\ link = "reset" /\ events' = Append(events, "disconnected") /\ OnDisconnected
  /\ job' = NoJob /\ UNCHANGED <<m_fatal, writeRetry, inNet, outNet>>

LEMMA ConnectedIs ==
  ASSUME Types, ServiceConnected, UNCHANGED <<filterVars, ownerVars, peer>>
  PROVE  /\ job.kind = "connected" /\ Around
         /\ \/ ConnectedLost
            \/ \E w, n, r, k : Outcome(w, n, r, k) /\ DoWriteDoRead(w, n, r, k)
<1>1. CASE ConnectedLost
  BY <1>1 DEF ServiceConnected, Around
<1>2. CASE ~ConnectedLost
  <2>1. PICK read \in {FALSE, job.read /\ (inNet # <<>> \/ link \in {"eof", "reset"})},
             write \in {FALSE, job.write} :
             \E wrote \in WriteOutcomes(write) :
                \E got \in ReadOutcomes(read, wrote[1]) :
                   DoWriteDoRead(wrote[1], wrote[2], got[1], got[2])
    BY <1>2 DEF ServiceConnected, ConnectedLost
  <2>2. PICK wrote \in WriteOutcomes(write) :
                \E got \in ReadOutcomes(read, wrote[1]) :
                   DoWriteDoRead(wrote[1], wrote[2], got[1], got[2])
    BY <2>1
  <2>3. PICK got \in ReadOutcomes(read, wrote[1]) :
                   DoWriteDoRead(wrote[1], wrote[2], got[1], got[2])
    BY <2>2
  <2>4. /\ wrote[1] \in Writes /\ wrote[2] \in 0..Len(Sent)
        /\ wrote[1] = "some" <=> wrote[2] > 0
        /\ wrote[1] = "some" => link # "reset"
        /\ wrote[1] \in {"shutdown", "disconnected", "error"} => ~secure
        /\ wrote[1] \in {"disconnected", "error"} => link = "reset"
        /\ wrote[1] = "retry" => secure
    BY WriteFacts DEF Types, Output
  <2>5. /\ got[1] \in Reads /\ got[2] \in 0..Len(inNet)
        /\ got[1] \in {"data", "last"} <=> got[2] > 0
        /\ got[1] \in {"data", "last"} => m_readable
        /\ got[1] = "eof" => link = "eof" /\ inNet = <<>>
        /\ got[1] = "disconnected" => link = "reset" /\ ~secure
    BY ReadFacts DEF Types, Input
  <2>6. Outcome(wrote[1], wrote[2], got[1], got[2])
    BY <2>4, <2>5 DEF Outcome
  <2>7. job.kind = "connected" /\ Around
    BY DEF ServiceConnected, Around
  <2>. QED
    BY <2>3, <2>6, <2>7
<1>. QED
  BY <1>1, <1>2

LEMMA LostTypes == ASSUME Types, ConnectedLost, Around PROVE Types' /\ Grows
<1>0. events \in Seq(EventNames)
  BY DEF Types, Rest
<1>g. Grows
  BY <1>0, GrowsByOne, LaterNames DEF ConnectedLost
<1>1. events' \in Seq(EventNames)
  BY <1>0, <1>g, Grown
<1>2. Flags'
  BY DEF ConnectedLost, OnDisconnected, Types, Flags, Around, roleVars, callVars,
     pieceVars, filterVars, ownerVars
<1>3. Input' /\ Output'
  BY SMTT(120) DEF ConnectedLost, OnDisconnected, Types, Input, Output, Around, callVars,
     pieceVars, filterVars, ownerVars
<1>4. Rest'
  BY <1>1 DEF ConnectedLost, Types, Rest, Job, Around, callVars, filterVars, ownerVars
<1>. QED
  BY <1>2, <1>3, <1>4, <1>g DEF Types

-----------------------------------------------------------------------------
(* The filter and the owner: types *)

LEMMA ReadMoreTypes == ASSUME Types, ReadMore PROVE Types' /\ Grows
<1>. DEFINE n == IF Len(m_inputBuffer) < ReadChunk THEN Len(m_inputBuffer) ELSE ReadChunk
            buffer == m_buffer \o SubSeq(m_inputBuffer, 1, n)
            sends == IF n > 0 THEN FormatError(m_size, buffer) ELSE <<>>
            rest == SubSeq(m_inputBuffer, n + 1, Len(m_inputBuffer))
            ends == n > 0 /\ rest = <<>> /\ ~m_readable /\ ~m_writable
<1>1. n \in Nat /\ n <= Len(m_inputBuffer)
  BY SMTT(120), Constants DEF Types, Input
<1>2. /\ Read(n, sends)
      /\ m_size' = IF n > 0 THEN SizeAfter(m_size, buffer) ELSE m_size
      /\ m_buffer' = IF n > 0 THEN BufferAfter(m_size, buffer) ELSE m_buffer
      /\ call' \in Calls
      /\ UNCHANGED <<m_inputShutdown, wasReady, ownerVars, peer>>
  BY DEF ReadMore, Calls
<1>. HIDE DEF n
<1>3. buffer \in Seq(Byte) /\ rest \in Seq(Byte) /\ m_size \in Nat
  <2>1. SubSeq(m_inputBuffer, 1, n) \in Seq(Byte)
    BY <1>1, Slices DEF Types, Input
  <2>. QED
    BY <1>1, <2>1, Slices, Joins DEF Types, Input, Rest
<1>4. m_size' \in Nat /\ m_buffer' \in Seq(Byte)
  <2>. HIDE DEF buffer
  <2>. QED
    BY <1>2, <1>3, FilterTypes DEF Types, Input
<1>5. events' \in Seq(EventNames) /\ Grows
  <2>1. sends \in Seq(Later)
    <3>. HIDE DEF buffer
    <3>. QED
      BY SMTT(120), <1>3, FilterTypes
  <2>0. ends \in BOOLEAN
    BY DEF Types, Flags
  <2>. HIDE DEF sends, ends
  <2>2. Over(ends) \in Seq(Later) /\ events \in Seq(EventNames)
    BY <2>0, OverTypes DEF Types, Rest
  <2>3. events' = events \o Over(ends) \o sends
    BY <1>2 DEF Read, Over, ends
  <2>4. Grows
    BY <2>1, <2>2, <2>3, GrowsByTwo
  <2>. QED
    BY <2>2, <2>4, Grown
<1>6. Flags'
  BY <1>2 DEF Read, Types, Flags, roleVars, tlsVars, pieceVars, ownerVars
<1>7. Input' /\ Output'
  BY <1>2, <1>3, <1>4 DEF Read, Types, Input, Output, tlsVars, pieceVars, netVars, ownerVars
<1>8. Rest'
  BY <1>2, <1>4, <1>5 DEF Read, Types, Rest, netVars, ownerVars
<1>. QED
  BY <1>5, <1>6, <1>7, <1>8 DEF Types

LEMMA FilterReadTypes ==
  ASSUME Types, IsReady(m_size, m_buffer), NEW asked \in Nat, FilterRead(asked)
  PROVE  /\ m_size' \in Nat /\ m_buffer' \in Seq(Byte) /\ delivered' \in Seq(Byte)
         /\ events' \in Seq(EventNames) /\ Grows
<1>. DEFINE n == IF asked > m_size THEN m_size ELSE asked
            rest == SubSeq(m_buffer, n + 1, Len(m_buffer))
            left == m_size - n
            last == IF m_inputShutdown /\ m_size' = 0 THEN <<"filterShutdown">> ELSE <<>>
<1>1. n \in Nat /\ n <= Len(m_buffer) /\ left \in Nat
  BY SMTT(120) DEF Types, Input, Rest, IsReady
<1>2. /\ m_size' = SizeAfter(left, rest)
      /\ m_buffer' = BufferAfter(left, rest)
      /\ delivered' = delivered \o SubSeq(m_buffer, 1, n)
      /\ events' = events \o FormatError(left, rest) \o last
  BY DEF FilterRead
<1>. HIDE DEF n, left
<1>3. rest \in Seq(Byte) /\ SubSeq(m_buffer, 1, n) \in Seq(Byte)
  BY <1>1, Slices DEF Types, Input
<1>. HIDE DEF rest
<1>4. m_size' \in Nat /\ m_buffer' \in Seq(Byte)
  BY <1>1, <1>2, <1>3, FilterTypes
<1>5. delivered' \in Seq(Byte)
  <2>1. delivered \in Seq(Byte)
    BY DEF Types, Input
  <2>. QED
    BY <1>2, <1>3, <2>1, Joins
<1>6. events' \in Seq(EventNames) /\ Grows
  <2>1. events \in Seq(EventNames) /\ "filterShutdown" \in Later
    BY LaterNames DEF Types, Rest
  <2>2. last \in Seq(Later)
    BY SMTT(120), <2>1
  <2>3. FormatError(left, rest) \in Seq(Later)
    BY <1>1, <1>3, FilterTypes
  <2>. HIDE DEF last
  <2>4. Grows
    BY <1>2, <2>1, <2>2, <2>3, GrowsByTwo
  <2>. QED
    BY <2>1, <2>4, Grown
<1>. QED
  BY <1>4, <1>5, <1>6

LEMMA OwnerReadsTypes == ASSUME Types, OwnerReads PROVE Types' /\ Grows
<1>1. /\ m_size' \in Nat /\ m_buffer' \in Seq(Byte) /\ delivered' \in Seq(Byte)
      /\ events' \in Seq(EventNames) /\ Grows
  <2>1. CASE IsReady(m_size, m_buffer)
    <3>1. PICK asked \in 1..MaxMessage : FilterRead(asked)
      BY <2>1 DEF OwnerReads
    <3>. QED
      BY SMTT(120), <2>1, <3>1, Constants, FilterReadTypes
  <2>2. CASE ~IsReady(m_size, m_buffer)
    BY <2>2, GrowsByNone DEF OwnerReads, Types, Input, Rest, filterVars
  <2>. QED
    BY <2>1, <2>2
<1>2. call' \in Calls /\ UNCHANGED <<m_inputShutdown, wasReady>>
  BY DEF OwnerReads, Calls, filterVars, FilterRead
<1>. QED
  BY SMTT(120), <1>1, <1>2 DEF OwnerReads, Types, Flags, Input, Output, Rest, roleVars, flagVars,
     bufVars, tlsVars, pieceVars, netVars

LEMMA FilterCloseTypes ==
  ASSUME Types, FilterClose, endTold' \in Nat, events' \in Seq(EventNames)
  PROVE  Types'
<1>1. m_size' \in Nat /\ m_buffer' \in Seq(Byte) /\ call' \in Calls /\ m_fatal' \in BOOLEAN
  BY SMTT(120) DEF FilterClose, BeginClose, Calls, Types, Flags
<1>. QED
  BY SMTT(120), <1>1 DEF FilterClose, BeginClose, Types, Flags, Input, Output, Rest, roleVars, flagVars,
     bufVars, pieceVars, netVars

\* What the owner does with an event it does not close on.
Goes(e) ==
  /\ \/ /\ e = "inputReady"
        /\ call' = "readmore"
        /\ wasReady' = IsReady(m_size, m_buffer)
        /\ UNCHANGED <<m_inputShutdown, made, up>>
     \/ /\ e = "inputShutdown" /\ m_size # 0
        /\ m_inputShutdown' = TRUE
        /\ UNCHANGED <<call, wasReady, made, up>>
     \/ /\ e = "connected" /\ secure
        /\ made' = [kind |-> "handshake", read |-> m_readable, write |-> m_writable]
        /\ call' = "setjob"
        /\ UNCHANGED <<m_inputShutdown, wasReady, up>>
     \/ /\ e = "secureConnected" \/ (e = "connected" /\ ~secure)
        /\ up' = TRUE
        /\ UNCHANGED <<call, m_inputShutdown, wasReady, made>>
     \/ /\ e = "stopRetry"
        /\ UNCHANGED <<call, m_inputShutdown, wasReady, made, up>>
  /\ UNCHANGED <<roleVars, flagVars, bufVars, tlsVars, job, pieceVars, netVars, m_buffer,
                 m_size, delivered, endTold, written, peer>>

Ends(e) ==
  /\ e \in Ending \/ (e = "inputShutdown" /\ m_size = 0)
  /\ FilterClose
  /\ endTold' = IF e \in {"inputShutdown", "filterShutdown"} THEN endTold + 1 ELSE endTold

LEMMA HandleIs ==
  ASSUME Types, HandleEvent
  PROVE  /\ call = "idle" /\ events # <<>> /\ events' = Tail(events)
         /\ Ends(Head(events)) \/ Goes(Head(events))
         /\ Tail(events) \in Seq(EventNames) /\ Head(events) \in EventNames
<1>1. events # <<>> /\ events \in Seq(EventNames)
  BY DEF HandleEvent, Types, Rest
<1>2. Tail(events) \in Seq(EventNames) /\ Head(events) \in EventNames
  BY <1>1, Tails
<1>3. Ends(Head(events)) \/ Goes(Head(events))
  BY DEF HandleEvent, Ends, Goes
<1>. QED
  BY <1>1, <1>2, <1>3 DEF HandleEvent

LEMMA HandleTypes == ASSUME Types, HandleEvent PROVE Types'
<1>1. events' \in Seq(EventNames)
  BY HandleIs
<1>2. CASE Ends(Head(events))
  <2>1. endTold' \in Nat /\ FilterClose
    BY SMTT(120), <1>2 DEF Ends, Types, Rest
  <2>. QED
    BY <1>1, <2>1, FilterCloseTypes
<1>3. CASE Goes(Head(events))
  <2>1. wasReady' \in BOOLEAN /\ m_inputShutdown' \in BOOLEAN /\ up' \in BOOLEAN
    BY <1>3 DEF Goes, IsReady, Types, Flags
  <2>2. made' \in Job /\ call' \in Calls
    BY SMTT(120), <1>3 DEF Goes, Types, Flags, Rest, Calls, Job, JobKinds
  <2>. QED
    BY <1>1, <1>3, <2>1, <2>2 DEF Goes, Types, Flags, Input, Output, Rest, roleVars, flagVars,
       bufVars, tlsVars, pieceVars, netVars
<1>. QED
  BY <1>2, <1>3, HandleIs

LEMMA OwnerWritesTypes == ASSUME Types, OwnerWrites PROVE Types'
<1>1. todo' \in Seq(Seq(Nat)) /\ written' \in Nat /\ thenFlush' \in BOOLEAN
  <2>1. written \in Nat
    BY DEF Types, Rest
  <2>2. <<2 * written + 1>> \in Seq(Nat) /\ <<2 * written + 2>> \in Seq(Nat)
    BY SMTT(120), <2>1
  <2>3. <<<<2 * written + 1>>, <<2 * written + 2>>>> \in Seq(Seq(Nat))
    BY SMTT(120), <2>2
  <2>4. thenFlush' \in BOOLEAN
    BY DEF OwnerWrites, Types, Flags
  <2>. QED
    BY SMTT(120), <2>1, <2>3, <2>4 DEF OwnerWrites
<1>. QED
  BY SMTT(120), <1>1 DEF OwnerWrites, Types, Flags, Input, Output, Rest, Calls, roleVars, flagVars,
     bufVars, tlsVars, netVars, filterVars

LEMMA OwnerClosesTypes == ASSUME Types, OwnerCloses PROVE Types'
<1>1. FilterClose /\ endTold' \in Nat /\ events' \in Seq(EventNames)
  BY DEF OwnerCloses, Types, Rest
<1>. QED
  BY <1>1, FilterCloseTypes

LEMMA NetTypes == ASSUME Types, NetConnect \/ PeerLeaves PROVE Types'
BY SMTT(120) DEF NetConnect, PeerLeaves, Types, Flags, Input, Output, Rest, Links, roleVars, flagVars,
   bufVars, tlsVars, callVars, pieceVars, filterVars, ownerVars

\* The byte the peer sends next, of a packet of this size.
SentByte(size) ==
  IF peer'.payload > peer.payload THEN [kind |-> "p", val |-> peer'.payload]
  ELSE [kind |-> "h", val |-> size]

LEMMA PeerTypes ==
  ASSUME Types, PeerSend
  PROVE  /\ Types'
         /\ \E size \in Nat : inNet' = Append(inNet, SentByte(size))
<1>1. PICK size \in IF peer.left = 0 THEN Sizes ELSE {peer.size} :
          /\ peer' = [size    |-> size,
                      left    |-> IF peer.left = 0 THEN HeaderLen + size - 1
                                  ELSE peer.left - 1,
                      payload |-> IF peer.left \in 1..size THEN peer.payload + 1
                                  ELSE peer.payload,
                      whole   |-> IF peer.left = 1 THEN peer.payload + 1
                                  ELSE peer.whole,
                      bytes   |-> peer.bytes + 1]
          /\ inNet' = Append(inNet, SentByte(size))
  BY DEF PeerSend, SentByte
<1>2. peer \in Peers
  BY DEF Types, Rest
<1>3. size \in Nat
  BY <1>1, <1>2, Constants DEF Peers
<1>4. peer' \in Peers
  BY SMTT(120), <1>1, <1>2, <1>3, Constants DEF Peers
<1>5. SentByte(size) \in Byte
  BY <1>3, <1>4 DEF SentByte, Byte, Peers
<1>6. inNet' \in Seq(Byte)
  BY <1>1, <1>5, Appends DEF Types, Input
<1>7. Types'
  BY SMTT(120), <1>4, <1>6 DEF PeerSend, Types, Flags, Input, Output, Rest, roleVars, flagVars,
     bufVars, tlsVars, callVars, pieceVars, filterVars, ownerVars
<1>. QED
  BY <1>1, <1>3, <1>7

-----------------------------------------------------------------------------
(* The queue of events *)

In(evs, names) == \E i \in DOMAIN evs : evs[i] \in names
Single(evs) == \A i, j \in DOMAIN evs : evs[i] \in Coming /\ evs[j] \in Coming => i = j

Arrived == In(events, Coming)
Secured == In(events, {"secureConnected"})
Hailed == In(events, {"connected"})
AtMostOne == Single(events)

LEMMA InJoined ==
  ASSUME NEW s \in Seq(EventNames), NEW t \in Seq(EventNames), NEW names
  PROVE  In(s \o t, names) <=> In(s, names) \/ In(t, names)
<1>1. ASSUME In(s \o t, names) PROVE In(s, names) \/ In(t, names)
  <2>1. PICK i \in DOMAIN (s \o t) : (s \o t)[i] \in names
    BY <1>1 DEF In
  <2>2. i \in 1..(Len(s) + Len(t)) /\ Len(s) \in Nat /\ Len(t) \in Nat
    BY SMTT(120), <2>1
  <2>3. CASE i <= Len(s)
    BY SMTT(120), <2>1, <2>2, <2>3 DEF In
  <2>4. CASE i > Len(s)
    <3>1. i - Len(s) \in DOMAIN t /\ (s \o t)[i] = t[i - Len(s)]
      BY SMTT(120), <2>2, <2>4
    <3>. QED
      BY <2>1, <3>1 DEF In
  <2>. QED
    BY SMTT(120), <2>2, <2>3, <2>4
<1>2. ASSUME In(s, names) PROVE In(s \o t, names)
  <2>1. PICK i \in DOMAIN s : s[i] \in names
    BY <1>2 DEF In
  <2>2. i \in DOMAIN (s \o t) /\ (s \o t)[i] = s[i]
    BY SMTT(120)
  <2>. QED
    BY <2>1, <2>2 DEF In
<1>3. ASSUME In(t, names) PROVE In(s \o t, names)
  <2>1. PICK i \in DOMAIN t : t[i] \in names
    BY <1>3 DEF In
  <2>2. Len(s) + i \in DOMAIN (s \o t) /\ (s \o t)[Len(s) + i] = t[i]
    BY SMTT(120)
  <2>. QED
    BY <2>1, <2>2 DEF In
<1>. QED
  BY <1>1, <1>2, <1>3

LEMMA InTail ==
  ASSUME NEW s \in Seq(EventNames), s # <<>>, NEW names
  PROVE  /\ In(s, names) <=> Head(s) \in names \/ In(Tail(s), names)
         /\ s = <<Head(s)>> \o Tail(s)
<1>1. s = <<Head(s)>> \o Tail(s) /\ Tail(s) \in Seq(EventNames) /\ Head(s) \in EventNames
  BY SMTT(120)
<1>2. In(<<Head(s)>>, names) <=> Head(s) \in names
  BY SMTT(120) DEF In
<1>3. <<Head(s)>> \in Seq(EventNames)
  BY SMTT(120), <1>1
<1>4. In(<<Head(s)>> \o Tail(s), names) <=> In(<<Head(s)>>, names) \/ In(Tail(s), names)
  BY <1>1, <1>3, InJoined
<1>. QED
  BY <1>1, <1>2, <1>4

LEMMA LaterNotComing ==
  ASSUME NEW t \in Seq(Later), NEW names \in SUBSET Coming PROVE ~In(t, names)
BY SMTT(120) DEF In, Later

LEMMA SingleJoined ==
  ASSUME NEW s \in Seq(EventNames), Single(s), NEW t \in Seq(Later)
  PROVE  Single(s \o t)
<1>1. \A i \in DOMAIN (s \o t) : (s \o t)[i] \in Coming => i \in DOMAIN s /\ (s \o t)[i] = s[i]
  <2>. SUFFICES ASSUME NEW i \in DOMAIN (s \o t), (s \o t)[i] \in Coming
                PROVE  i \in DOMAIN s /\ (s \o t)[i] = s[i]
    OBVIOUS
  <2>1. i \in 1..(Len(s) + Len(t)) /\ Len(s) \in Nat /\ Len(t) \in Nat
    BY SMTT(120)
  <2>2. CASE i <= Len(s)
    BY SMTT(120), <2>1, <2>2
  <2>3. CASE i > Len(s)
    <3>1. i - Len(s) \in DOMAIN t /\ (s \o t)[i] = t[i - Len(s)]
      BY SMTT(120), <2>1, <2>3
    <3>. QED
      BY SMTT(120), <3>1 DEF Later
  <2>. QED
    BY SMTT(120), <2>1, <2>2, <2>3
<1>. QED
  BY <1>1 DEF Single

LEMMA GrowsKeeps ==
  ASSUME Types, Grows
  PROVE  /\ Arrived' <=> Arrived
         /\ Secured' <=> Secured
         /\ Hailed' <=> Hailed
         /\ AtMostOne => AtMostOne'
         /\ \A names : Queued(names) => Queued(names)'
<1>0. PICK more \in Seq(Later) : events' = events \o more
  BY DEF Grows
<1>1. events \in Seq(EventNames) /\ more \in Seq(EventNames)
  BY LaterSeq DEF Types, Rest
<1>2. /\ In(events \o more, Coming) <=> In(events, Coming)
      /\ In(events \o more, {"secureConnected"}) <=> In(events, {"secureConnected"})
      /\ In(events \o more, {"connected"}) <=> In(events, {"connected"})
  <2>1. ~In(more, Coming) /\ ~In(more, {"secureConnected"}) /\ ~In(more, {"connected"})
    BY LaterNotComing DEF Coming
  <2>. QED
    BY <1>1, <2>1, InJoined
<1>3. \A names : In(events, names) => In(events \o more, names)
  BY <1>1, InJoined
<1>4. Single(events) => Single(events \o more)
  BY <1>1, SingleJoined
<1>5. \A names : (Queued(names) <=> In(events, names)) /\ (Queued(names)' <=> In(events', names))
  BY DEF Queued, In
<1>. QED
  BY <1>0, <1>2, <1>3, <1>4, <1>5 DEF Arrived, Secured, Hailed, AtMostOne

LEMMA ArrivesKeeps ==
  ASSUME Types, ~Arrived, NEW name \in Coming, events' = Append(events, name)
  PROVE  /\ Arrived' /\ AtMostOne'
         /\ Secured' <=> name = "secureConnected"
         /\ Hailed' <=> name = "connected"
         /\ \A names : Queued(names) => Queued(names)'
<1>1. events \in Seq(EventNames) /\ name \in EventNames
  BY DEF Types, Rest, Coming, EventNames
<1>2. events' = events \o <<name>> /\ <<name>> \in Seq(EventNames)
  BY <1>1, Appends
<1>3. \A names : In(events', names) <=> In(events, names) \/ name \in names
  <2>1. \A names : In(<<name>>, names) <=> name \in names
    BY SMTT(120) DEF In
  <2>2. \A names : In(events \o <<name>>, names) <=> In(events, names) \/ In(<<name>>, names)
    BY <1>1, <1>2, InJoined
  <2>. QED
    BY <1>2, <2>1, <2>2
<1>4. ~In(events, {"secureConnected"}) /\ ~In(events, {"connected"})
  BY DEF Arrived, In, Coming
<1>5. \A names : (Queued(names) <=> In(events, names)) /\ (Queued(names)' <=> In(events', names))
  BY DEF Queued, In
<1>6. Single(events')
  <2>1. \A i \in DOMAIN events' : events'[i] \in Coming => i = Len(events) + 1
    BY SMTT(120), <1>1 DEF Arrived, In
  <2>. QED
    BY <2>1 DEF Single
<1>. QED
  BY <1>3, <1>4, <1>5, <1>6 DEF Arrived, Secured, Hailed, AtMostOne

LEMMA TakenKeeps ==
  ASSUME Types, AtMostOne, events # <<>>, events' = Tail(events)
  PROVE  /\ Head(events) \in EventNames /\ AtMostOne'
         /\ Arrived' => Arrived
         /\ Head(events) \in Coming => Arrived /\ ~Arrived'
         /\ Head(events) \notin Coming => (Arrived <=> Arrived')
         /\ Secured' => Secured
         /\ Hailed' => Hailed
         /\ Head(events) = "secureConnected" => Secured
         /\ Head(events) = "connected" => Hailed
         /\ \A names : Queued(names) => Head(events) \in names \/ Queued(names)'
<1>1. events \in Seq(EventNames)
  BY DEF Types, Rest
<1>2. \A names : In(events, names) <=> Head(events) \in names \/ In(Tail(events), names)
  BY <1>1, InTail
<1>3. \A names : (Queued(names) <=> In(events, names)) /\ (Queued(names)' <=> In(events', names))
  BY DEF Queued, In
<1>4. /\ \A i \in DOMAIN Tail(events) : i + 1 \in DOMAIN events /\ Tail(events)[i] = events[i + 1]
      /\ Head(events) = events[1] /\ 1 \in DOMAIN events /\ Head(events) \in EventNames
  BY SMTT(120), <1>1
<1>5. Single(Tail(events))
  <2>. SUFFICES ASSUME NEW i \in DOMAIN Tail(events), NEW j \in DOMAIN Tail(events),
                       Tail(events)[i] \in Coming, Tail(events)[j] \in Coming
                PROVE  i = j
    BY DEF Single
  <2>1. i + 1 = j + 1
    BY <1>4 DEF AtMostOne, Single
  <2>2. i \in Nat /\ j \in Nat
    BY SMTT(120), <1>1
  <2>. QED
    BY SMTT(120), <2>1, <2>2
<1>6. Head(events) \in Coming => ~In(Tail(events), Coming)
  <2>. SUFFICES ASSUME Head(events) \in Coming, NEW i \in DOMAIN Tail(events),
                       Tail(events)[i] \in Coming
                PROVE  FALSE
    BY DEF In
  <2>1. i + 1 = 1
    BY <1>4 DEF AtMostOne, Single
  <2>2. i \in Nat /\ i >= 1
    BY SMTT(120), <1>1
  <2>. QED
    BY SMTT(120), <2>1, <2>2
<1>. QED
  BY <1>2, <1>3, <1>4, <1>5, <1>6 DEF Arrived, Secured, Hailed, AtMostOne, Coming

LEMMA HailedArrived == (Hailed => Arrived) /\ (Secured => Arrived)
BY DEF Hailed, Secured, Arrived, In, Coming

LEMMA HailedPrimed == Hailed' => Arrived'
BY DEF Hailed, Arrived, In, Coming

LEMMA SameKeeps ==
  ASSUME UNCHANGED events
  PROVE  /\ Arrived' <=> Arrived
         /\ Secured' <=> Secured
         /\ Hailed' <=> Hailed
         /\ AtMostOne' <=> AtMostOne
         /\ \A names : Queued(names) <=> Queued(names)'
BY DEF Arrived, Secured, Hailed, AtMostOne, In, Single, Queued

-----------------------------------------------------------------------------
(* How far the connection has come *)

\* connect has been called and the connection is still being made.
Raw == ~m_connected /\ (m_readable \/ m_writable)

Shakes(j) == j.kind = "handshake"

\* While the connection is being made there is a connecting job at most, and
\* afterwards there is none.
RawInv ==
  /\ Raw => /\ ~m_readable /\ ~up /\ ~Arrived
            /\ ~Shakes(job) /\ ~Shakes(made)
            /\ job.kind # "connected" /\ made.kind # "connected" /\ ~m_secureReady
  /\ ~Raw => job.kind # "connecting" /\ made.kind # "connecting"

\* A job for connecting or for the handshake replaces none, and the handshake
\* comes before the owner is told of the connection.  Before the handshake a
\* secure connection has no job.
MadeInv ==
  /\ made.kind \in {"connecting", "handshake"} => job = NoJob
  /\ Shakes(job) \/ Shakes(made) => ~up /\ ~Arrived
  /\ call # "setjob" => made = NoJob
  /\ call \in {"connect", "newjob"} /\ ~up => job = NoJob
  /\ Hailed /\ secure => ~m_secureReady /\ job = NoJob /\ made = NoJob

\* The owner is told once, of a connection that is ready; it writes afterwards.
UpInv ==
  /\ up => ~Arrived
  /\ AtMostOne
  /\ Secured \/ (up /\ secure) => m_secureReady
  /\ ~up => /\ todo = <<>> /\ m_outputBuffer = <<>> /\ m_flushed /\ ~thenFlush
            /\ call # "write" /\ ~accepted

CallInv ==
  /\ call = "connect" => /\ job = NoJob /\ made = NoJob /\ ~up /\ ~Arrived
                         /\ ~m_connected /\ ~m_readable /\ ~m_writable /\ ~m_secureReady
  /\ call \in {"shut", "closed"} => job = NoJob
  /\ call \in {"free", "unjob"} => accepted
  /\ accepted => call # "destroy"

Stage == RawInv /\ MadeInv /\ UpInv /\ CallInv

LEMMA InitStage == Init => Stage
<1>. SUFFICES ASSUME Init PROVE Stage
  OBVIOUS
<1>1. ~Arrived /\ ~Secured /\ ~Hailed /\ AtMostOne
  BY SMTT(120) DEF Init, Arrived, Secured, Hailed, AtMostOne, In, Single
<1>2. RawInv /\ MadeInv
  BY <1>1 DEF Init, RawInv, MadeInv, Raw, Shakes, NoJob
<1>3. UpInv /\ CallInv
  BY <1>1 DEF Init, UpInv, CallInv
<1>. QED
  BY <1>2, <1>3 DEF Stage

\* The variables Stage is about, the events aside.
stageVars == <<secure, accepted, m_connected, m_readable, m_writable, m_flushed, m_secureReady,
               m_outputBuffer, job, made, todo, thenFlush, up>>

LEMMA StageKept ==
  ASSUME Stage, UNCHANGED stageVars, Arrived' <=> Arrived, Secured' <=> Secured, Hailed' <=> Hailed, AtMostOne',
         call' = call \/ (call \notin {"connect", "newjob", "setjob"}
                           /\ call' \in {"idle", "readmore", "deliver"})
  PROVE  Stage'
<1>1. RawInv' /\ MadeInv'
  BY DEF Stage, RawInv, MadeInv, Raw, Shakes, stageVars
<1>2. UpInv' /\ CallInv'
  BY DEF Stage, UpInv, CallInv, stageVars
<1>. QED
  BY <1>1, <1>2 DEF Stage

LEMMA ConnectStage ==
  ASSUME Types, Stage, Connect, UNCHANGED <<filterVars, ownerVars, peer>> PROVE Stage'
<1>1. /\ call = "connect" /\ job = NoJob /\ made = NoJob /\ ~up /\ ~Arrived /\ ~Hailed
      /\ ~m_connected /\ ~m_readable /\ ~m_writable /\ ~m_secureReady /\ ~accepted /\ todo = <<>>
      /\ m_outputBuffer = <<>> /\ m_flushed /\ ~thenFlush /\ AtMostOne
  BY HailedArrived DEF Connect, Stage, CallInv, UpInv
<1>2. /\ job' = NoJob /\ made' = NoJob /\ ~up' /\ m_writable' /\ ~accepted' /\ todo' = <<>>
      /\ m_outputBuffer' = <<>> /\ m_flushed' /\ ~thenFlush' /\ call' = "newjob"
      /\ UNCHANGED <<m_secureReady, secure>>
  BY <1>1 DEF Connect, roleVars, bufVars, tlsVars, pieceVars, ownerVars
<1>3. CASE UNCHANGED <<events, m_connected, m_readable>>
  <2>1. ~Arrived' /\ (Secured' <=> Secured) /\ (Hailed' <=> Hailed) /\ AtMostOne'
    BY <1>1, <1>3, SameKeeps
  <2>2. RawInv' /\ MadeInv'
    BY <1>1, <1>2, <1>3, <2>1 DEF RawInv, MadeInv, Raw, Shakes, NoJob
  <2>3. UpInv' /\ CallInv'
    BY <1>1, <1>2, <1>3, <2>1 DEF UpInv, CallInv, Stage
  <2>. QED
    BY <2>2, <2>3 DEF Stage
<1>4. CASE events' = Append(events, "connected") /\ m_connected' = TRUE
  <2>1. Arrived' /\ ~Secured' /\ AtMostOne'
    BY <1>1, <1>4, ArrivesKeeps DEF Coming
  <2>2. RawInv' /\ MadeInv'
    BY <1>1, <1>2, <1>4, <2>1 DEF RawInv, MadeInv, Raw, Shakes, NoJob
  <2>3. UpInv' /\ CallInv'
    BY <1>1, <1>2, <1>4, <2>1 DEF UpInv, CallInv, Stage
  <2>. QED
    BY <2>2, <2>3 DEF Stage
<1>. QED
  BY <1>3, <1>4 DEF Connect

LEMMA WriteStage ==
  ASSUME Types, Stage, todo # <<>>, Write, UNCHANGED <<filterVars, ownerVars, peer>>
  PROVE  Stage'
<1>1. (Arrived' <=> Arrived) /\ (Secured' <=> Secured) /\ (Hailed' <=> Hailed) /\ AtMostOne'
  BY WriteTypes, GrowsKeeps DEF Stage, UpInv
<1>2. up /\ call = "write" /\ made = NoJob
  BY DEF Write, Stage, UpInv, MadeInv
<1>3. /\ call' \in {"write", "flush", "idle", "newjob"}
      /\ UNCHANGED <<secure, accepted, up, job, made, m_connected, m_readable, m_writable,
                     m_secureReady>>
  BY DEF Write, AfterPiece, roleVars, tlsVars, ownerVars
<1>4. RawInv' /\ MadeInv'
  BY <1>1, <1>2, <1>3 DEF Stage, RawInv, MadeInv, Raw, Shakes, NoJob
<1>5. UpInv' /\ CallInv'
  BY <1>1, <1>2, <1>3 DEF Stage, UpInv, CallInv
<1>. QED
  BY <1>4, <1>5 DEF Stage

LEMMA MakeJobStage ==
  ASSUME Types, Stage, MakeJob, UNCHANGED <<filterVars, ownerVars, peer>> PROVE Stage'
<1>1. (Arrived' <=> Arrived) /\ (Secured' <=> Secured) /\ (Hailed' <=> Hailed) /\ AtMostOne'
  BY SameKeeps DEF MakeJob, Stage, UpInv
<1>2. made' \in Job /\ made'.kind \in {"none", "connecting", "connected"}
      /\ (made'.kind = "connecting" => ~m_connected /\ (m_readable \/ m_writable))
      /\ (made'.kind = "connected" => m_connected /\ (secure => m_secureReady))
      /\ (made'.kind = "none" => made' = NoJob)
  <2>1. made' = JobOf(m_connected, m_readable, m_writable, m_outputBuffer, m_secureReady)
    BY DEF MakeJob
  <2>2. /\ m_connected \in BOOLEAN /\ m_readable \in BOOLEAN /\ m_writable \in BOOLEAN
        /\ m_secureReady \in BOOLEAN
    BY DEF Types, Flags
  <2>. QED
    BY <2>1, <2>2 DEF JobOf, Job, NoJob, JobKinds
<1>3. /\ call = "newjob" /\ call' = "setjob"
      /\ UNCHANGED <<secure, accepted, up, job, m_connected, m_readable, m_writable, m_flushed,
                     m_secureReady, m_outputBuffer, todo, thenFlush>>
  BY DEF MakeJob, roleVars, flagVars, bufVars, pieceVars, tlsVars, ownerVars
<1>4. RawInv'
  BY <1>1, <1>2, <1>3 DEF Stage, RawInv, Raw, Shakes
<1>5. MadeInv'
  BY <1>1, <1>2, <1>3, HailedArrived DEF Stage, RawInv, MadeInv, Raw, Shakes
<1>6. UpInv' /\ CallInv'
  BY <1>1, <1>3 DEF Stage, UpInv, CallInv
<1>. QED
  BY <1>4, <1>5, <1>6 DEF Stage

LEMMA SetJobStage ==
  ASSUME Types, Stage, SetJob, UNCHANGED <<filterVars, ownerVars, peer>> PROVE Stage'
<1>1. (Arrived' <=> Arrived) /\ (Secured' <=> Secured) /\ (Hailed' <=> Hailed) /\ AtMostOne'
  BY SameKeeps DEF SetJob, Stage, UpInv
<1>2. job'.kind = made.kind /\ (made = NoJob => job' = NoJob)
  BY SetJobTypes
<1>3. /\ call = "setjob" /\ call' \in {"write", "flush", "idle"} /\ made' = NoJob
      /\ (todo = <<>> => call' # "write")
      /\ UNCHANGED <<secure, accepted, up, m_connected, m_readable, m_writable, m_flushed,
                     m_secureReady, m_outputBuffer, todo, thenFlush>>
  BY DEF SetJob, AfterPiece, roleVars, flagVars, bufVars, pieceVars, tlsVars, ownerVars
<1>4. RawInv' /\ MadeInv'
  BY <1>1, <1>2, <1>3 DEF Stage, RawInv, MadeInv, Raw, Shakes, NoJob
<1>6. UpInv' /\ CallInv'
  BY <1>1, <1>3 DEF Stage, UpInv, CallInv
<1>. QED
  BY <1>4, <1>6 DEF Stage

LEMMA PlainStage ==
  ASSUME Types, Stage, Flush \/ FreeSSLResources \/ RemoveJob,
         UNCHANGED <<filterVars, ownerVars, peer>>
  PROVE  Stage'
<1>1. (Arrived' <=> Arrived) /\ (Secured' <=> Secured) /\ (Hailed' <=> Hailed) /\ AtMostOne'
  BY SameKeeps DEF Flush, FreeSSLResources, RemoveJob, Stage, UpInv
<1>2. UNCHANGED <<secure, accepted, up, made, m_connected, m_readable, m_writable, m_flushed,
                  m_secureReady, m_outputBuffer, todo, thenFlush>>
  BY DEF Flush, FreeSSLResources, RemoveJob, roleVars, flagVars, bufVars, pieceVars, tlsVars,
     ownerVars
<1>3. \/ call = "flush" /\ call' = "idle" /\ job' = job
      \/ call = "free" /\ call' = "unjob" /\ job' = job
      \/ call \in {"unjob", "destroy"} /\ call' = "shut" /\ job' = NoJob
  BY DEF Flush, FreeSSLResources, RemoveJob
<1>4. RawInv' /\ MadeInv'
  BY <1>1, <1>2, <1>3 DEF Stage, RawInv, MadeInv, Raw, Shakes, NoJob
<1>6. UpInv' /\ CallInv'
  BY <1>1, <1>2, <1>3 DEF Stage, UpInv, CallInv
<1>. QED
  BY <1>4, <1>6 DEF Stage

LEMMA CloseStage ==
  ASSUME Types, Stage, Close, UNCHANGED <<filterVars, ownerVars, peer>> PROVE Stage'
<1>1. (Arrived' <=> Arrived) /\ (Secured' <=> Secured) /\ (Hailed' <=> Hailed) /\ AtMostOne'
  BY CloseTypes, GrowsKeeps DEF Stage, UpInv
<1>2. /\ UNCHANGED <<secure, accepted, up, job, made, m_secureReady, todo, thenFlush>>
      /\ ~m_connected' /\ ~m_readable' /\ ~m_writable' /\ m_outputBuffer' = <<>> /\ m_flushed'
      /\ call = "shut" /\ call' = "closed"
  BY DEF Close, OnDisconnected, roleVars, pieceVars, tlsVars, ownerVars
<1>3. job = NoJob /\ made = NoJob
  BY <1>2 DEF Stage, CallInv, MadeInv
<1>4. RawInv' /\ MadeInv'
  BY <1>1, <1>2, <1>3 DEF Stage, RawInv, MadeInv, Raw, Shakes, NoJob
<1>6. UpInv' /\ CallInv'
  BY <1>1, <1>2, <1>3 DEF Stage, UpInv, CallInv
<1>. QED
  BY <1>4, <1>6 DEF Stage

LEMMA ConnectingStage ==
  ASSUME Types, Stage, ServiceConnecting, UNCHANGED <<filterVars, ownerVars, peer>>
  PROVE  Stage'
<1>1. /\ ~m_secureReady /\ job.kind = "connecting" /\ job # NoJob /\ ~up /\ ~Arrived /\ ~Secured /\ ~Hailed /\ AtMostOne
      /\ ~accepted /\ todo = <<>> /\ m_outputBuffer = <<>> /\ m_flushed /\ ~thenFlush
      /\ call \notin {"connect", "newjob", "shut", "closed", "write", "free", "unjob"}
  <2>1. job.kind = "connecting" /\ job # NoJob
    BY SMTT(120) DEF ServiceConnecting, NoJob
  <2>2. ~up /\ ~Arrived /\ ~m_secureReady
    BY <2>1 DEF Stage, RawInv
  <2>3. ~Secured /\ ~Hailed
    BY <2>2, HailedArrived
  <2>. QED
    BY <2>1, <2>2, <2>3 DEF Stage, UpInv, MadeInv, CallInv
<1>2. made = NoJob
  <2>1. made.kind \notin {"connecting", "handshake", "connected"}
    BY <1>1 DEF Stage, RawInv, MadeInv
  <2>. QED
    BY <2>1 DEF Types, Rest, Job, JobKinds
<1>3. UNCHANGED <<secure, accepted, up, made, m_secureReady, todo, thenFlush, call>>
  BY DEF ServiceConnecting, roleVars, tlsVars, callVars, pieceVars, ownerVars
<1>4. CASE events' = Append(events, "connectionFailed") /\ OnDisconnected
  <2>1. (Arrived' <=> Arrived) /\ (Secured' <=> Secured) /\ (Hailed' <=> Hailed) /\ AtMostOne'
    BY <1>1, <1>4, GrowsByOne, LaterNames, GrowsKeeps DEF Types, Rest
  <2>2. job' = NoJob
    BY <1>4 DEF ServiceConnecting, OnDisconnected, JobOf
  <2>3. RawInv' /\ MadeInv'
    BY <1>1, <1>2, <1>3, <1>4, <2>1, <2>2 DEF OnDisconnected, RawInv, MadeInv, Raw, Shakes, NoJob
  <2>4. UpInv' /\ CallInv'
    BY <1>1, <1>2, <1>3, <1>4, <2>1, <2>2 DEF OnDisconnected, UpInv, CallInv
  <2>. QED
    BY <2>3, <2>4 DEF Stage
<1>5. CASE /\ events' = Append(events, "connected")
           /\ m_connected' = TRUE /\ m_readable' = TRUE /\ m_writable' = TRUE
           /\ UNCHANGED <<m_flushed, m_inputBuffer, m_outputBuffer>>
  <2>1. Arrived' /\ ~Secured' /\ AtMostOne'
    BY <1>1, <1>5, ArrivesKeeps DEF Coming
  <2>2. job'.kind \in {"none", "connected"} /\ (secure => job' = NoJob)
    <3>1. job' = JobOf(TRUE, TRUE, TRUE, m_outputBuffer', m_secureReady)
      BY <1>5 DEF ServiceConnecting
    <3>. QED
      BY <1>1, <3>1 DEF JobOf, NoJob
  <2>3. RawInv' /\ MadeInv'
    BY <1>1, <1>2, <1>3, <1>5, <2>1, <2>2 DEF RawInv, MadeInv, Raw, Shakes, NoJob
  <2>4. UpInv' /\ CallInv'
    BY <1>1, <1>2, <1>3, <1>5, <2>1, <2>2 DEF UpInv, CallInv
  <2>. QED
    BY <2>3, <2>4 DEF Stage
<1>. QED
  BY <1>4, <1>5 DEF ServiceConnecting

LEMMA HandshakeStage ==
  ASSUME Types, Stage, ServiceHandshake, UNCHANGED <<filterVars, ownerVars, peer>>
  PROVE  Stage'
<1>1. /\ Shakes(job) /\ job # NoJob /\ ~up /\ ~Arrived /\ ~Secured /\ ~Hailed /\ AtMostOne /\ ~Raw
      /\ ~accepted /\ todo = <<>> /\ m_outputBuffer = <<>> /\ m_flushed /\ ~thenFlush
      /\ call \notin {"connect", "newjob", "shut", "closed", "write", "free", "unjob"}
      /\ made.kind \notin {"connecting", "handshake"} /\ (call # "setjob" => made = NoJob)
  <2>1. Shakes(job) /\ job # NoJob
    BY SMTT(120) DEF ServiceHandshake, NoJob, Shakes
  <2>2. ~up /\ ~Arrived /\ ~Raw
    BY <2>1 DEF Stage, MadeInv, RawInv
  <2>3. ~Secured /\ ~Hailed
    BY <2>2, HailedArrived
  <2>. QED
    BY <2>1, <2>2, <2>3 DEF Stage, UpInv, MadeInv, CallInv
<1>3. UNCHANGED <<secure, accepted, up, made, todo, thenFlush, call,
                  m_connected, m_readable, m_writable, m_flushed, m_outputBuffer>>
  BY DEF ServiceHandshake, roleVars, flagVars, bufVars, callVars, pieceVars, ownerVars
<1>4. (Secured' => m_secureReady') /\ ~Hailed' /\ AtMostOne' /\ job'.kind \in {"none", "connected"}
  <2>1. CASE /\ m_secureReady' = TRUE
             /\ events' = Append(events, "secureConnected")
             /\ job' = JobOf(m_connected, m_readable, m_writable, m_outputBuffer, TRUE)
    <3>1. AtMostOne' /\ ~Hailed'
      BY <1>1, <2>1, ArrivesKeeps DEF Coming
    <3>. QED
      BY <1>1, <2>1, <3>1 DEF JobOf, NoJob, Raw
  <2>2. CASE events' = events \o TlsFailure /\ job' = NoJob
    <3>1. Grows
      BY <2>2, TlsFailureTypes DEF Grows
    <3>2. (Secured' <=> Secured) /\ (Hailed' <=> Hailed) /\ AtMostOne'
      BY <1>1, <3>1, GrowsKeeps
    <3>. QED
      BY <1>1, <2>2, <3>2 DEF NoJob
  <2>. QED
    BY <2>1, <2>2 DEF ServiceHandshake
<1>5. RawInv' /\ MadeInv'
  BY <1>1, <1>3, <1>4 DEF RawInv, MadeInv, Raw, Shakes
<1>6. UpInv' /\ CallInv'
  BY <1>1, <1>3, <1>4 DEF UpInv, CallInv
<1>. QED
  BY <1>5, <1>6 DEF Stage

\* What a run of the connected job makes of the stage, by the flags it leaves.
LEMMA ConnectedStage ==
  ASSUME Types, Stage, Grows, Around, job.kind = "connected", ~Raw',
         job'.kind \in {"none", "connected"},
         ~up => m_outputBuffer' = <<>> /\ m_flushed'
  PROVE  Stage'
<1>1. (Arrived' <=> Arrived) /\ (Secured' <=> Secured) /\ (Hailed' <=> Hailed) /\ AtMostOne'
  BY GrowsKeeps DEF Stage, UpInv
<1>2. UNCHANGED <<secure, accepted, up, made, m_secureReady, todo, thenFlush, call>>
  BY DEF Around, roleVars, callVars, pieceVars, ownerVars
<1>3. job # NoJob
  BY SMTT(120) DEF NoJob
<1>4. ~Raw
  BY DEF Stage, RawInv
<1>5. RawInv' /\ MadeInv'
  BY <1>1, <1>2, <1>3, <1>4 DEF Stage, RawInv, MadeInv, Shakes
<1>6. UpInv' /\ CallInv'
  BY <1>1, <1>2, <1>3, <1>4 DEF Stage, UpInv, CallInv
<1>. QED
  BY <1>5, <1>6 DEF Stage

LEMMA LostStage ==
  ASSUME Types, Stage, job.kind = "connected", ConnectedLost, Around PROVE Stage'
<1>1. ~Raw' /\ job'.kind \in {"none", "connected"} /\ m_outputBuffer' = <<>> /\ m_flushed'
  BY DEF ConnectedLost, OnDisconnected, Raw, NoJob
<1>. QED
  BY <1>1, LostTypes, ConnectedStage

LEMMA DoStage ==
  ASSUME Types, Stage, job.kind = "connected", NEW w, NEW n, NEW r, NEW k,
         Outcome(w, n, r, k), DoWriteDoRead(w, n, r, k), Around
  PROVE  Stage' /\ ~Raw' /\ ~Raw
<1>1. ~Raw
  BY DEF Stage, RawInv
<1>2. ~Raw'
  BY <1>1 DEF DoWriteDoRead, Raw, Types, Flags
<1>3. job'.kind \in {"none", "connected"}
  <2>1. m_connected' \in BOOLEAN /\ m_readable' \in BOOLEAN /\ m_writable' \in BOOLEAN
        /\ m_secureReady \in BOOLEAN
    BY DoTypes DEF Flags, Types
  <2>2. PICK j : j = JobOf(m_connected', m_readable', m_writable', m_outputBuffer', m_secureReady)
    OBVIOUS
  <2>3. j.kind \in {"none", "connecting", "connected"} /\ (j.kind = "connecting" => Raw')
    BY SMTT(120), <2>1, <2>2, JobFacts DEF Raw
  <2>4. job' \in {NoJob, job, j}
    BY <2>2 DEF DoWriteDoRead
  <2>. QED
    BY SMTT(120), <1>2, <2>3, <2>4 DEF NoJob
<1>4. ~up => m_outputBuffer' = <<>> /\ m_flushed'
  <2>. SUFFICES ASSUME ~up PROVE m_outputBuffer' = <<>> /\ m_flushed'
    OBVIOUS
  <2>1. m_outputBuffer = <<>> /\ m_flushed
    BY DEF Stage, UpInv
  <2>2. n \in Nat
    BY SMTT(120) DEF Outcome, Sent, Types, Output
  <2>3. SubSeq(m_outputBuffer, n + 1, Len(m_outputBuffer)) = <<>>
    BY SMTT(120), <2>1, <2>2
  <2>. QED
    BY <2>1, <2>3 DEF DoWriteDoRead
<1>. QED
  BY <1>1, <1>2, <1>3, <1>4, DoTypes, ConnectedStage

LEMMA ReadMoreStage == ASSUME Types, Stage, ReadMore PROVE Stage'
<1>1. (Arrived' <=> Arrived) /\ (Secured' <=> Secured) /\ (Hailed' <=> Hailed) /\ AtMostOne'
  BY ReadMoreTypes, GrowsKeeps DEF Stage, UpInv
<1>2. /\ call = "readmore" /\ call' \in {"readmore", "deliver", "idle"}
      /\ UNCHANGED <<secure, accepted, up, job, made, m_readable, m_writable, m_flushed,
                     m_secureReady, m_outputBuffer, todo, thenFlush>>
      /\ m_connected' = m_connected \/ (~m_readable /\ ~m_writable)
  BY DEF ReadMore, Read, roleVars, pieceVars, tlsVars, ownerVars, Types, Flags
<1>3. Raw' <=> Raw
  BY SMTT(120), <1>2 DEF Raw
<1>4. RawInv' /\ MadeInv'
  BY <1>1, <1>2, <1>3 DEF Stage, RawInv, MadeInv, Shakes
<1>5. UpInv' /\ CallInv'
  BY <1>1, <1>2 DEF Stage, UpInv, CallInv
<1>. QED
  BY <1>4, <1>5 DEF Stage

LEMMA OwnerReadsStage == ASSUME Types, Stage, OwnerReads PROVE Stage'
<1>1. (Arrived' <=> Arrived) /\ (Secured' <=> Secured) /\ (Hailed' <=> Hailed) /\ AtMostOne'
  BY OwnerReadsTypes, GrowsKeeps DEF Stage, UpInv
<1>2. call = "deliver" /\ call' \in {"idle", "deliver"} /\ UNCHANGED stageVars
  BY DEF OwnerReads, stageVars, roleVars, flagVars, bufVars, tlsVars, pieceVars
<1>. QED
  BY <1>1, <1>2, StageKept

LEMMA FilterCloseStage ==
  ASSUME Stage, call = "idle", FilterClose, Arrived' => Arrived, Secured' => Secured, Hailed' => Hailed, AtMostOne'
  PROVE  Stage'
<1>1. /\ call' = IF accepted THEN "free" ELSE "destroy"
      /\ UNCHANGED stageVars
  BY DEF FilterClose, BeginClose, stageVars, roleVars, flagVars, bufVars, pieceVars
<1>2. RawInv' /\ MadeInv'
  BY <1>1 DEF Stage, RawInv, MadeInv, Raw, Shakes, stageVars
<1>3. UpInv' /\ CallInv'
  BY <1>1 DEF Stage, UpInv, CallInv, stageVars
<1>. QED
  BY <1>2, <1>3 DEF Stage

LEMMA HandleStage == ASSUME Types, Stage, HandleEvent PROVE Stage'
<1>1. /\ call = "idle" /\ events # <<>> /\ events' = Tail(events)
      /\ Ends(Head(events)) \/ Goes(Head(events))
  BY HandleIs
<1>2. AtMostOne
  BY DEF Stage, UpInv
<1>3. /\ AtMostOne' /\ (Arrived' => Arrived) /\ (Secured' => Secured) /\ (Hailed' => Hailed)
      /\ Head(events) \in Coming => Arrived /\ ~Arrived'
      /\ Head(events) \notin Coming => (Arrived <=> Arrived')
      /\ Head(events) = "secureConnected" => Secured
      /\ Head(events) = "connected" => Hailed
  BY <1>1, <1>2, TakenKeeps
<1>4. CASE Ends(Head(events))
  BY <1>1, <1>3, <1>4, FilterCloseStage DEF Ends
<1>5. CASE Goes(Head(events))
  <2>. PICK e : e = Head(events)
    OBVIOUS
  <2>1. /\ UNCHANGED <<secure, accepted, m_connected, m_readable, m_writable, m_flushed,
                       m_secureReady, m_outputBuffer, job, todo, thenFlush>>
        /\ \/ UNCHANGED <<up, made>> /\ call' \in {"idle", "readmore"}
           \/ /\ e = "connected" /\ secure /\ UNCHANGED up /\ call' = "setjob"
              /\ made' = [kind |-> "handshake", read |-> m_readable, write |-> m_writable]
           \/ /\ e = "secureConnected" \/ (e = "connected" /\ ~secure)
              /\ up' = TRUE /\ UNCHANGED <<made, call>>
    BY <1>1, <1>5 DEF Goes, roleVars, flagVars, bufVars, tlsVars, pieceVars, Coming
  <2>2. made = NoJob
    BY <1>1 DEF Stage, MadeInv
  <2>3. CASE UNCHANGED <<up, made>> /\ call' \in {"idle", "readmore"}
    <3>1. RawInv' /\ MadeInv'
      BY <1>1, <1>3, <2>1, <2>2, <2>3 DEF Stage, RawInv, MadeInv, Raw, Shakes, NoJob
    <3>2. UpInv' /\ CallInv'
      BY <1>1, <1>3, <2>1, <2>2, <2>3 DEF Stage, UpInv, CallInv
    <3>. QED
      BY <3>1, <3>2 DEF Stage
  <2>4. CASE /\ e = "connected" /\ secure /\ UNCHANGED up /\ call' = "setjob"
             /\ made' = [kind |-> "handshake", read |-> m_readable, write |-> m_writable]
    <3>0. Arrived /\ ~Arrived' /\ ~Hailed' /\ ~up /\ job = NoJob
      BY <1>3, <2>4, HailedPrimed DEF Stage, UpInv, MadeInv, Coming
    <3>1. RawInv'
      BY <1>1, <1>3, <2>1, <2>2, <2>4, <3>0 DEF Stage, RawInv, Raw, Shakes, NoJob
    <3>2. MadeInv'
      BY <1>1, <1>3, <2>1, <2>2, <2>4, <3>0 DEF Stage, MadeInv, RawInv, Shakes, NoJob
    <3>3. UpInv' /\ CallInv'
      BY <1>1, <1>3, <2>1, <2>2, <2>4, <3>0 DEF Stage, UpInv, CallInv
    <3>. QED
      BY <3>1, <3>2, <3>3 DEF Stage
  <2>5. CASE /\ e = "secureConnected" \/ (e = "connected" /\ ~secure)
             /\ up' = TRUE /\ UNCHANGED <<made, call>>
    <3>0. Arrived /\ ~Arrived' /\ ~Hailed' /\ ~up /\ (secure => m_secureReady)
      BY <1>3, <2>5, HailedPrimed DEF Stage, UpInv, Coming
    <3>1. RawInv' /\ MadeInv'
      BY <1>1, <1>3, <2>1, <2>2, <2>5, <3>0 DEF Stage, RawInv, MadeInv, Raw, Shakes, NoJob
    <3>2. UpInv' /\ CallInv'
      BY <1>1, <1>3, <2>1, <2>2, <2>5, <3>0 DEF Stage, UpInv, CallInv
    <3>. QED
      BY <3>1, <3>2 DEF Stage
  <2>. QED
    BY <2>1, <2>3, <2>4, <2>5
<1>. QED
  BY <1>1, <1>4, <1>5

LEMMA OwnerWritesStage == ASSUME Types, Stage, OwnerWrites PROVE Stage'
<1>1. (Arrived' <=> Arrived) /\ (Secured' <=> Secured) /\ (Hailed' <=> Hailed) /\ AtMostOne'
  BY SameKeeps DEF OwnerWrites, Stage, UpInv
<1>2. /\ call = "idle" /\ up /\ call' = "write"
      /\ UNCHANGED <<secure, accepted, m_connected, m_readable, m_writable, m_flushed,
                     m_secureReady, m_outputBuffer, job, made, up>>
  BY DEF OwnerWrites, roleVars, flagVars, bufVars, tlsVars
<1>3. RawInv' /\ MadeInv'
  BY <1>1, <1>2 DEF Stage, RawInv, MadeInv, Raw, Shakes
<1>4. UpInv' /\ CallInv'
  BY <1>1, <1>2 DEF Stage, UpInv, CallInv
<1>. QED
  BY <1>3, <1>4 DEF Stage

LEMMA OwnerClosesStage == ASSUME Types, Stage, OwnerCloses PROVE Stage'
<1>1. (Arrived' <=> Arrived) /\ (Secured' <=> Secured) /\ (Hailed' <=> Hailed) /\ AtMostOne'
  BY SameKeeps DEF OwnerCloses, Stage, UpInv
<1>. QED
  BY <1>1, FilterCloseStage DEF OwnerCloses

LEMMA FarStage == ASSUME Types, Stage, NetConnect \/ PeerLeaves \/ PeerSend PROVE Stage'
<1>1. UNCHANGED <<stageVars, events, call>>
  BY DEF NetConnect, PeerLeaves, PeerSend, stageVars, roleVars, flagVars, bufVars, tlsVars,
     callVars, pieceVars, ownerVars
<1>2. (Arrived' <=> Arrived) /\ (Secured' <=> Secured) /\ (Hailed' <=> Hailed) /\ AtMostOne'
  BY <1>1, SameKeeps DEF Stage, UpInv
<1>. QED
  BY <1>1, <1>2, StageKept

-----------------------------------------------------------------------------
(* Output: there is a job for it *)

Served(j) == j.kind = "connected" /\ j.write

\* The main thread has made the job, or is about to make it, or has set it.
Serving ==
  IF call = "newjob" THEN TRUE ELSE IF call = "setjob" THEN Served(made) ELSE Served(job)

PiecesInv ==
  /\ call = "write" => todo # <<>>
  /\ \A i \in DOMAIN todo : todo[i] # <<>>

OutInv ==
  /\ ~m_flushed => m_outputBuffer # <<>>
  /\ m_outputBuffer # <<>> => m_writable /\ m_connected
  /\ m_outputBuffer # <<>> /\ ~m_fatal /\ Attended => Serving

LEMMA InitOut == Init => PiecesInv /\ OutInv
BY SMTT(120) DEF Init, PiecesInv, OutInv

LEMMA PiecesTail ==
  ASSUME Types, PiecesInv, todo # <<>>
  PROVE  /\ Head(todo) # <<>> /\ Head(todo) \in Seq(Nat)
         /\ \A i \in DOMAIN Tail(todo) : Tail(todo)[i] # <<>>
<1>1. todo \in Seq(Seq(Nat))
  BY DEF Types, Output
<1>2. /\ Head(todo) = todo[1] /\ 1 \in DOMAIN todo /\ Head(todo) \in Seq(Nat)
      /\ \A i \in DOMAIN Tail(todo) : i + 1 \in DOMAIN todo /\ Tail(todo)[i] = todo[i + 1]
  BY SMTT(120), <1>1
<1>. QED
  BY <1>2 DEF PiecesInv

\* With no output to write, now or before, there is nothing to serve.
LEMMA NoOutput ==
  ASSUME m_outputBuffer = <<>>, m_flushed, UNCHANGED <<m_outputBuffer, m_flushed>>
  PROVE  OutInv'
BY DEF OutInv

LEMMA PiecesKept ==
  ASSUME PiecesInv, UNCHANGED todo, call' # "write" \/ call' = call
  PROVE  PiecesInv'
BY DEF PiecesInv

LEMMA OutKept ==
  ASSUME OutInv, UNCHANGED <<m_outputBuffer, m_flushed, m_writable, m_connected, job, made>>,
         m_fatal => m_fatal',
         \/ call' = call
         \/ call \notin {"newjob", "setjob"} /\ Attended /\ call' \notin {"newjob", "setjob"}
         \/ ~Attended'
  PROVE  OutInv'
BY DEF OutInv, Serving, Attended

LEMMA WriteOut ==
  ASSUME Types, Stage, PiecesInv, OutInv, Write, UNCHANGED <<filterVars, ownerVars, peer>>
  PROVE  PiecesInv' /\ OutInv'
<1>1. /\ call = "write" /\ todo # <<>> /\ todo' = Tail(todo)
      /\ UNCHANGED <<m_connected, m_readable, m_writable, m_fatal, job, made>>
  BY DEF Write, PiecesInv, tlsVars
<1>2. PiecesInv'
  BY <1>1, PiecesTail DEF Write, PiecesInv, AfterPiece
<1>3. CASE ~m_writable
  <2>1. UNCHANGED <<m_outputBuffer, m_flushed>> /\ call' \in {"write", "flush", "idle"}
    BY <1>3 DEF Write, AfterPiece
  <2>2. OutInv'
    BY <1>1, <2>1, OutKept DEF Attended
  <2>. QED
    BY <1>2, <2>2
<1>4. CASE m_writable
  <2>1. /\ m_outputBuffer' = m_outputBuffer \o Head(todo)
        /\ IF m_outputBuffer = <<>> THEN call' = "newjob" ELSE call' \in {"write", "flush", "idle"}
    BY <1>4 DEF Write, AfterPiece
  <2>2. m_outputBuffer' # <<>>
    BY SMTT(120), <1>1, <2>1, PiecesTail, Joins DEF Types, Output
  <2>3. up /\ ~Raw /\ m_connected
    BY <1>1, <1>4 DEF Stage, UpInv, RawInv, Raw
  <2>4. OutInv'
    BY <1>1, <1>4, <2>1, <2>2, <2>3 DEF OutInv, Serving, Attended
  <2>. QED
    BY <1>2, <2>4
<1>. QED
  BY <1>3, <1>4

LEMMA MakeJobOut ==
  ASSUME Types, Stage, PiecesInv, OutInv, MakeJob, UNCHANGED <<filterVars, ownerVars, peer>>
  PROVE  PiecesInv' /\ OutInv'
<1>1. /\ call = "newjob" /\ call' = "setjob"
      /\ UNCHANGED <<m_connected, m_writable, m_flushed, m_outputBuffer, m_fatal, todo>>
  BY DEF MakeJob, flagVars, bufVars, tlsVars, pieceVars
<1>2. m_outputBuffer # <<>> => m_connected /\ m_writable /\ (secure => m_secureReady)
  BY DEF OutInv, Stage, UpInv
<1>3. m_outputBuffer # <<>> => Served(made')
  <2>1. /\ m_connected \in BOOLEAN /\ m_readable \in BOOLEAN /\ m_writable \in BOOLEAN
        /\ m_secureReady \in BOOLEAN
    BY DEF Types, Flags
  <2>2. made' = JobOf(m_connected, m_readable, m_writable, m_outputBuffer, m_secureReady)
    BY DEF MakeJob
  <2>3. m_connected /\ m_writable /\ m_outputBuffer # <<>> /\ (secure => m_secureReady) =>
          made'.kind = "connected" /\ made'.write
    BY <2>1, <2>2 DEF JobOf
  <2>. QED
    BY <1>2, <2>3 DEF Served
<1>4. OutInv'
  BY <1>1, <1>2, <1>3 DEF OutInv, Serving
<1>. QED
  BY <1>1, <1>4, PiecesKept

LEMMA SetJobOut ==
  ASSUME Types, Stage, PiecesInv, OutInv, SetJob, UNCHANGED <<filterVars, ownerVars, peer>>
  PROVE  PiecesInv' /\ OutInv'
<1>1. /\ call = "setjob" /\ call' \in {"write", "flush", "idle"}
      /\ (todo = <<>> => call' # "write")
      /\ UNCHANGED <<m_connected, m_writable, m_flushed, m_outputBuffer, m_fatal, todo>>
  BY DEF SetJob, AfterPiece, flagVars, bufVars, tlsVars, pieceVars
<1>2. Served(made) => Served(job')
  BY SetJobTypes DEF Served
<1>3. OutInv'
  BY <1>1, <1>2 DEF OutInv, Serving, Attended
<1>. QED
  BY <1>1, <1>3 DEF PiecesInv

LEMMA DoOut ==
  ASSUME Types, Stage, OutInv, job.kind = "connected", NEW w, NEW n, NEW r, NEW k,
         Outcome(w, n, r, k), DoWriteDoRead(w, n, r, k), Around
  PROVE  OutInv'
<1>. DEFINE gone == w \in {"disconnected", "error"} \/ r = "disconnected"
            output == SubSeq(m_outputBuffer, n + 1, Len(m_outputBuffer))
            breaks == w = "fatal" \/ r \in {"fatal", "last"}
            renews == w # "none" \/ r \in {"eof", "disconnected", "retry"}
<1>1. n \in Nat /\ m_outputBuffer \in Seq(Nat) /\ (w = "some" <=> n > 0)
  BY SMTT(120) DEF Outcome, Sent, Types, Output
<1>2. m_outputBuffer' = IF gone \/ w = "shutdown" THEN <<>> ELSE output
  BY DEF DoWriteDoRead
<1>3. (n = 0 => output = m_outputBuffer) /\ (m_outputBuffer = <<>> => output = <<>>)
  BY SMTT(120), <1>1, Slices
<1>4. m_flushed' = (m_flushed \/ gone \/ w = "shutdown" \/ (n > 0 /\ output = <<>>))
  BY DEF DoWriteDoRead
<1>. HIDE DEF output
<1>5. ASSUME ~m_flushed' PROVE m_outputBuffer' # <<>>
  <2>1. ~m_flushed /\ ~gone /\ w # "shutdown" /\ ~(n > 0 /\ output = <<>>)
    BY <1>4, <1>5
  <2>2. m_outputBuffer # <<>>
    BY <2>1 DEF OutInv
  <2>3. n = 0 \/ n > 0
    BY SMTT(120), <1>1
  <2>4. output # <<>>
    BY <1>3, <2>1, <2>2, <2>3
  <2>. QED
    BY <1>2, <2>1, <2>4
<1>6. ASSUME m_outputBuffer' # <<>>
      PROVE  m_outputBuffer # <<>> /\ m_writable /\ m_connected /\ m_writable' /\ m_connected'
  <2>1. m_outputBuffer # <<>> /\ ~gone /\ w # "shutdown"
    BY <1>2, <1>3, <1>6
  <2>2. m_writable /\ m_connected
    BY <2>1 DEF OutInv
  <2>. QED
    BY <2>1, <2>2 DEF DoWriteDoRead
<1>7. ASSUME m_outputBuffer' # <<>>, ~m_fatal', Attended' PROVE Serving'
  <2>1. ~m_fatal /\ ~breaks
    BY <1>7 DEF DoWriteDoRead
  <2>2. UNCHANGED <<secure, call, made, up, m_secureReady>>
    BY DEF Around, callVars, roleVars, ownerVars
  <2>3. Serving
    BY <1>6, <1>7, <2>1, <2>2 DEF OutInv, Attended
  <2>4. CASE call \in {"newjob", "setjob"}
    BY <2>2, <2>3, <2>4 DEF Serving, Served
  <2>5. CASE call \notin {"newjob", "setjob"} /\ ~renews
    <3>1. job' = job
      BY <2>1, <2>5 DEF DoWriteDoRead
    <3>. QED
      BY <2>2, <2>3, <2>5, <3>1 DEF Serving, Served
  <2>6. CASE call \notin {"newjob", "setjob"} /\ renews
    <3>1. job' = JobOf(m_connected', m_readable', m_writable', m_outputBuffer', m_secureReady)
      BY <2>1, <2>6 DEF DoWriteDoRead
    <3>2. up /\ (secure => m_secureReady)
      BY <1>6, <1>7 DEF Stage, UpInv
    <3>3. m_connected' \in BOOLEAN /\ m_readable' \in BOOLEAN /\ m_writable' \in BOOLEAN
          /\ m_secureReady \in BOOLEAN
      BY DoTypes DEF Flags, Types
    <3>4. m_connected' /\ m_writable' /\ m_outputBuffer' # <<>> /\ (secure => m_secureReady) =>
            job'.kind = "connected" /\ job'.write
      BY <3>1, <3>3 DEF JobOf
    <3>5. Served(job')
      BY <1>6, <1>7, <3>2, <3>4 DEF Served
    <3>. QED
      BY <2>2, <2>6, <3>5 DEF Serving
  <2>. QED
    BY <2>4, <2>5, <2>6
<1>. QED
  BY <1>5, <1>6, <1>7 DEF OutInv

LEMMA ServiceOut ==
  ASSUME Types, Stage, PiecesInv, OutInv, ServiceJob, UNCHANGED <<filterVars, ownerVars, peer>>
  PROVE  PiecesInv' /\ OutInv'
<1>1. PiecesInv'
  BY PiecesKept DEF ServiceJob, ServiceConnecting, ServiceHandshake, ServiceConnected, callVars,
     pieceVars
<1>2. CASE ServiceConnecting
  <2>1. ~up
    BY <1>2 DEF ServiceConnecting, Stage, RawInv
  <2>2. m_outputBuffer = <<>> /\ m_flushed
    BY <2>1 DEF Stage, UpInv
  <2>3. m_outputBuffer' = <<>> /\ m_flushed'
    BY <1>2, <2>2 DEF ServiceConnecting, OnDisconnected
  <2>. QED
    BY <1>1, <2>3 DEF OutInv
<1>3. CASE ServiceHandshake
  <2>1. ~up
    BY <1>3 DEF ServiceHandshake, Stage, MadeInv, Shakes
  <2>2. m_outputBuffer = <<>> /\ m_flushed
    BY <2>1 DEF Stage, UpInv
  <2>3. m_outputBuffer' = <<>> /\ m_flushed'
    BY <1>3, <2>2 DEF ServiceHandshake, bufVars, flagVars
  <2>. QED
    BY <1>1, <2>3 DEF OutInv
<1>4. CASE ServiceConnected
  <2>1. CASE ConnectedLost
    BY <1>1, <2>1 DEF ConnectedLost, OnDisconnected, OutInv
  <2>2. CASE ~ConnectedLost
    <3>1. PICK w, n, r, k : Outcome(w, n, r, k) /\ DoWriteDoRead(w, n, r, k)
      BY <1>4, <2>2, ConnectedIs
    <3>. QED
      BY <1>1, <1>4, <3>1, ConnectedIs, DoOut
  <2>. QED
    BY <2>1, <2>2
<1>. QED
  BY <1>2, <1>3, <1>4 DEF ServiceJob

LEMMA MainOut ==
  ASSUME Types, Stage, PiecesInv, OutInv, UNCHANGED <<filterVars, ownerVars, peer>>,
         Connect \/ Flush \/ FreeSSLResources \/ RemoveJob \/ Close
  PROVE  PiecesInv' /\ OutInv'
<1>1. PiecesInv'
  BY PiecesKept DEF Connect, Flush, FreeSSLResources, RemoveJob, Close, pieceVars
<1>2. CASE Connect
  <2>1. m_outputBuffer = <<>> /\ m_flushed
    BY <1>2 DEF Connect, Stage, CallInv, UpInv
  <2>. QED
    BY <1>1, <1>2, <2>1, NoOutput DEF Connect, bufVars
<1>3. CASE Flush
  BY <1>1, <1>3, OutKept DEF Flush, flagVars, bufVars, tlsVars, Attended
<1>4. CASE FreeSSLResources
  BY <1>1, <1>4, OutKept DEF FreeSSLResources, flagVars, bufVars, tlsVars, Attended
<1>5. CASE RemoveJob
  BY <1>1, <1>5 DEF RemoveJob, flagVars, bufVars, OutInv, Attended
<1>6. CASE Close
  BY <1>1, <1>6 DEF Close, OnDisconnected, OutInv
<1>. QED
  BY <1>2, <1>3, <1>4, <1>5, <1>6

LEMMA FilterCloseOut ==
  ASSUME Types, PiecesInv, OutInv, FilterClose PROVE PiecesInv' /\ OutInv'
<1>1. /\ ~Attended' /\ UNCHANGED <<m_outputBuffer, m_flushed, m_writable, m_connected, todo>>
      /\ call' # "write"
  BY DEF FilterClose, BeginClose, Attended, flagVars, bufVars, pieceVars
<1>. QED
  BY <1>1 DEF PiecesInv, OutInv

LEMMA OwnerOut ==
  ASSUME Types, Stage, PiecesInv, OutInv,
         ReadMore \/ OwnerReads \/ HandleEvent \/ OwnerWrites \/ OwnerCloses
  PROVE  PiecesInv' /\ OutInv'
<1>1. CASE ReadMore
  <2>1. /\ UNCHANGED <<m_outputBuffer, m_flushed, m_writable, job, made, m_fatal, todo>>
        /\ call = "readmore" /\ call' \in {"readmore", "deliver", "idle"}
        /\ m_writable => m_connected' = m_connected
    BY <1>1 DEF ReadMore, Read, tlsVars, pieceVars, Types, Flags
  <2>. QED
    BY SMTT(120), <2>1 DEF PiecesInv, OutInv, Serving, Attended
<1>2. CASE OwnerReads
  <2>1. /\ UNCHANGED <<m_outputBuffer, m_flushed, m_writable, m_connected, job, made, m_fatal, todo>>
        /\ call = "deliver" /\ call' \in {"deliver", "idle"}
    BY <1>2 DEF OwnerReads, flagVars, bufVars, tlsVars, pieceVars
  <2>. QED
    BY <2>1 DEF PiecesInv, OutInv, Serving, Attended
<1>3. CASE HandleEvent /\ Ends(Head(events))
  BY <1>3, FilterCloseOut DEF Ends
<1>4. CASE HandleEvent /\ Goes(Head(events))
  <2>0. call = "idle" /\ AtMostOne
    BY <1>4, HandleIs DEF Stage, UpInv
  <2>1. /\ UNCHANGED <<m_outputBuffer, m_flushed, m_writable, m_connected, job, m_fatal, todo>>
        /\ \/ call' \in {"idle", "readmore"} /\ UNCHANGED made
           \/ call' = "setjob" /\ Head(events) = "connected"
    BY <1>4, <2>0 DEF Goes, flagVars, bufVars, tlsVars, pieceVars
  <2>2. CASE call' \in {"idle", "readmore"} /\ UNCHANGED made
    BY <2>0, <2>1, <2>2 DEF PiecesInv, OutInv, Serving, Attended
  <2>3. CASE call' = "setjob" /\ Head(events) = "connected"
    <3>1. Arrived
      BY <1>4, <2>0, <2>3, HandleIs, TakenKeeps DEF Coming
    <3>2. m_outputBuffer = <<>> /\ m_flushed
      BY <3>1 DEF Stage, UpInv
    <3>. QED
      BY <2>1, <2>3, <3>2 DEF PiecesInv, OutInv
  <2>. QED
    BY <2>1, <2>2, <2>3
<1>5. CASE OwnerWrites
  <2>1. /\ UNCHANGED <<m_outputBuffer, m_flushed, m_writable, m_connected, job, made, m_fatal>>
        /\ call = "idle" /\ call' = "write"
        /\ todo' = <<<<2 * written + 1>>, <<2 * written + 2>>>>
    BY <1>5 DEF OwnerWrites, flagVars, bufVars, tlsVars
  <2>2. OutInv'
    BY <2>1 DEF OutInv, Serving, Attended
  <2>3. PiecesInv'
    <3>1. \A x : <<x>> # <<>>
      OBVIOUS
    <3>2. DOMAIN todo' = 1..2 /\ todo'[1] # <<>> /\ todo'[2] # <<>> /\ todo' # <<>>
      BY SMTT(120), <2>1, <3>1
    <3>. QED
      BY SMTT(120), <3>2 DEF PiecesInv
  <2>. QED
    BY <2>2, <2>3
<1>6. CASE OwnerCloses
  BY <1>6, FilterCloseOut DEF OwnerCloses
<1>. QED
  BY <1>1, <1>2, <1>3, <1>4, <1>5, <1>6, HandleIs

LEMMA FarOut ==
  ASSUME PiecesInv, OutInv, NetConnect \/ PeerLeaves \/ PeerSend PROVE PiecesInv' /\ OutInv'
<1>1. UNCHANGED <<m_outputBuffer, m_flushed, m_writable, m_connected, job, made, m_fatal, call, todo>>
  BY DEF NetConnect, PeerLeaves, PeerSend, flagVars, bufVars, tlsVars, callVars, pieceVars
<1>. QED
  BY <1>1, OutKept, PiecesKept

-----------------------------------------------------------------------------
(* Input: somebody has been told of it *)

\* A readMore that finds a packet it has found before is called again only
\* because the connection is about to end.
Signalled ==
  /\ InputSignalled
  /\ call = "readmore" /\ wasReady => Queued(Ending)

LEMMA InitSignalled == Init => Signalled
BY DEF Init, Signalled, InputSignalled, IsReady

Reading == {"readmore", "deliver"}

\* Steps that read nothing and take no event.
LEMMA SignalKept ==
  ASSUME Signalled, \A names : Queued(names) => Queued(names)',
         m_inputBuffer' # <<>> => m_inputBuffer # <<>>,
         UNCHANGED <<m_size, m_buffer, wasReady>>,
         Attended' => Attended,
         call' = call \/ (call \notin Reading /\ call' \notin Reading)
  PROVE  Signalled'
BY DEF Signalled, InputSignalled, Reading

LEMMA ClosedSignalled == ASSUME ~Attended' PROVE Signalled'
BY DEF Signalled, InputSignalled, Attended

LEMMA DoSignalled ==
  ASSUME Types, Signalled, NEW w, NEW n, NEW r, NEW k,
         Outcome(w, n, r, k), DoWriteDoRead(w, n, r, k), Around
  PROVE  Signalled'
<1>1. \A names : Queued(names) => Queued(names)'
  BY DoTypes, GrowsKeeps
<1>2. UNCHANGED <<m_size, m_buffer, wasReady, call>>
  BY DEF Around, filterVars, callVars
<1>3. CASE m_inputBuffer' = <<>> \/ m_inputBuffer # <<>>
  BY <1>1, <1>2, <1>3, SignalKept DEF Attended
<1>4. CASE m_inputBuffer' # <<>> /\ m_inputBuffer = <<>>
  <2>. DEFINE hungUp == w = "shutdown" /\ ~m_readable /\ m_inputBuffer = <<>>
              endsIn == r = "eof" /\ m_inputBuffer = <<>> /\ (~m_writable \/ w = "shutdown")
              first == WriteEvents(w, Over(hungUp))
              second == ReadEvents(r, Over(endsIn))
  <2>1. k \in 0..Len(inNet) /\ (r \in {"data", "last"} <=> k > 0) /\ inNet \in Seq(Byte)
    BY DEF Outcome, Types, Input
  <2>2. k # 0
    <3>1. m_inputBuffer' = m_inputBuffer \o SubSeq(inNet, 1, k)
      BY <1>4 DEF DoWriteDoRead
    <3>2. SubSeq(inNet, 1, 0) = <<>>
      BY SMTT(120), <2>1
    <3>. QED
      BY SMTT(120), <1>4, <3>1, <3>2
  <2>3. r \in {"data", "last"}
    BY SMTT(120), <2>1, <2>2
  <2>4. events' = events \o first \o second
    BY DEF DoWriteDoRead
  <2>5. /\ events \in Seq(EventNames) /\ first \in Seq(EventNames)
    <3>1. hungUp \in BOOLEAN /\ endsIn \in BOOLEAN
      BY DEF Types, Flags
    <3>. HIDE DEF hungUp, endsIn
    <3>2. WriteEvents(w, Over(hungUp)) \in Seq(Later)
      BY <3>1, ReportTypes
    <3>. QED
      BY <3>2, LaterSeq DEF Types, Rest
  <2>6. second = IF r = "data" THEN <<"inputReady">> ELSE TlsFailure
    BY <1>4, <2>3 DEF ReadEvents
  <2>7. In(second, Ending \union {"inputReady"}) /\ second \in Seq(EventNames)
    <3>1. <<"inputReady">> \in Seq(EventNames) /\ TlsFailure \in Seq(EventNames)
      BY SMTT(120), LaterNames, TlsFailureTypes, LaterSeq DEF EventNames
    <3>2. In(<<"inputReady">>, Ending \union {"inputReady"})
      BY SMTT(120) DEF In
    <3>3. TlsFailure[2] = "disconnected" /\ 2 \in DOMAIN TlsFailure
      BY SMTT(120) DEF TlsFailure
    <3>4. In(TlsFailure, Ending \union {"inputReady"})
      BY <3>3 DEF In, Ending
    <3>. QED
      BY <2>6, <3>1, <3>2, <3>4
  <2>. HIDE DEF first, second
  <2>8. In(events \o first \o second, Ending \union {"inputReady"})
    <3>1. events \o first \in Seq(EventNames)
      BY <2>5, Joins
    <3>. QED
      BY <2>7, <3>1, InJoined
  <2>9. Queued(Ending \union {"inputReady"})'
    BY <2>4, <2>8 DEF Queued, In
  <2>. QED
    BY <1>1, <1>2, <2>9 DEF Signalled, InputSignalled, Attended
<1>. QED
  BY <1>3, <1>4

LEMMA ServiceSignalled ==
  ASSUME Types, Stage, Signalled, ServiceJob, UNCHANGED <<filterVars, ownerVars, peer>>
  PROVE  Signalled'
<1>1. CASE ServiceConnecting
  <2>1. \A names : Queued(names) => Queued(names)'
    <3>1. ~Arrived
      BY <1>1 DEF ServiceConnecting, Stage, RawInv
    <3>2. events \in Seq(EventNames)
      BY DEF Types, Rest
    <3>3. CASE events' = Append(events, "connected")
      BY <3>1, <3>3, ArrivesKeeps DEF Coming
    <3>4. CASE events' = Append(events, "connectionFailed")
      BY <3>2, <3>4, GrowsByOne, LaterNames, GrowsKeeps
    <3>. QED
      BY <1>1, <3>3, <3>4 DEF ServiceConnecting
  <2>. QED
    BY <1>1, <2>1, SignalKept DEF ServiceConnecting, OnDisconnected, filterVars, callVars, Attended
<1>2. CASE ServiceHandshake
  <2>1. \A names : Queued(names) => Queued(names)'
    <3>1. ~Arrived
      BY <1>2 DEF ServiceHandshake, Stage, MadeInv, Shakes
    <3>3. CASE events' = Append(events, "secureConnected")
      BY <3>1, <3>3, ArrivesKeeps DEF Coming
    <3>4. CASE events' = events \o TlsFailure
      <4>1. Grows
        BY <3>4, TlsFailureTypes DEF Grows
      <4>. QED
        BY <4>1, GrowsKeeps
    <3>. QED
      BY <1>2, <3>3, <3>4 DEF ServiceHandshake
  <2>. QED
    BY <1>2, <2>1, SignalKept DEF ServiceHandshake, bufVars, filterVars, callVars, Attended
<1>3. CASE ServiceConnected
  <2>1. CASE ConnectedLost
    <3>1. Around
      BY <1>3, ConnectedIs
    <3>2. \A names : Queued(names) => Queued(names)'
      BY <2>1, <3>1, LostTypes, GrowsKeeps
    <3>. QED
      BY <2>1, <3>1, <3>2, SignalKept DEF ConnectedLost, OnDisconnected, Around, filterVars,
         callVars, Attended
  <2>2. CASE ~ConnectedLost
    <3>1. PICK w, n, r, k : Outcome(w, n, r, k) /\ DoWriteDoRead(w, n, r, k)
      BY <1>3, <2>2, ConnectedIs
    <3>. QED
      BY <1>3, <3>1, ConnectedIs, DoSignalled
  <2>. QED
    BY <2>1, <2>2
<1>. QED
  BY <1>1, <1>2, <1>3 DEF ServiceJob

LEMMA MainSignalled ==
  ASSUME Types, Stage, PiecesInv, Signalled, UNCHANGED <<filterVars, ownerVars, peer>>,
         Connect \/ Write \/ MakeJob \/ SetJob \/ Flush \/ FreeSSLResources \/ RemoveJob \/ Close
  PROVE  Signalled'
<1>1. UNCHANGED <<m_size, m_buffer, wasReady>>
  BY DEF filterVars
<1>2. CASE FreeSSLResources \/ RemoveJob \/ Close
  BY <1>2, ClosedSignalled DEF FreeSSLResources, RemoveJob, Close, Attended
<1>3. CASE MakeJob \/ SetJob \/ Flush
  <2>1. UNCHANGED <<events, m_inputBuffer>> /\ call \notin Reading /\ call' \notin Reading /\ Attended
    BY <1>3 DEF MakeJob, SetJob, Flush, AfterPiece, bufVars, Reading, Attended
  <2>. QED
    BY <1>1, <2>1, SameKeeps, SignalKept
<1>4. CASE Connect
  <2>1. ~Arrived
    BY <1>4 DEF Connect, Stage, CallInv
  <2>2. \A names : Queued(names) => Queued(names)'
    <3>1. CASE events' = Append(events, "connected")
      BY <2>1, <3>1, ArrivesKeeps DEF Coming
    <3>2. CASE UNCHANGED events
      BY <3>2, SameKeeps
    <3>. QED
      BY <1>4, <3>1, <3>2 DEF Connect
  <2>3. UNCHANGED m_inputBuffer /\ call \notin Reading /\ call' \notin Reading /\ Attended
    BY <1>4 DEF Connect, bufVars, Reading, Attended
  <2>. QED
    BY <1>1, <2>2, <2>3, SignalKept
<1>5. CASE Write
  <2>1. \A names : Queued(names) => Queued(names)'
    <3>1. todo # <<>>
      BY <1>5 DEF Write, PiecesInv
    <3>. QED
      BY <1>5, <3>1, WriteTypes, GrowsKeeps
  <2>2. UNCHANGED m_inputBuffer /\ call \notin Reading /\ call' \notin Reading /\ Attended
    BY <1>5 DEF Write, AfterPiece, Reading, Attended
  <2>. QED
    BY <1>1, <2>1, <2>2, SignalKept
<1>. QED
  BY <1>2, <1>3, <1>4, <1>5

LEMMA ReadMoreSignalled == ASSUME Types, Signalled, ReadMore PROVE Signalled'
<1>. DEFINE n == IF Len(m_inputBuffer) < ReadChunk THEN Len(m_inputBuffer) ELSE ReadChunk
            buffer == m_buffer \o SubSeq(m_inputBuffer, 1, n)
            error == FormatError(m_size, buffer)
            sends == IF n > 0 THEN error ELSE <<>>
            rest == SubSeq(m_inputBuffer, n + 1, Len(m_inputBuffer))
            ends == n > 0 /\ rest = <<>> /\ ~m_readable /\ ~m_writable
<1>1. /\ Read(n, sends) /\ call = "readmore"
      /\ m_size' = IF n > 0 THEN SizeAfter(m_size, buffer) ELSE m_size
      /\ m_buffer' = IF n > 0 THEN BufferAfter(m_size, buffer) ELSE m_buffer
      /\ call' = IF n > 0 /\ error = <<>> THEN "readmore"
                   ELSE IF wasReady # IsReady(m_size', m_buffer') THEN "deliver"
                   ELSE "idle"
      /\ UNCHANGED wasReady
  BY DEF ReadMore
<1>2. \A names : Queued(names) => Queued(names)'
  BY ReadMoreTypes, GrowsKeeps
<1>3. n \in Nat /\ n <= Len(m_inputBuffer) /\ (n = 0 => m_inputBuffer = <<>>)
  BY SMTT(120), Constants DEF Types, Input
<1>4. events' = events \o Over(ends) \o sends /\ m_inputBuffer' = rest
  BY <1>1 DEF Read, Over
<1>5. buffer \in Seq(Byte) /\ m_size \in Nat
  <2>. HIDE DEF n
  <2>1. SubSeq(m_inputBuffer, 1, n) \in Seq(Byte)
    BY <1>3, Slices DEF Types, Input
  <2>. QED
    BY <2>1, Joins DEF Types, Input, Rest
<1>. HIDE DEF n, buffer
<1>6. error \in {<<>>, <<"inputFormatError">>}
  BY <1>5, FilterTypes
<1>. HIDE DEF error
<1>7. CASE n > 0 /\ error = <<>>
  BY <1>1, <1>2, <1>7 DEF Signalled, InputSignalled
<1>8. CASE n > 0 /\ error = <<"inputFormatError">>
  <2>1. ends \in BOOLEAN
    BY DEF Types, Flags
  <2>. HIDE DEF ends
  <2>2. /\ events \in Seq(EventNames) /\ Over(ends) \in Seq(EventNames)
        /\ <<"inputFormatError">> \in Seq(EventNames)
    BY SMTT(120), <2>1, OverTypes, LaterSeq DEF Types, Rest, EventNames
  <2>3. events \o Over(ends) \in Seq(EventNames) /\ sends = <<"inputFormatError">>
    BY <1>8, <2>2, Joins
  <2>4. In(<<"inputFormatError">>, Ending)
    BY SMTT(120) DEF In, Ending
  <2>5. In(events \o Over(ends) \o sends, Ending)
    BY <2>2, <2>3, <2>4, InJoined
  <2>6. Queued(Ending)' /\ Queued(Ending \union {"inputReady"})'
    BY <1>4, <2>5 DEF Queued, In
  <2>. QED
    BY <2>6 DEF Signalled, InputSignalled
<1>9. CASE n = 0
  <2>1. m_inputBuffer' = <<>> /\ UNCHANGED <<m_size, m_buffer>>
    BY SMTT(120), <1>1, <1>3, <1>4, <1>9
  <2>2. CASE wasReady
    BY <1>1, <1>2, <1>9, <2>1, <2>2 DEF Signalled, InputSignalled
  <2>3. CASE ~wasReady
    <3>1. IsReady(m_size', m_buffer') \in BOOLEAN /\ wasReady = FALSE
      BY <2>3 DEF IsReady, Types, Flags
    <3>2. ASSUME IsReady(m_size', m_buffer') PROVE call' = "deliver"
      <4>1. wasReady # IsReady(m_size', m_buffer')
        BY <3>1, <3>2
      <4>. QED
        BY SMTT(120), <1>1, <1>9, <4>1
    <3>. QED
      BY <1>1, <1>9, <2>1, <3>1, <3>2 DEF Signalled, InputSignalled
  <2>. QED
    BY <2>2, <2>3
<1>. QED
  BY SMTT(120), <1>3, <1>6, <1>7, <1>8, <1>9

LEMMA OwnerSignalled ==
  ASSUME Types, Stage, Signalled, OwnerReads \/ HandleEvent \/ OwnerWrites \/ OwnerCloses
  PROVE  Signalled'
<1>1. CASE OwnerReads
  <2>1. \A names : Queued(names) => Queued(names)'
    BY <1>1, OwnerReadsTypes, GrowsKeeps
  <2>2. /\ call = "deliver" /\ UNCHANGED m_inputBuffer
        /\ call' = "deliver" \/ (call' = "idle" /\ ~IsReady(m_size, m_buffer)
                                 /\ UNCHANGED <<m_size, m_buffer>>)
    BY <1>1 DEF OwnerReads, bufVars, filterVars
  <2>. QED
    BY <2>1, <2>2 DEF Signalled, InputSignalled, Attended
<1>2. CASE HandleEvent /\ Ends(Head(events))
  BY <1>2, ClosedSignalled DEF Ends, FilterClose, BeginClose, Attended
<1>3. CASE HandleEvent /\ Goes(Head(events))
  <2>0. PICK e : e = Head(events)
    OBVIOUS
  <2>1. call = "idle" /\ AtMostOne /\ events # <<>> /\ events' = Tail(events)
    BY <1>3, HandleIs DEF Stage, UpInv
  <2>2. \A names : Queued(names) => e \in names \/ Queued(names)'
    BY <2>0, <2>1, TakenKeeps
  <2>3. /\ UNCHANGED <<m_inputBuffer, m_size, m_buffer>> /\ e \notin Ending
        /\ \/ e = "inputReady" /\ call' = "readmore" /\ wasReady' = IsReady(m_size, m_buffer)
           \/ e # "inputReady" /\ call' \in {"idle", "setjob"}
    BY <1>3, <2>0, <2>1 DEF Goes, bufVars, Ending
  <2>4. Queued(Ending) => Queued(Ending)'
    BY <2>2, <2>3
  <2>5. CASE e = "inputReady"
    BY <2>1, <2>3, <2>4, <2>5 DEF Signalled, InputSignalled, Attended
  <2>6. CASE e # "inputReady"
    <3>1. Queued(Ending \union {"inputReady"}) => Queued(Ending \union {"inputReady"})'
      BY <2>2, <2>3, <2>6
    <3>. QED
      BY <2>1, <2>3, <2>4, <2>6, <3>1 DEF Signalled, InputSignalled, Attended
  <2>. QED
    BY <2>5, <2>6
<1>4. CASE OwnerWrites
  <2>1. UNCHANGED <<events, m_inputBuffer, m_size, m_buffer, wasReady>> /\ call \notin Reading
        /\ call' \notin Reading /\ Attended
    BY <1>4 DEF OwnerWrites, bufVars, filterVars, Reading, Attended
  <2>. QED
    BY <2>1, SameKeeps, SignalKept
<1>5. CASE OwnerCloses
  BY <1>5, ClosedSignalled DEF OwnerCloses, FilterClose, BeginClose, Attended
<1>. QED
  BY <1>1, <1>2, <1>3, <1>4, <1>5, HandleIs

LEMMA FarSignalled ==
  ASSUME Signalled, NetConnect \/ PeerLeaves \/ PeerSend PROVE Signalled'
<1>1. UNCHANGED <<events, m_inputBuffer, m_size, m_buffer, wasReady, call>>
  BY DEF NetConnect, PeerLeaves, PeerSend, bufVars, filterVars, callVars
<1>. QED
  BY <1>1, SameKeeps, SignalKept DEF Attended

-----------------------------------------------------------------------------
(* The theorems *)

\* The inductive invariant.
Inv == Types /\ Stage /\ PiecesInv /\ OutInv /\ Signalled

LEMMA InvInit == Init => Inv
BY InitTypes, InitStage, InitOut, InitSignalled DEF Inv, Types

LEMMA MainInv == ASSUME Inv, Main PROVE Inv'
<1>0. Types /\ Stage /\ PiecesInv /\ OutInv /\ Signalled
  BY DEF Inv
<1>1. CASE ReadMore
  BY <1>0, <1>1, ReadMoreTypes, ReadMoreStage, OwnerOut, ReadMoreSignalled DEF Inv
<1>2. CASE OwnerReads
  BY <1>0, <1>2, OwnerReadsTypes, OwnerReadsStage, OwnerOut, OwnerSignalled DEF Inv
<1>3. CASE HandleEvent
  BY <1>0, <1>3, HandleTypes, HandleStage, OwnerOut, OwnerSignalled DEF Inv
<1>4. CASE UNCHANGED <<filterVars, ownerVars, peer>> /\ Connect
  BY <1>0, <1>4, ConnectTypes, ConnectStage, MainOut, MainSignalled DEF Inv
<1>5. CASE UNCHANGED <<filterVars, ownerVars, peer>> /\ Write
  <2>1. todo # <<>>
    BY <1>0, <1>5 DEF Write, PiecesInv
  <2>. QED
    BY <1>0, <1>5, <2>1, WriteTypes, WriteStage, WriteOut, MainSignalled DEF Inv
<1>6. CASE UNCHANGED <<filterVars, ownerVars, peer>> /\ MakeJob
  BY <1>0, <1>6, MakeJobTypes, MakeJobStage, MakeJobOut, MainSignalled DEF Inv
<1>7. CASE UNCHANGED <<filterVars, ownerVars, peer>> /\ SetJob
  BY <1>0, <1>7, SetJobTypes, SetJobStage, SetJobOut, MainSignalled DEF Inv
<1>8. CASE /\ UNCHANGED <<filterVars, ownerVars, peer>>
           /\ Flush \/ FreeSSLResources \/ RemoveJob
  BY <1>0, <1>8, PlainTypes, PlainStage, MainOut, MainSignalled DEF Inv
<1>9. CASE UNCHANGED <<filterVars, ownerVars, peer>> /\ Close
  BY <1>0, <1>9, CloseTypes, CloseStage, MainOut, MainSignalled DEF Inv
<1>. QED
  BY <1>1, <1>2, <1>3, <1>4, <1>5, <1>6, <1>7, <1>8, <1>9 DEF Main

LEMMA ServiceInv == ASSUME Inv, Service PROVE Inv'
<1>0. Types /\ Stage /\ PiecesInv /\ OutInv /\ Signalled /\ UNCHANGED <<filterVars, ownerVars, peer>>
  BY DEF Inv, Service
<1>1. PiecesInv' /\ OutInv' /\ Signalled'
  BY <1>0, ServiceOut, ServiceSignalled DEF Service
<1>2. CASE ServiceConnecting
  BY <1>0, <1>1, <1>2, ConnectingTypes, ConnectingStage DEF Inv
<1>3. CASE ServiceHandshake
  BY <1>0, <1>1, <1>3, HandshakeTypes, HandshakeStage DEF Inv
<1>4. CASE ServiceConnected
  <2>1. CASE ConnectedLost
    BY <1>0, <1>1, <1>4, <2>1, ConnectedIs, LostTypes, LostStage DEF Inv
  <2>2. CASE ~ConnectedLost
    <3>1. PICK w, n, r, k : Outcome(w, n, r, k) /\ DoWriteDoRead(w, n, r, k)
      BY <1>0, <1>4, <2>2, ConnectedIs
    <3>. QED
      BY <1>0, <1>1, <1>4, <3>1, ConnectedIs, DoTypes, DoStage DEF Inv
  <2>. QED
    BY <2>1, <2>2
<1>. QED
  BY <1>2, <1>3, <1>4 DEF Service, ServiceJob

LEMMA InvStep == Inv /\ [Next]_vars => Inv'
<1>. SUFFICES ASSUME Inv, [Next]_vars PROVE Inv'
  OBVIOUS
<1>0. Types /\ Stage /\ PiecesInv /\ OutInv /\ Signalled
  BY DEF Inv
<1>1. CASE Main
  BY <1>1, MainInv
<1>2. CASE Service
  BY <1>2, ServiceInv
<1>3. CASE OwnerWrites
  BY <1>0, <1>3, OwnerWritesTypes, OwnerWritesStage, OwnerOut, OwnerSignalled DEF Inv
<1>4. CASE OwnerCloses
  BY <1>0, <1>4, OwnerClosesTypes, OwnerClosesStage, OwnerOut, OwnerSignalled DEF Inv
<1>5. CASE NetConnect \/ PeerLeaves
  BY <1>0, <1>5, NetTypes, FarStage, FarOut, FarSignalled DEF Inv
<1>6. CASE PeerSend
  BY <1>0, <1>6, PeerTypes, FarStage, FarOut, FarSignalled DEF Inv
<1>7. CASE UNCHANGED vars
  <2>1. Types'
    <3>1. Flags'
      BY SMTT(120), <1>0, <1>7 DEF vars, Types, Flags, socketVars, roleVars, flagVars, tlsVars, callVars,
         pieceVars, filterVars, ownerVars
    <3>2. Input' /\ Output'
      BY <1>0, <1>7 DEF vars, Types, Input, Output, socketVars, bufVars, tlsVars, callVars,
         pieceVars, netVars, filterVars, ownerVars
    <3>3. Rest'
      BY <1>0, <1>7 DEF vars, Types, Rest, socketVars, callVars, netVars, filterVars, ownerVars
    <3>. QED
      BY <3>1, <3>2, <3>3 DEF Types
  <2>2. UNCHANGED <<stageVars, events, call, m_inputBuffer, m_size, m_buffer, wasReady, m_fatal>>
    BY <1>7 DEF vars, stageVars, socketVars, roleVars, flagVars, bufVars, tlsVars, callVars,
       pieceVars, filterVars, ownerVars
  <2>3. Stage'
    BY <1>0, <2>2, SameKeeps, StageKept DEF Stage, UpInv
  <2>4. PiecesInv' /\ OutInv'
    BY <1>0, <2>2, PiecesKept, OutKept DEF stageVars
  <2>5. Signalled'
    BY <1>0, <2>2, SameKeeps, SignalKept DEF Attended
  <2>. QED
    BY <2>1, <2>3, <2>4, <2>5 DEF Inv
<1>. QED
  BY <1>1, <1>2, <1>3, <1>4, <1>5, <1>6, <1>7 DEF Next

LEMMA InvAlways == Spec => []Inv
<1>1. Init => Inv
  BY InvInit
<1>2. Inv /\ [Next]_vars => Inv'
  BY InvStep
<1>. QED
  BY <1>1, <1>2, PTL DEF Spec

\* For any chunk and buffer sizes: whoever waits in TCPSocket::flush waits for a
\* job that is there and writes, although write and connect make that job after
\* they release m_mutex and set it later still; and the TLS handshake never runs
\* on a session that SecureSocket::freeSSLResources has freed.
THEOREM JobForOutput == Spec => []StreamOK
<1>1. Inv => StreamOK
  <2>. SUFFICES ASSUME Inv PROVE StreamOK
    OBVIOUS
  <2>1. TypeOK
    BY TypesAre DEF Inv, Types
  <2>2. FlushServed
    BY DEF FlushServed, Inv, OutInv, Serving, Served, Attended
  <2>3. HandshakeAlive
    <3>. SUFFICES ASSUME job.kind = "handshake" PROVE SslAlive
      BY DEF HandshakeAlive
    <3>1. job # NoJob /\ ~up
      BY SMTT(120) DEF NoJob, Inv, Stage, MadeInv, Shakes
    <3>2. ~accepted
      BY <3>1 DEF Inv, Stage, UpInv
    <3>. QED
      BY <3>1, <3>2 DEF SslAlive, Inv, Stage, CallInv
  <2>. QED
    BY <2>1, <2>2, <2>3 DEF StreamOK
<1>. QED
  BY <1>1, InvAlways, PTL

\* Input is never left unattended, for any way the bytes are cut up: doRead tells
\* of input only when the buffer was empty, readMore only of a packet that it had
\* not found before, and still no byte and no packet waits for nobody.
THEOREM NoInputForgotten == Spec => []InputSignalled
<1>1. Inv => InputSignalled
  BY DEF Inv, Signalled
<1>. QED
  BY <1>1, InvAlways, PTL

-----------------------------------------------------------------------------
(* Output: in the order it was written *)

\* The bytes written at this end are numbered in the order they were written,
\* wherever they are: sent, in m_outputBuffer, or in a piece still to be handed
\* over.  What doWrite keeps for OpenSSL is the beginning of m_outputBuffer, as
\* long as it may be sent.
Numbered(s, from) == \A i \in 1..Len(s) : s[i] = from + i

Pending == Len(outNet) + Len(m_outputBuffer) + Len(todo)

QueueInv ==
  /\ Numbered(outNet, 0)
  /\ Numbered(m_outputBuffer, Len(outNet))
  /\ \A i \in 1..Len(todo) : todo[i] = <<2 * written - Len(todo) + i>>
  /\ Pending <= 2 * written
  /\ m_writable => Pending = 2 * written

RetryInv ==
  /\ Numbered(writeRetry, Len(outNet))
  /\ Len(outNet) + Len(writeRetry) <= 2 * written
  /\ link # "reset" /\ call # "closed" => Len(writeRetry) <= Len(m_outputBuffer)
  /\ ~secure => writeRetry = <<>>

PutInv ==
  /\ QueueInv /\ RetryInv
  /\ ~up => written = 0
  /\ todo # <<>> => call \in {"write", "newjob", "setjob"}

LEMMA NumberedJoin ==
  ASSUME NEW s \in Seq(Nat), NEW t \in Seq(Nat), NEW from \in Nat, Numbered(s, from),
         Numbered(t, from + Len(s))
  PROVE  Numbered(s \o t, from)
<1>. SUFFICES ASSUME NEW i \in 1..Len(s \o t) PROVE (s \o t)[i] = from + i
  BY DEF Numbered
<1>1. Len(s) \in Nat /\ Len(t) \in Nat /\ Len(s \o t) = Len(s) + Len(t) /\ i \in Nat /\ i >= 1
  BY SMTT(120)
<1>2. CASE i <= Len(s)
  <2>1. i \in 1..Len(s) /\ (s \o t)[i] = s[i]
    BY SMTT(120), <1>1, <1>2
  <2>. QED
    BY <2>1 DEF Numbered
<1>3. CASE i > Len(s)
  <2>1. i - Len(s) \in 1..Len(t) /\ (s \o t)[i] = t[i - Len(s)]
    BY SMTT(120), <1>1, <1>3
  <2>2. t[i - Len(s)] = from + Len(s) + (i - Len(s))
    BY <2>1 DEF Numbered
  <2>. QED
    BY SMTT(120), <1>1, <2>1, <2>2
<1>. QED
  BY SMTT(120), <1>1, <1>2, <1>3

LEMMA NumberedSlice ==
  ASSUME NEW s \in Seq(Nat), NEW k \in Nat, k <= Len(s), NEW from \in Nat, Numbered(s, from)
  PROVE  Numbered(SubSeq(s, 1, k), from) /\ Numbered(SubSeq(s, k + 1, Len(s)), from + k)
<1>1. /\ Len(SubSeq(s, 1, k)) = k /\ Len(SubSeq(s, k + 1, Len(s))) = Len(s) - k
      /\ \A i \in 1..k : SubSeq(s, 1, k)[i] = s[i]
      /\ \A i \in 1..(Len(s) - k) : SubSeq(s, k + 1, Len(s))[i] = s[i + k]
      /\ Len(s) \in Nat
  <2>1. Len(s) \in Nat
    BY SMTT(120)
  <2>. QED
    BY <2>1, SliceLengths
<1>2. Numbered(SubSeq(s, 1, k), from)
  BY SMTT(120), <1>1 DEF Numbered
<1>3. ASSUME NEW i \in 1..(Len(s) - k)
      PROVE  SubSeq(s, k + 1, Len(s))[i] = from + k + i
  <2>1. i + k \in 1..Len(s) /\ from + (i + k) = from + k + i
    BY SMTT(120), <1>1
  <2>2. s[i + k] = from + (i + k)
    BY <2>1 DEF Numbered
  <2>. QED
    BY <1>1, <2>1, <2>2
<1>. QED
  BY <1>1, <1>2, <1>3 DEF Numbered

LEMMA NumberedNone == ASSUME NEW from PROVE Numbered(<<>>, from)
BY SMTT(120) DEF Numbered

LEMMA InitPut == Init => PutInv
<1>. SUFFICES ASSUME Init PROVE PutInv
  OBVIOUS
<1>1. /\ outNet = <<>> /\ m_outputBuffer = <<>> /\ todo = <<>> /\ writeRetry = <<>> /\ written = 0
  BY DEF Init
<1>2. Len(<<>>) = 0
  OBVIOUS
<1>3. QueueInv
  BY SMTT(120), <1>1, <1>2, NumberedNone DEF QueueInv, Pending
<1>4. RetryInv
  BY SMTT(120), <1>1, <1>2, NumberedNone DEF RetryInv
<1>. QED
  BY <1>1, <1>3, <1>4 DEF PutInv

\* The lengths, as numbers.
LEMMA PutSizes ==
  ASSUME Types
  PROVE  /\ Len(outNet) \in Nat /\ Len(m_outputBuffer) \in Nat /\ Len(todo) \in Nat
         /\ Len(writeRetry) \in Nat /\ written \in Nat /\ Pending \in Nat
BY SMTT(120) DEF Types, Output, Rest, Pending

\* Steps that leave the output where it is: the socket may become writable as
\* long as nothing has been written.
LEMMA PutKept ==
  ASSUME Types, PutInv, UNCHANGED <<outNet, m_outputBuffer, todo, written, writeRetry, secure>>,
         m_writable' => m_writable \/ ~up,
         link' # "reset" /\ call' # "closed" => link # "reset" /\ call # "closed",
         up => up',
         todo # <<>> => call' \in {"write", "newjob", "setjob"}
  PROVE  PutInv'
<1>0. Pending' = Pending /\ Pending \in Nat
  BY PutSizes DEF Pending
<1>1. QueueInv'
  <2>1. m_writable' => Pending = 2 * written
    <3>1. ~up => Pending = 2 * written
      BY SMTT(120), <1>0 DEF PutInv, QueueInv
    <3>. QED
      BY <3>1 DEF PutInv, QueueInv
  <2>. QED
    BY <1>0, <2>1 DEF PutInv, QueueInv
<1>2. RetryInv'
  BY DEF PutInv, RetryInv
<1>. QED
  BY <1>1, <1>2 DEF PutInv

\* Steps that give up the output.
LEMMA PutDropped ==
  ASSUME Types, PutInv, UNCHANGED <<outNet, todo, written, writeRetry, secure, up>>,
         m_outputBuffer' = <<>>, ~m_writable',
         ~secure \/ link' = "reset" \/ call' = "closed",
         call' = call \/ todo = <<>>
  PROVE  PutInv'
<1>0. /\ Len(outNet) \in Nat /\ Len(m_outputBuffer) \in Nat /\ Len(todo) \in Nat
      /\ Len(m_outputBuffer') = 0 /\ written \in Nat
  BY PutSizes
<1>1. QueueInv'
  <2>1. Pending' <= 2 * written
    BY SMTT(120), <1>0 DEF PutInv, QueueInv, Pending
  <2>2. Numbered(m_outputBuffer', Len(outNet))
    BY NumberedNone
  <2>. QED
    BY <2>1, <2>2 DEF PutInv, QueueInv
<1>2. RetryInv'
  <2>1. ~secure => writeRetry = <<>>
    BY DEF PutInv, RetryInv
  <2>2. link' # "reset" /\ call' # "closed" => Len(writeRetry) <= 0
    BY SMTT(120), <2>1
  <2>. QED
    BY <1>0, <2>2 DEF PutInv, RetryInv
<1>. QED
  BY <1>1, <1>2 DEF PutInv

LEMMA WritePut ==
  ASSUME Types, PiecesInv, PutInv, Write, UNCHANGED <<filterVars, ownerVars, peer>>
  PROVE  PutInv'
<1>0. /\ Len(outNet) \in Nat /\ Len(m_outputBuffer) \in Nat /\ Len(todo) \in Nat
      /\ Len(writeRetry) \in Nat /\ written \in Nat /\ Pending \in Nat
  BY PutSizes
<1>1. /\ call = "write" /\ todo # <<>> /\ todo' = Tail(todo)
      /\ UNCHANGED <<outNet, written, writeRetry, secure, up, m_writable, link>>
      /\ call' \in {"write", "newjob", "flush", "idle"} /\ (todo' # <<>> => call' \in {"write", "newjob"})
  BY DEF Write, PiecesInv, AfterPiece, roleVars, tlsVars, netVars, ownerVars
<1>2. /\ todo \in Seq(Seq(Nat)) /\ Len(todo) >= 1 /\ Len(todo') = Len(todo) - 1
      /\ \A i \in 1..(Len(todo) - 1) : todo'[i] = todo[i + 1]
      /\ Head(todo) = todo[1]
  BY <1>1, Tails DEF Types, Output
<1>3. ASSUME NEW i \in 1..Len(todo') PROVE todo'[i] = <<2 * written - Len(todo') + i>>
  <2>1. i + 1 \in 1..Len(todo) /\ i \in 1..(Len(todo) - 1)
    BY SMTT(120), <1>0, <1>2
  <2>2. todo[i + 1] = <<2 * written - Len(todo) + (i + 1)>>
    BY <2>1 DEF PutInv, QueueInv
  <2>3. 2 * written - Len(todo) + (i + 1) = 2 * written - Len(todo') + i
    BY SMTT(120), <1>0, <1>2, <2>1
  <2>. QED
    BY <1>2, <2>1, <2>2, <2>3
<1>4. Head(todo) = <<2 * written - Len(todo) + 1>>
  <2>1. 1 \in 1..Len(todo)
    BY SMTT(120), <1>0, <1>2
  <2>. QED
    BY <1>2, <2>1 DEF PutInv, QueueInv
<1>5. CASE ~m_writable
  <2>1. m_outputBuffer' = m_outputBuffer
    BY <1>5 DEF Write
  <2>2. Pending' = Pending - 1
    BY SMTT(120), <1>0, <1>1, <1>2, <2>1 DEF Pending
  <2>3. QueueInv'
    BY SMTT(120), <1>0, <1>1, <1>3, <1>5, <2>1, <2>2 DEF PutInv, QueueInv
  <2>4. RetryInv'
    BY <1>1, <2>1 DEF PutInv, RetryInv
  <2>. QED
    BY <1>1, <2>3, <2>4 DEF PutInv
<1>6. CASE m_writable
  <2>0. Pending = 2 * written
    BY <1>6 DEF PutInv, QueueInv
  <2>1. m_outputBuffer' = m_outputBuffer \o Head(todo)
    BY <1>6 DEF Write
  <2>2. PICK x \in Nat : Head(todo) = <<x>> /\ x = Len(outNet) + Len(m_outputBuffer) + 1
    <3>1. 2 * written - Len(todo) + 1 = Len(outNet) + Len(m_outputBuffer) + 1
      BY SMTT(120), <1>0, <2>0 DEF Pending
    <3>. QED
      BY SMTT(120), <1>0, <1>4, <3>1
  <2>3. m_outputBuffer \in Seq(Nat) /\ <<x>> \in Seq(Nat) /\ Len(<<x>>) = 1
    BY SMTT(120) DEF Types, Output
  <2>4. Numbered(<<x>>, Len(outNet) + Len(m_outputBuffer))
    BY SMTT(120), <2>2 DEF Numbered
  <2>5. Numbered(m_outputBuffer', Len(outNet)) /\ Len(m_outputBuffer') = Len(m_outputBuffer) + 1
    <3>1. Numbered(m_outputBuffer, Len(outNet))
      BY DEF PutInv, QueueInv
    <3>2. m_outputBuffer' = m_outputBuffer \o <<x>>
      BY <2>1, <2>2
    <3>3. Numbered(m_outputBuffer \o <<x>>, Len(outNet))
      BY <1>0, <2>3, <2>4, <3>1, NumberedJoin
    <3>4. Len(m_outputBuffer \o <<x>>) = Len(m_outputBuffer) + 1
      BY SMTT(120), <2>3, Joins
    <3>. QED
      BY <3>2, <3>3, <3>4
  <2>6. Pending' = 2 * written
    <3>1. Len(outNet') = Len(outNet)
      BY <1>1
    <3>2. /\ Len(m_outputBuffer') = Len(m_outputBuffer) + 1 /\ Len(todo') = Len(todo) - 1
      BY <1>2, <2>5
    <3>. QED
      BY SMTT(120), <1>0, <2>0, <3>1, <3>2 DEF Pending
  <2>7. QueueInv'
    BY SMTT(120), <1>0, <1>1, <1>3, <2>5, <2>6 DEF PutInv, QueueInv
  <2>8. RetryInv'
    BY SMTT(120), <1>0, <1>1, <2>5 DEF PutInv, RetryInv
  <2>. QED
    BY <1>1, <2>7, <2>8 DEF PutInv
<1>. QED
  BY <1>5, <1>6

LEMMA OwnerWritesPut == ASSUME Types, PutInv, OwnerWrites PROVE PutInv'
<1>0. /\ Len(outNet) \in Nat /\ Len(m_outputBuffer) \in Nat /\ Len(todo) \in Nat
      /\ Len(writeRetry) \in Nat /\ written \in Nat /\ Pending \in Nat
  BY PutSizes
<1>1. /\ call = "idle" /\ up /\ written' = written + 1 /\ call' = "write"
      /\ todo' = <<<<2 * written + 1>>, <<2 * written + 2>>>>
      /\ UNCHANGED <<outNet, m_outputBuffer, writeRetry, secure, up, m_writable, link>>
  BY DEF OwnerWrites, roleVars, flagVars, bufVars, tlsVars, netVars
<1>2. todo = <<>> /\ Len(todo) = 0
  BY <1>1 DEF PutInv
<1>3. /\ Len(todo') = 2 /\ todo'[1] = <<2 * written + 1>> /\ todo'[2] = <<2 * written + 2>>
      /\ todo' # <<>>
  BY <1>1
<1>4. /\ 2 * written' - 2 + 1 = 2 * written + 1 /\ 2 * written' - 2 + 2 = 2 * written + 2
      /\ \A i \in 1..2 : i = 1 \/ i = 2
  BY SMTT(120), <1>0, <1>1
<1>5. Pending' = Pending + 2 /\ 2 * written' = 2 * written + 2
  BY SMTT(120), <1>0, <1>1, <1>2, <1>3 DEF Pending
<1>6. \A i \in 1..Len(todo') : todo'[i] = <<2 * written' - Len(todo') + i>>
  BY <1>3, <1>4
<1>7. QueueInv'
  BY SMTT(120), <1>0, <1>1, <1>5, <1>6 DEF PutInv, QueueInv
<1>8. RetryInv'
  BY SMTT(120), <1>0, <1>1, <1>5 DEF PutInv, RetryInv
<1>. QED
  BY <1>1, <1>7, <1>8 DEF PutInv

\* What doWrite hands to the connection comes next, and it is still waiting.
LEMMA SentNext ==
  ASSUME Types, PutInv
  PROVE  /\ Sent \in Seq(Nat) /\ Numbered(Sent, Len(outNet))
         /\ Len(outNet) + Len(Sent) <= 2 * written
         /\ link # "reset" /\ call # "closed" => Len(Sent) <= Len(m_outputBuffer)
         /\ ~secure => Sent = m_outputBuffer
<1>0. /\ Len(outNet) \in Nat /\ Len(m_outputBuffer) \in Nat /\ Len(todo) \in Nat
      /\ Len(writeRetry) \in Nat /\ written \in Nat
  BY PutSizes
<1>1. CASE writeRetry # <<>>
  BY <1>0, <1>1 DEF Sent, PutInv, RetryInv, Types, Output
<1>2. CASE writeRetry = <<>>
  BY SMTT(120), <1>0, <1>2 DEF Sent, PutInv, QueueInv, Pending, Types, Output
<1>. QED
  BY <1>1, <1>2

LEMMA DoPut ==
  ASSUME Types, PutInv, call # "closed", NEW w, NEW n, NEW r, NEW k,
         Outcome(w, n, r, k), DoWriteDoRead(w, n, r, k), Around
  PROVE  /\ PutInv'
         /\ outNet' = outNet \o SubSeq(Sent, 1, n) /\ n \in 0..Len(Sent)
<1>. DEFINE gone == w \in {"disconnected", "error"} \/ r = "disconnected"
            output == SubSeq(m_outputBuffer, n + 1, Len(m_outputBuffer))
<1>0. /\ Len(outNet) \in Nat /\ Len(m_outputBuffer) \in Nat /\ Len(todo) \in Nat
      /\ Len(writeRetry) \in Nat /\ written \in Nat /\ Len(Sent) \in Nat
      /\ outNet \in Seq(Nat) /\ m_outputBuffer \in Seq(Nat)
  BY SMTT(120), PutSizes, SentNext DEF Types, Output
<1>1. /\ w \in Writes /\ n \in 0..Len(Sent) /\ (w = "some" <=> n > 0)
      /\ w = "some" => link # "reset"
      /\ w \in {"shutdown", "disconnected", "error"} => ~secure
      /\ w = "retry" => secure
      /\ gone => link = "reset" /\ ~secure
  BY DEF Outcome
<1>2. /\ m_writable' = (m_writable /\ ~gone /\ w # "shutdown")
      /\ m_outputBuffer' = IF gone \/ w = "shutdown" THEN <<>> ELSE output
      /\ writeRetry' = RetryAfter(w, Sent)
      /\ outNet' = outNet \o SubSeq(Sent, 1, n)
  BY DEF DoWriteDoRead, Sent
<1>3. UNCHANGED <<secure, call, todo, written, up, link>>
  BY DEF Around, roleVars, callVars, pieceVars, ownerVars
<1>. HIDE DEF gone, output
<1>4. CASE n = 0
  <2>1. outNet' = outNet /\ output = m_outputBuffer /\ w # "some"
    <3>1. SubSeq(Sent, 1, 0) = <<>>
      BY SMTT(120), SentNext
    <3>. QED
      BY SMTT(120), <1>0, <1>1, <1>2, <1>4, <3>1, Slices DEF output
  <2>2. QueueInv'
    <3>1. Len(m_outputBuffer') <= Len(m_outputBuffer) /\ Len(m_outputBuffer') \in Nat
          /\ Numbered(m_outputBuffer', Len(outNet))
          /\ (m_writable' => m_outputBuffer' = m_outputBuffer /\ m_writable)
      <4>1. m_outputBuffer' = <<>> \/ m_outputBuffer' = m_outputBuffer
        BY <1>2, <2>1
      <4>2. m_writable' => m_outputBuffer' = m_outputBuffer /\ m_writable
        BY <1>2, <2>1
      <4>3. Numbered(m_outputBuffer, Len(outNet))
        BY DEF PutInv, QueueInv
      <4>4. Numbered(m_outputBuffer', Len(outNet))
        BY <4>1, <4>3, NumberedNone
      <4>. QED
        BY SMTT(120), <1>0, <4>1, <4>2, <4>4
    <3>2. Pending' <= Pending /\ Pending \in Nat /\ Pending' \in Nat /\ (m_writable' => Pending' = Pending)
      BY SMTT(120), <1>0, <1>3, <2>1, <3>1 DEF Pending
    <3>. QED
      BY SMTT(120), <1>0, <1>3, <2>1, <3>1, <3>2 DEF PutInv, QueueInv
  <2>3. CASE w = "retry"
    <3>1. writeRetry' = Sent /\ (link # "reset" => m_outputBuffer' = m_outputBuffer) /\ secure
      BY <1>1, <1>2, <2>1, <2>3 DEF RetryAfter
    <3>2. RetryInv'
      BY <1>3, <2>1, <3>1, SentNext DEF RetryInv
    <3>. QED
      BY <1>1, <1>2, <1>3, <1>4, <2>2, <3>2 DEF PutInv
  <2>4. CASE w # "retry"
    <3>1. writeRetry' = writeRetry /\ (link # "reset" /\ secure => m_outputBuffer' = m_outputBuffer)
      BY <1>1, <1>2, <2>1, <2>4 DEF RetryAfter
    <3>2. ~secure => Len(writeRetry) = 0
      BY SMTT(120) DEF PutInv, RetryInv
    <3>3. link # "reset" => Len(writeRetry) <= Len(m_outputBuffer')
      BY SMTT(120), <1>0, <1>2, <2>1, <3>1, <3>2 DEF PutInv, RetryInv
    <3>4. RetryInv'
      BY <1>3, <2>1, <3>1, <3>3 DEF PutInv, RetryInv
    <3>. QED
      BY <1>1, <1>2, <1>3, <1>4, <2>2, <3>4 DEF PutInv
  <2>. QED
    BY <2>3, <2>4
<1>5. CASE n > 0
  <2>1. /\ w = "some" /\ writeRetry' = <<>> /\ n \in Nat /\ n <= Len(Sent)
        /\ link # "reset" /\ ~gone
    BY SMTT(120), <1>0, <1>1, <1>2, <1>5 DEF RetryAfter
  <2>2. /\ Len(SubSeq(Sent, 1, n)) = n /\ Numbered(SubSeq(Sent, 1, n), Len(outNet))
        /\ SubSeq(Sent, 1, n) \in Seq(Nat)
    BY <1>0, <2>1, SentNext, SliceLengths, NumberedSlice, Slices
  <2>3. Numbered(outNet', 0) /\ Len(outNet') = Len(outNet) + n
    <3>1. Numbered(outNet, 0) /\ Numbered(SubSeq(Sent, 1, n), 0 + Len(outNet))
      BY SMTT(120), <1>0, <2>2 DEF PutInv, QueueInv
    <3>. DEFINE piece == SubSeq(Sent, 1, n)
    <3>2. outNet' = outNet \o piece /\ piece \in Seq(Nat) /\ Len(piece) = n /\ 0 \in Nat
      BY <1>2, <2>2
    <3>3. Numbered(piece, 0 + Len(outNet))
      BY <3>1
    <3>. HIDE DEF piece
    <3>4. Numbered(outNet \o piece, 0)
      BY <1>0, <3>1, <3>2, <3>3, NumberedJoin
    <3>5. Len(outNet \o piece) = Len(outNet) + n
      BY <1>0, <3>2, Joins
    <3>. QED
      BY <3>2, <3>4, <3>5
  <2>4. Len(outNet') <= 2 * written
    BY SMTT(120), <1>0, <2>1, <2>3, SentNext
  <2>5. m_outputBuffer' = output /\ m_writable' = m_writable
    BY <1>2, <2>1 DEF Types, Flags
  <2>6. n <= Len(m_outputBuffer)
    BY SMTT(120), <1>0, <2>1, SentNext
  <2>7. Len(output) = Len(m_outputBuffer) - n /\ Numbered(output, Len(outNet) + n)
    BY <1>0, <2>1, <2>6, SliceLengths, NumberedSlice DEF PutInv, QueueInv, output
  <2>8. Pending' = Pending /\ Pending \in Nat
    BY SMTT(120), <1>0, <1>3, <2>1, <2>3, <2>5, <2>7 DEF Pending
  <2>9. QueueInv'
    BY <1>3, <2>3, <2>5, <2>7, <2>8 DEF PutInv, QueueInv
  <2>10. RetryInv'
    BY SMTT(120), <1>0, <1>3, <2>1, <2>3, <2>4, <2>5, <2>6, <2>7, NumberedNone DEF RetryInv
  <2>. QED
    BY <1>1, <1>2, <1>3, <2>9, <2>10 DEF PutInv
<1>. QED
  BY SMTT(120), <1>0, <1>1, <1>4, <1>5

LEMMA ServicePut ==
  ASSUME Types, Stage, PutInv, ServiceJob, UNCHANGED <<filterVars, ownerVars, peer>>
  PROVE  PutInv'
<1>1. CASE ServiceConnecting
  <2>1. ~up /\ UNCHANGED <<outNet, todo, written, writeRetry, secure, up, link, call>>
    BY <1>1 DEF ServiceConnecting, Stage, RawInv, roleVars, tlsVars, callVars, pieceVars,
       netVars, ownerVars
  <2>2. CASE link = "reset" /\ OnDisconnected
    BY <2>1, <2>2, PutDropped DEF OnDisconnected
  <2>3. CASE UNCHANGED m_outputBuffer
    BY <2>1, <2>3, PutKept DEF PutInv
  <2>. QED
    BY <1>1, <2>2, <2>3 DEF ServiceConnecting
<1>2. CASE ServiceHandshake
  <2>1. UNCHANGED <<outNet, m_outputBuffer, todo, written, writeRetry, secure, up, link, call,
                    m_writable>>
    BY <1>2 DEF ServiceHandshake, roleVars, flagVars, bufVars, callVars, pieceVars,
       netVars, ownerVars
  <2>. QED
    BY <2>1, PutKept DEF PutInv
<1>3. CASE ServiceConnected
  <2>0. Around /\ job.kind = "connected"
    BY <1>3, ConnectedIs
  <2>1. CASE ConnectedLost
    <3>1. UNCHANGED <<secure, call, todo, written, up, link>>
      BY <2>0 DEF Around, roleVars, callVars, pieceVars, ownerVars
    <3>. QED
      BY <2>1, <3>1, PutDropped DEF ConnectedLost, OnDisconnected
  <2>2. CASE ~ConnectedLost
    <3>1. PICK w, n, r, k : Outcome(w, n, r, k) /\ DoWriteDoRead(w, n, r, k)
      BY <1>3, <2>2, ConnectedIs
    <3>2. call # "closed"
      BY SMTT(120), <2>0 DEF Stage, CallInv, NoJob
    <3>. QED
      BY <2>0, <3>1, <3>2, DoPut
  <2>. QED
    BY <2>1, <2>2
<1>. QED
  BY <1>1, <1>2, <1>3 DEF ServiceJob

LEMMA MainPut ==
  ASSUME Types, Stage, PiecesInv, PutInv, UNCHANGED <<filterVars, ownerVars, peer>>,
         Connect \/ Write \/ MakeJob \/ SetJob \/ Flush \/ FreeSSLResources \/ RemoveJob \/ Close
  PROVE  PutInv'
<1>0. UNCHANGED <<written, up>>
  BY DEF ownerVars
<1>1. CASE Write
  BY <1>1, WritePut
<1>2. CASE Connect
  <2>1. ~up /\ UNCHANGED <<outNet, m_outputBuffer, todo, writeRetry, secure, link>>
        /\ call = "connect" /\ call' = "newjob"
    BY <1>2 DEF Connect, Stage, CallInv, roleVars, bufVars, tlsVars, pieceVars, netVars
  <2>. QED
    BY <1>0, <2>1, PutKept DEF PutInv
<1>3. CASE MakeJob \/ SetJob \/ Flush \/ FreeSSLResources \/ RemoveJob
  <2>1. /\ UNCHANGED <<outNet, m_outputBuffer, todo, writeRetry, secure, link, m_writable>>
        /\ call # "closed" /\ call' # "closed"
        /\ \/ call \in {"newjob", "setjob"} /\ (todo # <<>> => call' \in {"setjob", "write"})
           \/ call \notin {"write", "newjob", "setjob"}
    BY <1>3 DEF MakeJob, SetJob, AfterPiece, Flush, FreeSSLResources, RemoveJob, roleVars,
       flagVars, bufVars, tlsVars, pieceVars, netVars
  <2>2. todo # <<>> => call' \in {"write", "newjob", "setjob"}
    BY <2>1 DEF PutInv
  <2>. QED
    BY <1>0, <2>1, <2>2, PutKept
<1>4. CASE Close
  <2>1. /\ UNCHANGED <<outNet, todo, writeRetry, secure, link>> /\ m_outputBuffer' = <<>>
        /\ ~m_writable' /\ call = "shut" /\ call' = "closed"
    BY <1>4 DEF Close, OnDisconnected, roleVars, tlsVars, pieceVars, netVars
  <2>2. todo = <<>>
    BY <2>1 DEF PutInv
  <2>. QED
    BY <1>0, <2>1, <2>2, PutDropped
<1>. QED
  BY <1>1, <1>2, <1>3, <1>4

LEMMA OwnerPut ==
  ASSUME Types, Stage, PutInv, ReadMore \/ OwnerReads \/ HandleEvent \/ OwnerWrites \/ OwnerCloses
  PROVE  PutInv'
<1>1. CASE ReadMore
  <2>1. /\ UNCHANGED <<outNet, m_outputBuffer, todo, written, writeRetry, secure, up, link, m_writable>>
        /\ call = "readmore" /\ call' \in {"readmore", "deliver", "idle"}
    BY <1>1 DEF ReadMore, Read, roleVars, tlsVars, pieceVars, netVars, ownerVars
  <2>. QED
    BY <2>1, PutKept DEF PutInv
<1>2. CASE OwnerReads
  <2>1. /\ UNCHANGED <<outNet, m_outputBuffer, todo, written, writeRetry, secure, up, link, m_writable>>
        /\ call = "deliver" /\ call' \in {"deliver", "idle"}
    BY <1>2 DEF OwnerReads, roleVars, flagVars, bufVars, tlsVars, pieceVars, netVars
  <2>. QED
    BY <2>1, PutKept DEF PutInv
<1>3. CASE HandleEvent /\ Goes(Head(events))
  <2>1. UNCHANGED <<outNet, m_outputBuffer, todo, written, writeRetry, secure, link, m_writable>>
    BY <1>3 DEF Goes, roleVars, flagVars, bufVars, tlsVars, pieceVars, netVars
  <2>2. call = "idle"
    BY <1>3, HandleIs
  <2>3. call' \in {"idle", "readmore", "setjob"} /\ (up => up')
    <3>1. \/ call' \in {"readmore", "setjob"} /\ up' = up
          \/ call' = call /\ (up' = up \/ up' = TRUE)
      BY <1>3 DEF Goes
    <3>2. up => up'
      <4>1. up' = up \/ up' = TRUE
        BY <3>1
      <4>. QED
        BY <4>1
    <3>. QED
      BY <2>2, <3>1, <3>2
  <2>. QED
    BY <2>1, <2>2, <2>3, PutKept DEF PutInv
<1>4. CASE FilterClose /\ call = "idle"
  <2>1. /\ UNCHANGED <<outNet, m_outputBuffer, todo, written, writeRetry, secure, up, link, m_writable>>
        /\ call' \in {"free", "destroy"}
    BY <1>4 DEF FilterClose, BeginClose, roleVars, flagVars, bufVars, pieceVars, netVars
  <2>. QED
    BY <1>4, <2>1, PutKept DEF PutInv
<1>5. CASE OwnerWrites
  BY <1>5, OwnerWritesPut
<1>. QED
  BY <1>1, <1>2, <1>3, <1>4, <1>5, HandleIs DEF OwnerCloses, Ends

LEMMA FarPut ==
  ASSUME Types, PutInv, NetConnect \/ PeerLeaves \/ PeerSend PROVE PutInv'
<1>1. /\ UNCHANGED <<outNet, m_outputBuffer, todo, written, writeRetry, secure, up, m_writable, call>>
      /\ link # "reset"
  BY DEF NetConnect, PeerLeaves, PeerSend, roleVars, flagVars, bufVars, tlsVars, callVars,
     pieceVars, ownerVars
<1>. QED
  BY <1>1, PutKept DEF PutInv

-----------------------------------------------------------------------------
(* The end of input: told once nothing is left *)

\* An event of one of these names comes before any of this name.
Led(evs, i, names) == \E j \in 1..(i - 1) : evs[j] \in names
Shielded(evs, name, names) == \A i \in 1..Len(evs) : evs[i] = name => Led(evs, i, names)

\* All has arrived and been read from the connection.
Eof == link = "eof" /\ inNet = <<>>

Prompting == Ending \union {"inputReady"}

\* The owner is told of the end of input when there is no more to come, and
\* nothing that it has not been told of; or it has closed before that.
EndInv ==
  Attended =>
    /\ Eof \/ Shielded(events, "inputShutdown", Ending)
    /\ \/ m_inputBuffer = <<>> \/ call = "readmore"
       \/ Shielded(events, "inputShutdown", Prompting)
    /\ (m_inputShutdown /\ m_size = 0) \/ Shielded(events, "filterShutdown", Ending)
    /\ m_inputShutdown => Eof /\ m_inputBuffer = <<>>

LEMMA ShieldedJoined ==
  ASSUME NEW s \in Seq(EventNames), NEW t \in Seq(EventNames), NEW name, NEW names,
         Shielded(s, name, names), In(s, names) \/ Shielded(t, name, names)
  PROVE  Shielded(s \o t, name, names)
<1>. SUFFICES ASSUME NEW i \in 1..Len(s \o t), (s \o t)[i] = name PROVE Led(s \o t, i, names)
  BY DEF Shielded
<1>0. Len(s) \in Nat /\ Len(t) \in Nat /\ Len(s \o t) = Len(s) + Len(t) /\ DOMAIN s = 1..Len(s)
  BY SMTT(120)
<1>1. CASE i <= Len(s)
  <2>1. i \in 1..Len(s) /\ (s \o t)[i] = s[i]
    BY SMTT(120), <1>0, <1>1
  <2>2. PICK j \in 1..(i - 1) : s[j] \in names
    BY <2>1 DEF Shielded, Led
  <2>3. (s \o t)[j] = s[j]
    BY SMTT(120), <1>0, <2>1
  <2>. QED
    BY <2>2, <2>3 DEF Led
<1>2. CASE i > Len(s)
  <2>1. i - Len(s) \in 1..Len(t) /\ (s \o t)[i] = t[i - Len(s)]
    BY SMTT(120), <1>0, <1>2
  <2>2. CASE In(s, names)
    <3>1. PICK j \in 1..Len(s) : s[j] \in names
      BY <1>0, <2>2 DEF In
    <3>2. j \in 1..(i - 1) /\ (s \o t)[j] = s[j]
      BY SMTT(120), <1>0, <1>2
    <3>. QED
      BY <3>1, <3>2 DEF Led
  <2>3. CASE Shielded(t, name, names)
    <3>1. PICK j \in 1..(i - Len(s) - 1) : t[j] \in names
      BY <2>1, <2>3 DEF Shielded, Led
    <3>2. Len(s) + j \in 1..(i - 1) /\ (s \o t)[Len(s) + j] = t[j]
      BY SMTT(120), <1>0, <2>1
    <3>. QED
      BY <3>1, <3>2 DEF Led
  <2>. QED
    BY <2>2, <2>3
<1>. QED
  BY SMTT(120), <1>0, <1>1, <1>2

\* The first event is led by none.
LEMMA ShieldedTail ==
  ASSUME NEW s \in Seq(EventNames), s # <<>>, NEW name, NEW names, Shielded(s, name, names)
  PROVE  /\ Head(s) # name
         /\ Head(s) \notin names => Shielded(Tail(s), name, names)
<1>0. Len(s) \in Nat /\ Len(s) >= 1 /\ Len(Tail(s)) = Len(s) - 1 /\ Head(s) = s[1]
      /\ \A i \in 1..(Len(s) - 1) : Tail(s)[i] = s[i + 1]
  BY SMTT(120), Tails
<1>1. Head(s) # name
  <2>1. 1 \in 1..Len(s) /\ ~Led(s, 1, names)
    BY SMTT(120), <1>0 DEF Led
  <2>. QED
    BY <1>0, <2>1 DEF Shielded
<1>2. ASSUME Head(s) \notin names, NEW i \in 1..Len(Tail(s)), Tail(s)[i] = name
      PROVE  Led(Tail(s), i, names)
  <2>1. i + 1 \in 1..Len(s) /\ s[i + 1] = name
    BY SMTT(120), <1>0, <1>2
  <2>2. PICK j \in 1..i : s[j] \in names
    <3>1. Led(s, i + 1, names)
      BY <2>1 DEF Shielded
    <3>. QED
      BY SMTT(120), <1>0, <3>1 DEF Led
  <2>3. j # 1
    BY <1>0, <1>2, <2>2
  <2>4. j - 1 \in 1..(i - 1) /\ Tail(s)[j - 1] = s[j]
    BY SMTT(120), <1>0, <2>3
  <2>. QED
    BY <2>2, <2>4 DEF Led
<1>. QED
  BY <1>1, <1>2 DEF Shielded

LEMMA ShieldedMore ==
  ASSUME NEW s, NEW name, Shielded(s, name, Ending) PROVE Shielded(s, name, Prompting)
BY DEF Shielded, Led, Prompting

Quiet(s) == Shielded(s, "inputShutdown", Ending) /\ Shielded(s, "filterShutdown", Ending)

LEMMA QuietShort ==
  /\ Quiet(<<>>)
  /\ \A x \in EventNames \ {"inputShutdown", "filterShutdown"} : Quiet(<<x>>)
  /\ \A x, y \in EventNames \ {"inputShutdown", "filterShutdown"} : Quiet(<<x, y>>)
<1>1. Quiet(<<>>)
  BY SMTT(120) DEF Quiet, Shielded
<1>2. ASSUME NEW x \in EventNames \ {"inputShutdown", "filterShutdown"} PROVE Quiet(<<x>>)
  BY SMTT(120) DEF Quiet, Shielded
<1>3. ASSUME NEW x \in EventNames \ {"inputShutdown", "filterShutdown"},
             NEW y \in EventNames \ {"inputShutdown", "filterShutdown"}
      PROVE  Quiet(<<x, y>>)
  BY SMTT(120) DEF Quiet, Shielded
<1>. QED
  BY <1>1, <1>2, <1>3

LEMMA QuietTls == Quiet(TlsFailure)
<1>1. Len(TlsFailure) = 3 /\ TlsFailure[1] = "stopRetry" /\ TlsFailure[2] = "disconnected"
      /\ TlsFailure[3] = "inputShutdown" /\ \A i \in 1..3 : i \in {1, 2, 3}
  BY SMTT(120) DEF TlsFailure
<1>2. Led(TlsFailure, 3, Ending)
  <2>1. 2 \in 1..(3 - 1)
    BY SMTT(120)
  <2>. QED
    BY <1>1, <2>1 DEF Led, Ending
<1>3. Shielded(TlsFailure, "inputShutdown", Ending)
  BY <1>1, <1>2 DEF Shielded
<1>4. Shielded(TlsFailure, "filterShutdown", Ending)
  BY <1>1 DEF Shielded
<1>. QED
  BY <1>3, <1>4 DEF Quiet

LEMMA QuietJoined ==
  ASSUME NEW s \in Seq(EventNames), NEW t \in Seq(EventNames), Quiet(s), Quiet(t)
  PROVE  Quiet(s \o t)
BY ShieldedJoined DEF Quiet

LEMMA QuietOver ==
  ASSUME NEW a \in BOOLEAN PROVE Quiet(Over(a)) /\ Over(a) \in Seq(EventNames)
<1>1. "disconnected" \in EventNames \ {"inputShutdown", "filterShutdown"}
  BY DEF EventNames
<1>2. <<>> \in Seq(EventNames) /\ <<"disconnected">> \in Seq(EventNames)
  BY SMTT(120), <1>1
<1>. QED
  BY <1>1, <1>2, QuietShort DEF Over

LEMMA QuietWrite == ASSUME NEW w, NEW a \in BOOLEAN PROVE Quiet(WriteEvents(w, Over(a)))
<1>1. /\ "outputShutdown" \in EventNames \ {"inputShutdown", "filterShutdown"}
      /\ "outputError" \in EventNames \ {"inputShutdown", "filterShutdown"}
      /\ "disconnected" \in EventNames \ {"inputShutdown", "filterShutdown"}
  BY DEF EventNames
<1>2. Quiet(<<"outputShutdown">> \o Over(a))
  <2>1. <<"outputShutdown">> \in Seq(EventNames)
    BY SMTT(120), <1>1
  <2>. QED
    BY <1>1, <2>1, QuietShort, QuietOver, QuietJoined
<1>. QED
  BY <1>1, <1>2, QuietShort, QuietTls DEF WriteEvents

LEMMA QuietRead ==
  ASSUME NEW r, NEW a \in BOOLEAN
  PROVE  /\ r # "eof" => Quiet(ReadEvents(r, Over(a)))
         /\ r = "eof" => Shielded(ReadEvents(r, Over(a)), "filterShutdown", Ending)
<1>1. /\ "inputReady" \in EventNames \ {"inputShutdown", "filterShutdown"}
      /\ "disconnected" \in EventNames \ {"inputShutdown", "filterShutdown"}
  BY DEF EventNames
<1>2. r # "eof" => Quiet(ReadEvents(r, Over(a)))
  BY <1>1, QuietShort, QuietTls DEF ReadEvents
<1>3. ASSUME r = "eof" PROVE Shielded(ReadEvents(r, Over(a)), "filterShutdown", Ending)
  <2>1. ReadEvents(r, Over(a)) = <<"inputShutdown">> \o Over(a)
    BY <1>3 DEF ReadEvents
  <2>2. /\ <<"inputShutdown">> \in Seq(EventNames)
        /\ Shielded(<<"inputShutdown">>, "filterShutdown", Ending)
    BY SMTT(120) DEF EventNames, Shielded
  <2>. QED
    BY <2>1, <2>2, QuietOver, ShieldedJoined DEF Quiet
<1>. QED
  BY <1>2, <1>3

\* Steps after which the queue holds no more ends than before.
LEMMA EndKept ==
  ASSUME Types, EndInv, NEW more \in Seq(EventNames), events' = events \o more, Quiet(more),
         Attended' => Attended, Eof => Eof', UNCHANGED m_inputShutdown,
         m_inputBuffer = <<>> \/ call = "readmore" => m_inputBuffer' = <<>> \/ call' = "readmore",
         m_inputShutdown => m_size' = m_size /\ (m_inputBuffer = <<>> => m_inputBuffer' = <<>>)
  PROVE  EndInv'
<1>. SUFFICES ASSUME Attended' PROVE
        /\ Eof' \/ Shielded(events', "inputShutdown", Ending)
        /\ \/ m_inputBuffer' = <<>> \/ call' = "readmore"
           \/ Shielded(events', "inputShutdown", Prompting)
        /\ (m_inputShutdown' /\ m_size' = 0) \/ Shielded(events', "filterShutdown", Ending)
        /\ m_inputShutdown' => Eof' /\ m_inputBuffer' = <<>>
  BY DEF EndInv
<1>0. /\ Attended /\ events \in Seq(EventNames)
      /\ Shielded(more, "inputShutdown", Ending) /\ Shielded(more, "filterShutdown", Ending)
      /\ Shielded(more, "inputShutdown", Prompting)
  BY ShieldedMore DEF Types, Rest, Quiet
<1>1. /\ Shielded(events, "inputShutdown", Ending) => Shielded(events', "inputShutdown", Ending)
      /\ Shielded(events, "inputShutdown", Prompting) => Shielded(events', "inputShutdown", Prompting)
      /\ Shielded(events, "filterShutdown", Ending) => Shielded(events', "filterShutdown", Ending)
  BY <1>0, ShieldedJoined
<1>. QED
  BY <1>0, <1>1 DEF EndInv

LEMMA EndSame ==
  ASSUME Types, EndInv, UNCHANGED events,
         Attended' => Attended, Eof => Eof', UNCHANGED m_inputShutdown,
         m_inputBuffer = <<>> \/ call = "readmore" => m_inputBuffer' = <<>> \/ call' = "readmore",
         m_inputShutdown => m_size' = m_size /\ (m_inputBuffer = <<>> => m_inputBuffer' = <<>>)
  PROVE  EndInv'
BY DEF EndInv

LEMMA EndOne ==
  ASSUME Types, EndInv, NEW x \in EventNames, x \notin {"inputShutdown", "filterShutdown"},
         events' = Append(events, x),
         Attended' => Attended, Eof => Eof', UNCHANGED m_inputShutdown,
         m_inputBuffer = <<>> \/ call = "readmore" => m_inputBuffer' = <<>> \/ call' = "readmore",
         m_inputShutdown => m_size' = m_size /\ (m_inputBuffer = <<>> => m_inputBuffer' = <<>>)
  PROVE  EndInv'
<1>1. events \in Seq(EventNames)
  BY DEF Types, Rest
<1>2. <<x>> \in Seq(EventNames) /\ events' = events \o <<x>>
  BY <1>1, Appends
<1>3. Quiet(<<x>>)
  BY QuietShort
<1>. QED
  BY <1>2, <1>3, EndKept

LEMMA InitEnd == Init => EndInv
<1>. SUFFICES ASSUME Init PROVE EndInv
  OBVIOUS
<1>1. events = <<>> /\ m_inputBuffer = <<>> /\ ~m_inputShutdown
  BY DEF Init
<1>. QED
  BY <1>1, QuietShort DEF EndInv, Quiet

LEMMA EndClosed == ASSUME ~Attended' PROVE EndInv'
BY DEF EndInv

LEMMA DoEnd ==
  ASSUME Types, Signalled, EndInv, NEW w, NEW n, NEW r, NEW k,
         Outcome(w, n, r, k), DoWriteDoRead(w, n, r, k), Around
  PROVE  EndInv'
<1>. DEFINE hungUp == w = "shutdown" /\ ~m_readable /\ m_inputBuffer = <<>>
            endsIn == r = "eof" /\ m_inputBuffer = <<>> /\ (~m_writable \/ w = "shutdown")
            first == WriteEvents(w, Over(hungUp))
            second == ReadEvents(r, Over(endsIn))
<1>0. /\ UNCHANGED <<m_size, m_inputShutdown, link, call>> /\ (Attended' <=> Attended)
      /\ events \in Seq(EventNames) /\ inNet \in Seq(Byte) /\ m_inputBuffer \in Seq(Byte)
  BY DEF Around, callVars, filterVars, Attended, Types, Input, Rest
<1>1. hungUp \in BOOLEAN /\ endsIn \in BOOLEAN
  BY DEF Types, Flags
<1>2. events' = events \o first \o second /\ inNet' = SubSeq(inNet, k + 1, Len(inNet))
      /\ m_inputBuffer' \in {<<>>, m_inputBuffer \o SubSeq(inNet, 1, k)}
  BY DEF DoWriteDoRead
<1>3. k \in 0..Len(inNet) /\ (r \in {"data", "last"} <=> k > 0) /\ (r = "eof" => Eof)
  BY DEF Outcome, Eof
<1>. HIDE DEF hungUp, endsIn
<1>4. first \in Seq(EventNames) /\ second \in Seq(EventNames) /\ events \o first \in Seq(EventNames)
  <2>1. first \in Seq(EventNames) /\ second \in Seq(EventNames)
    BY <1>1, ReportTypes, LaterSeq
  <2>. HIDE DEF first, second
  <2>. QED
    BY <1>0, <2>1, Joins
<1>5. /\ Quiet(first)
      /\ r # "eof" => Quiet(second)
      /\ Shielded(second, "filterShutdown", Ending)
  BY <1>1, QuietWrite, QuietRead DEF Quiet
<1>6. /\ k = 0 => m_inputBuffer' \in {<<>>, m_inputBuffer} /\ inNet' = inNet
      /\ Eof => k = 0
  <2>1. k = 0 => SubSeq(inNet, 1, k) = <<>> /\ SubSeq(inNet, k + 1, Len(inNet)) = inNet
    BY SMTT(120), <1>0
  <2>2. m_inputBuffer \o <<>> = m_inputBuffer
    BY SMTT(120), <1>0
  <2>3. Eof => k = 0
    BY SMTT(120), <1>3 DEF Eof
  <2>. QED
    BY <1>2, <2>1, <2>2, <2>3
<1>. HIDE DEF first, second
<1>7. Eof => Eof'
  BY <1>0, <1>6 DEF Eof
<1>8. /\ Shielded(first, "inputShutdown", Ending) /\ Shielded(first, "filterShutdown", Ending)
      /\ Shielded(first, "inputShutdown", Prompting)
      /\ r # "eof" => /\ Shielded(second, "inputShutdown", Ending)
                      /\ Shielded(second, "inputShutdown", Prompting)
  BY <1>5, ShieldedMore DEF Quiet
<1>9. ASSUME NEW name, NEW names, Shielded(events, name, names), Shielded(first, name, names),
             Shielded(second, name, names) \/ In(events, names)
      PROVE  Shielded(events', name, names)
  <2>1. Shielded(events \o first, name, names)
    BY <1>0, <1>4, <1>9, ShieldedJoined
  <2>2. In(events, names) => In(events \o first, names)
    BY <1>0, <1>4, InJoined
  <2>3. Shielded(events \o first \o second, name, names)
    BY <1>4, <1>9, <2>1, <2>2, ShieldedJoined
  <2>. QED
    BY <1>2, <2>3
<1>. SUFFICES ASSUME Attended' PROVE
        /\ Eof' \/ Shielded(events', "inputShutdown", Ending)
        /\ \/ m_inputBuffer' = <<>> \/ call' = "readmore"
           \/ Shielded(events', "inputShutdown", Prompting)
        /\ (m_inputShutdown' /\ m_size' = 0) \/ Shielded(events', "filterShutdown", Ending)
        /\ m_inputShutdown' => Eof' /\ m_inputBuffer' = <<>>
  BY DEF EndInv
<1>10. Eof' \/ Shielded(events', "inputShutdown", Ending)
  BY <1>0, <1>3, <1>7, <1>8, <1>9 DEF EndInv
<1>11. \/ m_inputBuffer' = <<>> \/ call' = "readmore"
       \/ Shielded(events', "inputShutdown", Prompting)
  <2>1. CASE k = 0
    <3>. SUFFICES ASSUME m_inputBuffer' # <<>>, call # "readmore"
                  PROVE  Shielded(events', "inputShutdown", Prompting)
      BY <1>0
    <3>1. m_inputBuffer # <<>>
      BY <1>6, <2>1
    <3>2. Shielded(events, "inputShutdown", Prompting)
      BY <1>0, <3>1 DEF EndInv
    <3>3. In(events, Prompting)
      BY <1>0, <3>1 DEF Signalled, InputSignalled, Queued, In, Prompting
    <3>. QED
      BY <1>8, <1>9, <3>2, <3>3
  <2>2. CASE k # 0
    <3>1. ~Eof /\ r # "eof"
      BY <1>3, <1>6, <2>2
    <3>2. Shielded(events, "inputShutdown", Prompting)
      BY <1>0, <3>1, ShieldedMore DEF EndInv
    <3>. QED
      BY <1>8, <1>9, <3>1, <3>2
  <2>. QED
    BY <2>1, <2>2
<1>12. (m_inputShutdown' /\ m_size' = 0) \/ Shielded(events', "filterShutdown", Ending)
  BY <1>0, <1>5, <1>8, <1>9 DEF EndInv
<1>13. m_inputShutdown' => Eof' /\ m_inputBuffer' = <<>>
  BY <1>0, <1>6, <1>7 DEF EndInv
<1>. QED
  BY <1>10, <1>11, <1>12, <1>13

LEMMA ServiceEnd ==
  ASSUME Types, Signalled, EndInv, ServiceJob, UNCHANGED <<filterVars, ownerVars, peer>>
  PROVE  EndInv'
<1>0. UNCHANGED <<m_size, m_inputShutdown>>
  BY DEF filterVars
<1>1. /\ {"connected", "secureConnected", "connectionFailed", "disconnected"} \subseteq EventNames
      /\ TlsFailure \in Seq(EventNames)
  BY TlsFailureTypes, LaterSeq DEF EventNames
<1>2. CASE ServiceConnecting
  <2>1. UNCHANGED <<inNet, link, call>> /\ m_inputBuffer' \in {<<>>, m_inputBuffer}
    BY <1>2 DEF ServiceConnecting, OnDisconnected, callVars, netVars
  <2>2. events' = Append(events, "connectionFailed") \/ events' = Append(events, "connected")
    BY <1>2 DEF ServiceConnecting
  <2>. QED
    BY <1>0, <1>1, <2>1, <2>2, EndOne DEF Eof, Attended
<1>3. CASE ServiceHandshake
  <2>1. UNCHANGED <<inNet, link, call, m_inputBuffer>>
    BY <1>3 DEF ServiceHandshake, bufVars, callVars, netVars
  <2>2. CASE events' = Append(events, "secureConnected")
    BY <1>0, <1>1, <2>1, <2>2, EndOne DEF Eof, Attended
  <2>3. CASE events' = events \o TlsFailure
    BY <1>0, <1>1, <2>1, <2>3, QuietTls, EndKept DEF Eof, Attended
  <2>. QED
    BY <1>3, <2>2, <2>3 DEF ServiceHandshake
<1>4. CASE ServiceConnected
  <2>0. Around
    BY <1>4, ConnectedIs
  <2>1. CASE ConnectedLost
    <3>1. UNCHANGED <<link, call>>
      BY <2>0 DEF Around, callVars
    <3>. QED
      BY <1>0, <1>1, <2>1, <3>1, EndOne DEF ConnectedLost, OnDisconnected, Eof, Attended
  <2>2. CASE ~ConnectedLost
    <3>1. PICK w, n, r, k : Outcome(w, n, r, k) /\ DoWriteDoRead(w, n, r, k)
      BY <1>4, <2>2, ConnectedIs
    <3>. QED
      BY <2>0, <3>1, DoEnd
  <2>. QED
    BY <2>1, <2>2
<1>. QED
  BY <1>2, <1>3, <1>4 DEF ServiceJob

LEMMA MainEnd ==
  ASSUME Types, EndInv, UNCHANGED <<filterVars, ownerVars, peer>>,
         Connect \/ Write \/ MakeJob \/ SetJob \/ Flush \/ FreeSSLResources \/ RemoveJob \/ Close
  PROVE  EndInv'
<1>0. UNCHANGED <<m_size, m_inputShutdown>>
  BY DEF filterVars
<1>1. CASE FreeSSLResources \/ RemoveJob \/ Close
  BY <1>1, EndClosed DEF FreeSSLResources, RemoveJob, Close, Attended
<1>2. CASE Connect \/ Write \/ MakeJob \/ SetJob \/ Flush
  <2>1. /\ UNCHANGED <<inNet, link, m_inputBuffer>>
        /\ call \in {"connect", "write", "newjob", "setjob", "flush"}
    BY <1>2 DEF Connect, Write, MakeJob, SetJob, Flush, bufVars, netVars
  <2>2. UNCHANGED events \/ events' = Append(events, "connected") \/ events' = Append(events, "outputError")
    BY <1>2 DEF Connect, Write, MakeJob, SetJob, Flush
  <2>3. "connected" \in EventNames /\ "outputError" \in EventNames
    BY DEF EventNames
  <2>. QED
    BY <1>0, <2>1, <2>2, <2>3, EndSame, EndOne DEF Eof, Attended
<1>. QED
  BY <1>1, <1>2

LEMMA ReadMoreEnd ==
  ASSUME Types, EndInv, ReadMore, call' # "readmore" => m_inputBuffer' = <<>>
  PROVE  EndInv'
<1>. DEFINE n == IF Len(m_inputBuffer) < ReadChunk THEN Len(m_inputBuffer) ELSE ReadChunk
            buffer == m_buffer \o SubSeq(m_inputBuffer, 1, n)
            sends == IF n > 0 THEN FormatError(m_size, buffer) ELSE <<>>
            rest == SubSeq(m_inputBuffer, n + 1, Len(m_inputBuffer))
            ends == n > 0 /\ rest = <<>> /\ ~m_readable /\ ~m_writable
<1>1. /\ call = "readmore" /\ m_inputBuffer' = rest /\ events' = events \o Over(ends) \o sends
      /\ m_size' = IF n > 0 THEN SizeAfter(m_size, buffer) ELSE m_size
      /\ UNCHANGED <<m_inputShutdown, inNet, link>>
  BY DEF ReadMore, Read, Over, netVars
<1>2. n \in Nat /\ n <= Len(m_inputBuffer) /\ m_inputBuffer \in Seq(Byte) /\ ends \in BOOLEAN
      /\ (m_inputBuffer = <<>> => n = 0 /\ rest = <<>>)
  <2>1. m_inputBuffer \in Seq(Byte)
    BY DEF Types, Input
  <2>2. n \in Nat /\ n <= Len(m_inputBuffer) /\ (m_inputBuffer = <<>> => n = 0)
    BY SMTT(120), <2>1, Constants
  <2>3. ends \in BOOLEAN
    OBVIOUS
  <2>4. n = 0 => rest = m_inputBuffer
    BY <2>1, <2>2, Slices
  <2>. QED
    BY <2>1, <2>2, <2>3, <2>4
<1>. HIDE DEF n
<1>3. buffer \in Seq(Byte) /\ m_size \in Nat
  <2>1. SubSeq(m_inputBuffer, 1, n) \in Seq(Byte)
    BY <1>2, Slices
  <2>. QED
    BY <2>1, Joins DEF Types, Input, Rest
<1>. HIDE DEF buffer, rest, ends
<1>4. sends \in {<<>>, <<"inputFormatError">>} /\ Over(ends) \in {<<>>, <<"disconnected">>}
  BY <1>3, FilterTypes DEF Over
<1>. HIDE DEF sends
<1>5. {"inputFormatError", "disconnected"} \subseteq EventNames \ {"inputShutdown", "filterShutdown"}
  BY DEF EventNames
<1>6. Quiet(sends) /\ Quiet(Over(ends))
  BY <1>4, <1>5, QuietShort
<1>7. sends \in Seq(EventNames) /\ Over(ends) \in Seq(EventNames) /\ events \in Seq(EventNames)
  <2>1. <<"inputFormatError">> \in Seq(EventNames) /\ <<"disconnected">> \in Seq(EventNames)
        /\ <<>> \in Seq(EventNames)
    BY SMTT(120), <1>5
  <2>. QED
    BY <1>4, <2>1 DEF Types, Rest
<1>8. Over(ends) \o sends \in Seq(EventNames) /\ events' = events \o (Over(ends) \o sends)
  BY SMTT(120), <1>1, <1>7
<1>9. Quiet(Over(ends) \o sends)
  BY <1>6, <1>7, QuietJoined
<1>10. m_inputBuffer' = <<>> \/ call' = "readmore"
  OBVIOUS
<1>11. m_inputBuffer = <<>> => m_size' = m_size /\ m_inputBuffer' = <<>>
  BY SMTT(120), <1>1, <1>2
<1>12. /\ Attended /\ (m_inputShutdown => m_inputBuffer = <<>>) /\ (Eof => Eof')
  BY <1>1 DEF EndInv, Attended, Eof
<1>. QED
  BY <1>1, <1>8, <1>9, <1>10, <1>11, <1>12, EndKept

LEMMA OwnerReadsEnd == ASSUME Types, EndInv, OwnerReads PROVE EndInv'
<1>0. /\ call = "deliver" /\ call' \in {"deliver", "idle"}
      /\ UNCHANGED <<m_inputBuffer, inNet, link>>
  BY DEF OwnerReads, bufVars, netVars
<1>1. CASE ~IsReady(m_size, m_buffer)
  <2>1. UNCHANGED <<m_size, m_inputShutdown, events>>
    BY <1>1 DEF OwnerReads, filterVars
  <2>. QED
    BY <1>0, <2>1, EndSame DEF Eof, Attended
<1>2. CASE IsReady(m_size, m_buffer)
  <2>1. PICK asked \in 1..MaxMessage : FilterRead(asked)
    BY <1>2 DEF OwnerReads
  <2>. DEFINE n == IF asked > m_size THEN m_size ELSE asked
              rest == SubSeq(m_buffer, n + 1, Len(m_buffer))
              left == m_size - n
              error == FormatError(left, rest)
              last == IF m_inputShutdown /\ m_size' = 0 THEN <<"filterShutdown">> ELSE <<>>
  <2>2. /\ events' = events \o error \o last /\ UNCHANGED m_inputShutdown
    BY <2>1 DEF FilterRead
  <2>3. n \in Nat /\ left \in Nat /\ m_buffer \in Seq(Byte)
    BY SMTT(120), Constants DEF Types, Input, Rest
  <2>. HIDE DEF n, left
  <2>4. rest \in Seq(Byte)
    BY <2>3, Slices
  <2>. HIDE DEF rest
  <2>5. error \in {<<>>, <<"inputFormatError">>}
    BY <2>3, <2>4, FilterTypes
  <2>. HIDE DEF error
  <2>6. {"inputFormatError", "filterShutdown"} \subseteq EventNames /\ events \in Seq(EventNames)
    BY DEF EventNames, Types, Rest
  <2>7. error \in Seq(EventNames) /\ last \in Seq(EventNames)
    <3>1. <<"inputFormatError">> \in Seq(EventNames) /\ <<"filterShutdown">> \in Seq(EventNames)
          /\ <<>> \in Seq(EventNames)
      BY SMTT(120), <2>6
    <3>. QED
      BY <2>5, <3>1
  <2>8. Quiet(error)
    BY <2>5, <2>6, QuietShort
  <2>9. /\ Shielded(last, "inputShutdown", Ending)
        /\ ~(m_inputShutdown /\ m_size' = 0) => Shielded(last, "filterShutdown", Ending)
    <3>1. Shielded(<<"filterShutdown">>, "inputShutdown", Ending)
      BY SMTT(120) DEF Shielded
    <3>. QED
      BY <3>1, QuietShort DEF Quiet
  <2>. HIDE DEF last
  <2>10. ASSUME NEW name, NEW names, Shielded(events, name, names), Shielded(error, name, names),
                Shielded(last, name, names)
         PROVE  Shielded(events', name, names)
    <3>1. events \o error \in Seq(EventNames)
      BY <2>6, <2>7, Joins
    <3>2. Shielded(events \o error, name, names)
      BY <2>6, <2>7, <2>10, ShieldedJoined
    <3>3. Shielded(events \o error \o last, name, names)
      BY <2>7, <2>10, <3>1, <3>2, ShieldedJoined
    <3>. QED
      BY <2>2, <3>3
  <2>11. /\ Shielded(error, "inputShutdown", Ending) /\ Shielded(error, "filterShutdown", Ending)
         /\ Shielded(error, "inputShutdown", Prompting) /\ Shielded(last, "inputShutdown", Prompting)
    BY <2>8, <2>9, ShieldedMore DEF Quiet
  <2>12. m_size # 0
    BY <1>2 DEF IsReady
  <2>. QED
    BY <1>0, <2>2, <2>9, <2>10, <2>11, <2>12 DEF EndInv, Eof, Attended
<1>. QED
  BY <1>1, <1>2

LEMMA OwnerEnd ==
  ASSUME Types, EndInv, HandleEvent \/ OwnerWrites \/ OwnerCloses PROVE EndInv'
<1>1. CASE HandleEvent /\ Goes(Head(events))
  <2>0. PICK e : e = Head(events)
    OBVIOUS
  <2>1. /\ call = "idle" /\ events # <<>> /\ events' = Tail(events) /\ events \in Seq(EventNames)
    BY <1>1, HandleIs DEF Types, Rest
  <2>2. /\ UNCHANGED <<m_inputBuffer, inNet, link, m_size>>
        /\ e \notin Ending
        /\ \/ e = "inputReady" /\ call' = "readmore" /\ UNCHANGED m_inputShutdown
           \/ e = "inputShutdown" /\ m_size # 0 /\ m_inputShutdown' = TRUE /\ UNCHANGED call
           \/ e \notin Prompting \union {"inputShutdown"} /\ UNCHANGED m_inputShutdown
    BY <1>1, <2>0 DEF Goes, Ending, Prompting, bufVars, netVars
  <2>3. \A name, names : Shielded(events, name, names) =>
             e # name /\ (e \notin names => Shielded(events', name, names))
    BY <2>0, <2>1, ShieldedTail
  <2>4. Attended /\ (Eof' <=> Eof)
    BY <2>1, <2>2 DEF Attended, Eof
  <2>5. CASE e = "inputReady"
    <3>1. call' = "readmore" /\ UNCHANGED m_inputShutdown
      BY <2>2, <2>5 DEF Prompting
    <3>2. UNCHANGED <<m_inputBuffer, m_size>> /\ e \notin Ending
      BY <2>2
    <3>. QED
      BY <2>3, <2>4, <3>1, <3>2 DEF EndInv
  <2>6. CASE e = "inputShutdown"
    <3>1. Eof /\ m_inputBuffer = <<>>
      BY <2>1, <2>3, <2>4, <2>6 DEF EndInv
    <3>. QED
      BY <2>1, <2>2, <2>3, <2>4, <2>6, <3>1 DEF EndInv
  <2>7. CASE e \notin Prompting \union {"inputShutdown"} /\ UNCHANGED m_inputShutdown
    BY <2>1, <2>2, <2>3, <2>4, <2>7 DEF EndInv, Prompting
  <2>. QED
    BY <2>2, <2>5, <2>6, <2>7
<1>2. CASE OwnerWrites
  <2>1. UNCHANGED <<events, m_inputBuffer, inNet, link, m_size, m_inputShutdown>> /\ call = "idle"
    BY <1>2 DEF OwnerWrites, bufVars, netVars, filterVars
  <2>. QED
    BY <2>1, EndSame DEF Eof, Attended
<1>3. CASE FilterClose
  BY <1>3, EndClosed DEF FilterClose, BeginClose, Attended
<1>. QED
  BY <1>1, <1>2, <1>3, HandleIs DEF OwnerCloses, Ends

LEMMA FarEnd ==
  ASSUME Types, EndInv, NetConnect \/ PeerLeaves \/ PeerSend PROVE EndInv'
<1>1. /\ UNCHANGED <<events, m_inputBuffer, m_size, m_inputShutdown, call>> /\ link # "eof"
  BY DEF NetConnect, PeerLeaves, PeerSend, bufVars, callVars, filterVars
<1>. QED
  BY <1>1, EndSame DEF Eof, Attended
=============================================================================

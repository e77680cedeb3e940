----------------------------- MODULE TCPSocket -----------------------------
(***************************************************************************)
(* One connection: lib/net/TCPSocket.cpp and the operations that           *)
(* lib/net/SecureSocket.cpp overrides.  The main thread connects, writes,  *)
(* reads, flushes and closes; the service thread of the multiplexer runs   *)
(* the socket's job.  A job holds m_mutex from its first line to its last, *)
(* so one run of it is one step.  A call of the main thread is one step    *)
(* for each stretch under m_mutex: write and connect release it before     *)
(* they ask for a new job, and hand that job to the multiplexer later      *)
(* still, so the job may be out of date when it is set.                    *)
(*                                                                         *)
(* Bytes are numbered.  The kernel's side of the connection is inNet (has  *)
(* arrived, not read), outNet (accepted for sending) and link.  OpenSSL is *)
(* external: it is known by the results checkResult tells apart.  The      *)
(* event outputFlushed, which nothing handles, and shutdownInput and       *)
(* shutdownOutput, which nothing calls, are left out.                      *)
(***************************************************************************)
EXTENDS Integers, Sequences

CONSTANTS
    MaxInputBuffer   \* MAX_INPUT_BUFFER_SIZE, in units of the model

ASSUME MaxInputBufferAssumption == MaxInputBuffer \in Nat

VARIABLES
    secure,          \* whether the socket is a SecureSocket
    accepted,        \* made by a listening socket, or to connect to a server
    m_connected, m_readable, m_writable, m_flushed,
    m_inputBuffer,
    m_outputBuffer,
    m_secureReady,   \* the TLS handshake is done
    m_fatal,         \* TLS has failed, or the socket is being closed
    writeRetry,      \* do_write_retry_buffer_, empty when not do_write_retry_
    job,             \* the socket's job in the multiplexer
    call,            \* where the main thread is
    todo,            \* pieces the write in progress has still to hand over
    thenFlush,       \* its caller flushes when they are written
    made,            \* the job the main thread has made and not yet set
    events,          \* events of this socket in the queue, oldest first
    link,            \* the connection as the kernel knows it
    inNet, outNet

roleVars == <<secure, accepted>>
flagVars == <<m_connected, m_readable, m_writable, m_flushed>>
bufVars  == <<m_inputBuffer, m_outputBuffer>>
tlsVars  == <<m_secureReady, m_fatal, writeRetry>>
pieceVars == <<todo, thenFlush>>
callVars == <<call, pieceVars, made>>
netVars  == <<link, inNet, outNet>>
socketVars == <<roleVars, flagVars, bufVars, tlsVars, job, callVars, events,
                netVars>>

JobKinds == {"connecting", "handshake", "connected"}
NoJob == [kind |-> "none", read |-> FALSE, write |-> FALSE]
Job == [kind : JobKinds, read : BOOLEAN, write : BOOLEAN] \union {NoJob}

Calls == {"connect", "idle", "write", "newjob", "setjob", "flush", "readmore",
          "deliver", "free", "unjob", "destroy", "shut", "closed"}

Links == {"none", "open", "eof", "reset"}

\* SecureSocket::newJob and TCPSocket::newJob, of the flags as they are found.
JobOf(connected, readable, writable, output, ready) ==
    LET write == writable /\ (connected => output # <<>>)
        kind  == IF connected THEN "connected" ELSE "connecting"
    IN  IF (secure /\ connected /\ ~ready) \/ ~(readable \/ write)
        THEN NoJob
        ELSE [kind |-> kind, read |-> readable, write |-> write]

\* freeSSLResources has not been called: close calls it first of all, the
\* destructor after the socket has left the multiplexer.
SslAlive == call \notin {"unjob", "shut", "closed"}

\* onDisconnected.
OnDisconnected ==
    /\ m_connected' = FALSE
    /\ m_readable' = FALSE
    /\ m_writable' = FALSE
    /\ m_flushed' = TRUE
    /\ m_inputBuffer' = <<>>
    /\ m_outputBuffer' = <<>>

-----------------------------------------------------------------------------
(* The main thread *)

\* TCPSocket::connect, under m_mutex: connected at once or in progress.
Connect ==
    /\ call = "connect"
    /\ \/ /\ link = "open"
          /\ events' = Append(events, "connected")
          /\ m_connected' = TRUE
          /\ m_readable' = TRUE
       \/ /\ link = "none"
          /\ UNCHANGED <<events, m_connected, m_readable>>
    /\ m_writable' = TRUE
    /\ call' = "newjob"
    /\ UNCHANGED <<roleVars, m_flushed, bufVars, tlsVars,
                   job, pieceVars, made, netVars>>

\* Where write goes on: to the next piece, or back to its caller.
AfterPiece(rest) ==
    IF rest # <<>> THEN "write" ELSE IF thenFlush THEN "flush" ELSE "idle"

\* Fault for StreamOK: a job is asked for only when there was output before.
Fault_Write ==
    /\ call = "write"
    /\ todo' = Tail(todo)
    /\ IF ~m_writable
       THEN /\ events' = Append(events, "outputError")
            /\ call' = AfterPiece(Tail(todo))
            /\ UNCHANGED <<m_outputBuffer, m_flushed>>
       ELSE /\ m_outputBuffer' = m_outputBuffer \o Head(todo)
            /\ m_flushed' = FALSE
            /\ call' = IF m_outputBuffer # <<>> THEN "newjob"
                       ELSE AfterPiece(Tail(todo))
            /\ UNCHANGED events
    /\ UNCHANGED <<roleVars, m_connected, m_readable, m_writable, m_inputBuffer,
                   tlsVars, job, thenFlush, made, netVars>>

\* TCPSocket::write, under m_mutex.
Write ==
    /\ call = "write"
    /\ todo' = Tail(todo)
    /\ IF ~m_writable
       THEN /\ events' = Append(events, "outputError")
            /\ call' = AfterPiece(Tail(todo))
            /\ UNCHANGED <<m_outputBuffer, m_flushed>>
       ELSE /\ m_outputBuffer' = m_outputBuffer \o Head(todo)
            /\ m_flushed' = FALSE
            /\ call' = IF m_outputBuffer = <<>> THEN "newjob"
                       ELSE AfterPiece(Tail(todo))
            /\ UNCHANGED events
    /\ UNCHANGED <<roleVars, m_connected, m_readable, m_writable, m_inputBuffer,
                   tlsVars, job, thenFlush, made, netVars>>

\* newJob() as write and connect call it, after m_mutex is released.
MakeJob ==
    /\ call = "newjob"
    /\ made' = JobOf(m_connected, m_readable, m_writable, m_outputBuffer,
                     m_secureReady)
    /\ call' = "setjob"
    /\ UNCHANGED <<roleVars, flagVars, bufVars, tlsVars,
                   job, pieceVars, events, netVars>>

\* setJob.  newJob reads m_readable twice without the lock: the job may have
\* been made of a later value than the one that was tested.
SetJob ==
    /\ call = "setjob"
    /\ \E late \in {TRUE, m_readable} :
          job' = [made EXCEPT !.read = @ /\ late]
    /\ call' = AfterPiece(todo)
    /\ made' = NoJob
    /\ UNCHANGED <<roleVars, flagVars, bufVars, tlsVars,
                   pieceVars, events, netVars>>

\* TCPSocket::flush returns.
Flush ==
    /\ call = "flush"
    /\ m_flushed
    /\ call' = "idle"
    /\ UNCHANGED <<roleVars, flagVars, bufVars, tlsVars,
                   job, pieceVars, made, events, netVars>>

\* TCPSocket::read of n bytes, under m_mutex.  The caller says where the main
\* thread goes, and what else it sends.
Read(n, sends) ==
    LET rest == SubSeq(m_inputBuffer, n + 1, Len(m_inputBuffer))
        ends == n > 0 /\ rest = <<>> /\ ~m_readable /\ ~m_writable
    IN  /\ m_inputBuffer' = rest
        /\ m_connected' = (m_connected /\ ~ends)
        /\ events' = events \o (IF ends THEN <<"disconnected">> ELSE <<>>) \o sends
        /\ UNCHANGED <<roleVars, m_readable, m_writable, m_flushed,
                       m_outputBuffer, tlsVars, job, pieceVars, made, netVars>>

\* The server closes (SecureSocket::close, TCPSocket::close), a client deletes
\* (~SecureSocket, ~TCPSocket).  Those of SecureSocket begin by setting m_fatal.
BeginClose ==
    /\ m_fatal' = secure
    /\ call' = IF accepted THEN "free" ELSE "destroy"
    /\ UNCHANGED <<roleVars, flagVars, bufVars, m_secureReady, writeRetry, job,
                   pieceVars, made, netVars>>

\* SecureSocket::close calls freeSSLResources; TCPSocket::close has none.
FreeSSLResources ==
    /\ call = "free"
    /\ call' = "unjob"
    /\ UNCHANGED <<roleVars, flagVars, bufVars, tlsVars, job, pieceVars, made,
                   events, netVars>>

\* TCPSocket::close, or ~SecureSocket, takes the socket from the multiplexer.
RemoveJob ==
    /\ call \in {"unjob", "destroy"}
    /\ job' = NoJob
    /\ call' = "shut"
    /\ UNCHANGED <<roleVars, flagVars, bufVars, tlsVars,
                   pieceVars, made, events, netVars>>

\* The rest of TCPSocket::close, under m_mutex.
Close ==
    /\ call = "shut"
    /\ events' = IF m_connected THEN Append(events, "disconnected") ELSE events
    /\ OnDisconnected
    /\ call' = "closed"
    /\ UNCHANGED <<roleVars, tlsVars, job, pieceVars, made, netVars>>

-----------------------------------------------------------------------------
(* The service thread *)

\* serviceConnecting: SO_ERROR is looked at first, whatever poll said.
ServiceConnecting ==
    /\ job.kind = "connecting"
    /\ \/ /\ link = "reset"
          /\ events' = Append(events, "connectionFailed")
          /\ OnDisconnected
       \/ /\ link \in {"open", "eof"}
          /\ events' = Append(events, "connected")
          /\ m_connected' = TRUE
          /\ m_readable' = TRUE
          /\ m_writable' = TRUE
          /\ UNCHANGED <<m_flushed, m_inputBuffer, m_outputBuffer>>
    /\ job' = JobOf(m_connected', m_readable', m_writable', m_outputBuffer',
                    m_secureReady)
    /\ UNCHANGED <<roleVars, tlsVars, callVars, netVars>>

\* What SecureSocket::disconnect sends, for every failure of TLS.
TlsFailure == <<"stopRetry", "disconnected", "inputShutdown">>

\* SecureSocket::serviceConnect: the handshake succeeds, OpenSSL fails, or the
\* certificate is refused (m_secureReady is set before it is looked at).  A
\* retry leaves the job as it is.
ServiceHandshake ==
    /\ job.kind = "handshake"
    /\ \/ /\ link = "open"
          /\ m_secureReady' = TRUE
          /\ events' = Append(events, "secureConnected")
          /\ job' = JobOf(m_connected, m_readable, m_writable, m_outputBuffer, TRUE)
          /\ UNCHANGED m_fatal
       \/ /\ link = "open"
          /\ m_secureReady' = TRUE
          /\ events' = events \o TlsFailure
          /\ job' = NoJob
          /\ UNCHANGED m_fatal
       \/ /\ link # "none"
          /\ m_fatal' = TRUE
          /\ events' = events \o TlsFailure
          /\ job' = NoJob
          /\ UNCHANGED m_secureReady
    /\ UNCHANGED <<roleVars, flagVars, bufVars, writeRetry,
                   callVars, netVars>>

When(condition, outcomes) == IF condition THEN outcomes ELSE {}

\* Fault for FlushEnds: do_write_retry_size_ is not set.
Fault_WriteOutcomes(write) ==
    LET size == IF writeRetry # <<>> THEN 0 ELSE Len(m_outputBuffer)
        live == SslAlive /\ ~m_fatal
    IN  When(~write \/ size = 0, {<<"none", 0>>})
        \union
        When(write /\ ~secure,
             When(link # "reset", {<<"some", n>> : n \in 1..size})
             \union When(link \in {"eof", "reset"}, {<<"shutdown", 0>>})
             \union When(link = "reset", {<<"disconnected", 0>>, <<"error", 0>>}))
        \union
        When(write /\ secure /\ size > 0,
             When(live \/ ~SslAlive, {<<"retry", 0>>})
             \union When(live /\ link # "reset", {<<"some", size>>})
             \union When(SslAlive /\ (m_fatal \/ link # "open"), {<<"fatal", 0>>}))

\* What doWrite may come to: nothing, n bytes, a TLS retry, or one of the
\* errors, as the link and TLS allow.  With the SSL session freed, secureWrite
\* answers "retry".
WriteOutcomes(write) ==
    LET size == Len(IF writeRetry # <<>> THEN writeRetry ELSE m_outputBuffer)
        live == SslAlive /\ ~m_fatal
    IN  When(~write \/ size = 0, {<<"none", 0>>})
        \union
        When(write /\ ~secure,
             When(link # "reset", {<<"some", n>> : n \in 1..size})
             \union When(link \in {"eof", "reset"}, {<<"shutdown", 0>>})
             \union When(link = "reset", {<<"disconnected", 0>>, <<"error", 0>>}))
        \union
        When(write /\ secure /\ size > 0,
             When(live \/ ~SslAlive, {<<"retry", 0>>})
             \union When(live /\ link # "reset", {<<"some", size>>})
             \union When(SslAlive /\ (m_fatal \/ link # "open"), {<<"fatal", 0>>}))

\* How much one doRead may slurp: all there is, or past the limit.
Slurp ==
    {k \in 1..Len(inNet) : k = Len(inNet)
                            \/ Len(m_inputBuffer) + k > MaxInputBuffer}

\* The same for doRead, after a write with outcome w.  "last": TLS fails in
\* the middle of the slurp, after k bytes.
ReadOutcomes(read, w) ==
    LET reads  == read /\ m_readable /\ w \notin {"disconnected", "error"}
        all    == Len(inNet)
        fatal  == m_fatal \/ w = "fatal"
        closed == link # "open"
    IN  When(~reads, {<<"none", 0>>})
        \union
        When(reads /\ ~secure,
             {<<"data", k>> : k \in Slurp}
             \union When(all = 0 /\ link = "eof", {<<"eof", 0>>})
             \union When(link = "reset", {<<"disconnected", 0>>}))
        \union
        When(reads /\ secure /\ SslAlive,
             When(~fatal, {<<"data", k>> : k \in Slurp \ When(closed, {all})})
             \union When(~fatal /\ closed /\ all > 0, {<<"last", all>>})
             \union When(fatal \/ (closed /\ all = 0), {<<"fatal", 0>>}))
        \union
        When(reads /\ secure /\ ~SslAlive, {<<"retry", 0>>})

\* The events of a write and of a read; over: the connection ends with them.
WriteEvents(w, over) ==
    CASE w = "shutdown" -> <<"outputShutdown">> \o over
      [] w = "disconnected" -> <<"disconnected">>
      [] w = "error" -> <<"outputError", "disconnected">>
      [] w = "fatal" -> TlsFailure
      [] OTHER -> <<>>

\* Fault for EndNoticed: an end of input that is not the end of the connection
\* is not told.
Fault_ReadEvents(r, over) ==
    CASE r = "data" /\ m_inputBuffer = <<>> -> <<"inputReady">>
      [] r = "eof" -> over
      [] r = "disconnected" -> <<"disconnected">>
      [] r \in {"fatal", "last"} -> TlsFailure
      [] OTHER -> <<>>

ReadEvents(r, over) ==
    CASE r = "data" /\ m_inputBuffer = <<>> -> <<"inputReady">>
      [] r = "eof" -> <<"inputShutdown">> \o over
      [] r = "disconnected" -> <<"disconnected">>
      [] r \in {"fatal", "last"} -> TlsFailure
      [] OTHER -> <<>>

\* Fault for PipeSpec: do_write_retry_ is not reset when the retry succeeds.
Fault_RetryAfter(w, sent) == IF w = "retry" THEN sent ELSE writeRetry

\* SecureSocket::doWrite keeps the bytes OpenSSL wants to see again.
RetryAfter(w, sent) ==
    IF w = "retry" THEN sent ELSE IF w = "some" THEN <<>> ELSE writeRetry

Over(ends) == IF ends THEN <<"disconnected">> ELSE <<>>

\* doWrite, doRead and serviceConnected on its way through them, without an
\* error from poll.  (A read error that is no disconnect changes nothing.)
DoWriteDoRead(w, n, r, k) ==
    LET gone   == w \in {"disconnected", "error"} \/ r = "disconnected"
        sent   == IF writeRetry # <<>> THEN writeRetry ELSE m_outputBuffer
        output == SubSeq(m_outputBuffer, n + 1, Len(m_outputBuffer))
        hungUp == w = "shutdown" /\ ~m_readable /\ m_inputBuffer = <<>>
        endsIn == r = "eof" /\ m_inputBuffer = <<>> /\ (~m_writable \/ w = "shutdown")
        breaks == w = "fatal" \/ r \in {"fatal", "last"}
        renews == w # "none" \/ r \in {"eof", "disconnected", "retry"}
    IN  /\ m_connected' = (m_connected /\ ~gone /\ ~hungUp /\ ~endsIn)
        /\ m_readable' = (m_readable /\ ~gone /\ r # "eof")
        /\ m_writable' = (m_writable /\ ~gone /\ w # "shutdown")
        /\ m_outputBuffer' = IF gone \/ w = "shutdown" THEN <<>> ELSE output
        /\ m_flushed' = (m_flushed \/ gone \/ w = "shutdown"
                         \/ (n > 0 /\ output = <<>>))
        /\ m_inputBuffer' = IF gone THEN <<>>
                            ELSE m_inputBuffer \o SubSeq(inNet, 1, k)
        /\ m_fatal' = (m_fatal \/ breaks)
        /\ writeRetry' = RetryAfter(w, sent)
        /\ inNet' = SubSeq(inNet, k + 1, Len(inNet))
        /\ outNet' = outNet \o SubSeq(sent, 1, n)
        /\ events' = events \o WriteEvents(w, Over(hungUp))
                         \o ReadEvents(r, Over(endsIn))
        /\ job' = IF breaks THEN NoJob
                  ELSE IF renews
                  THEN JobOf(m_connected', m_readable', m_writable',
                             m_outputBuffer', m_secureReady)
                  ELSE job

\* serviceConnected.
ServiceConnected ==
    /\ job.kind = "connected"
    /\ \/ /\ link = "reset"
          /\ events' = Append(events, "disconnected")
          /\ OnDisconnected
          /\ job' = NoJob
          /\ UNCHANGED <<m_fatal, writeRetry, inNet, outNet>>
       \/ \E read \in {FALSE, job.read /\ (inNet # <<>> \/ link \in {"eof", "reset"})},
             write \in {FALSE, job.write} :
             \E wrote \in WriteOutcomes(write) :
                \E got \in ReadOutcomes(read, wrote[1]) :
                   DoWriteDoRead(wrote[1], wrote[2], got[1], got[2])
    /\ UNCHANGED <<roleVars, m_secureReady, callVars, link>>

ServiceJob == ServiceConnecting \/ ServiceHandshake \/ ServiceConnected
=============================================================================

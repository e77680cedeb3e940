---------------------------- MODULE PacketStream ----------------------------
(***************************************************************************)
(* Packets over a connection: lib/barrier/PacketStreamFilter.cpp (and the  *)
(* forwarding of lib/io/StreamFilter.cpp) on top of TCPSocket, with the    *)
(* peer at the far end and, at this end, an owner that handles events the  *)
(* way ClientProxy1_0 and Client do: it reads every packet it is told of,  *)
(* writes packets, flushes after the message that closes a client, and     *)
(* gives the connection up on the first event that ends it.                *)
(*                                                                         *)
(* The peer's bytes are records: a header byte carries the packet's size,  *)
(* a payload byte its number among all payload bytes.  The bytes written   *)
(* at this end are numbered from 1.                                        *)
(***************************************************************************)
EXTENDS TCPSocket

CONSTANTS
    HeaderLen,       \* bytes of a packet's length field (4 in the code)
    Sizes,           \* payload sizes the peer sends
    MaxMessage,      \* PROTOCOL_MAX_MESSAGE_LENGTH
    ReadChunk,       \* bytes readMore asks for at a time (4096 in the code)
    MaxBytes,        \* bound: bytes the peer sends
    MaxWrites        \* bound: packets the owner writes

ASSUME StreamAssumption ==
    /\ {HeaderLen, ReadChunk, MaxMessage, MaxBytes, MaxWrites} \subseteq Nat \ {0}
    /\ Sizes \subseteq Nat \ {0}

VARIABLES
    m_buffer, m_size, m_inputShutdown,
    wasReady,        \* readMore's local variable
    up,              \* the owner has been told of the connection
    delivered,       \* payload bytes the owner has read
    endTold,         \* the end of input, as often as the owner was told of it
    written,         \* packets the owner has written
    peer             \* the packet the peer is sending, and what it has sent

filterVars == <<m_buffer, m_size, m_inputShutdown, wasReady>>
ownerVars  == <<up, delivered, endTold, written>>
vars == <<socketVars, filterVars, ownerVars, peer>>

Byte == [kind : {"h", "p"}, val : Nat]

EventNames == {"connected", "secureConnected", "connectionFailed", "inputReady",
               "inputShutdown", "outputShutdown", "outputError", "inputFormatError",
               "disconnected", "stopRetry", "filterShutdown"}

TypeOK ==
    /\ {secure, accepted, m_connected, m_readable, m_writable, m_flushed,
        m_secureReady, m_fatal, thenFlush, m_inputShutdown, wasReady, up}
          \subseteq BOOLEAN
    /\ {m_inputBuffer, inNet, m_buffer, delivered} \subseteq Seq(Byte)
    /\ {m_outputBuffer, writeRetry, outNet} \subseteq Seq(Nat)
    /\ job \in Job /\ made \in Job
    /\ call \in Calls
    /\ todo \in Seq(Seq(Nat))
    /\ events \in Seq(EventNames)
    /\ link \in Links
    /\ {m_size, endTold, written} \subseteq Nat
    /\ peer \in [size : Nat, left : Nat, payload : Nat, whole : Nat, bytes : Nat]

\* An accepted connection (after the TLS handshake, if it has one) or a
\* client's socket that is about to connect.
Init ==
    /\ secure \in BOOLEAN
    /\ accepted \in BOOLEAN
    /\ m_connected = accepted /\ m_readable = accepted /\ m_writable = accepted
    /\ m_flushed = TRUE
    /\ m_inputBuffer = <<>> /\ m_outputBuffer = <<>>
    /\ m_secureReady = (secure /\ accepted)
    /\ m_fatal = FALSE
    /\ writeRetry = <<>>
    /\ job = IF accepted THEN [kind |-> "connected", read |-> TRUE, write |-> FALSE]
             ELSE NoJob
    /\ call = IF accepted THEN "idle" ELSE "connect"
    /\ todo = <<>> /\ thenFlush = FALSE /\ made = NoJob
    /\ events = <<>>
    /\ link = IF accepted THEN "open" ELSE "none"
    /\ inNet = <<>> /\ outNet = <<>>
    /\ m_buffer = <<>> /\ m_size = 0 /\ m_inputShutdown = FALSE /\ wasReady = FALSE
    /\ up = accepted
    /\ delivered = <<>> /\ endTold = 0 /\ written = 0
    /\ peer = [size |-> 0, left |-> 0, payload |-> 0, whole |-> 0,
              bytes |-> 0]

-----------------------------------------------------------------------------
(* The peer and the network *)

\* This end has not begun to close; what happens to the network after that is
\* of no consequence here, and is left out.
Attended == call \notin {"free", "unjob", "destroy", "shut", "closed"}

\* The connection is made, or it is not.
NetConnect ==
    /\ link = "none" /\ Attended
    /\ link' \in {"open", "reset"}
    /\ UNCHANGED <<roleVars, flagVars, bufVars, tlsVars, job, callVars, events,
                   inNet, outNet, filterVars, ownerVars, peer>>

\* The next byte of a packet arrives.  After the header of one that is too long
\* there is no more: it makes the filter give up the connection.
PeerSend ==
    /\ link = "open" /\ Attended
    /\ m_secureReady \/ ~secure
    /\ peer.bytes < MaxBytes
    /\ peer.size <= MaxMessage \/ peer.left > peer.size
    /\ \E size \in IF peer.left = 0 THEN Sizes ELSE {peer.size} :
          /\ peer' = [size    |-> size,
                      left    |-> IF peer.left = 0 THEN HeaderLen + size - 1
                                  ELSE peer.left - 1,
                      payload |-> IF peer.left \in 1..size THEN peer.payload + 1
                                  ELSE peer.payload,
                      whole   |-> IF peer.left = 1 THEN peer.payload + 1
                                  ELSE peer.whole,
                      bytes   |-> peer.bytes + 1]
          /\ inNet' = Append(inNet,
                IF peer'.payload > peer.payload
                THEN [kind |-> "p", val |-> peer'.payload]
                ELSE [kind |-> "h", val |-> size])
    /\ UNCHANGED <<roleVars, flagVars, bufVars, tlsVars, job, callVars, events,
                   link, outNet, filterVars, ownerVars>>

\* The peer closes its end, possibly in the middle of a packet, or is gone.
PeerLeaves ==
    /\ link = "open" /\ Attended
    /\ link' \in {"eof", "reset"}
    /\ UNCHANGED <<roleVars, flagVars, bufVars, tlsVars, job, callVars, events,
                   inNet, outNet, filterVars, ownerVars, peer>>

-----------------------------------------------------------------------------
(* The filter *)

\* isReadyNoLock.
IsReady(size, buffer) == size # 0 /\ Len(buffer) >= size

\* readPacketSize: the size and the rest of the buffer, or the same ones.
TakesSize(size, buffer) == size = 0 /\ Len(buffer) >= HeaderLen

SizeAfter(size, buffer) ==
    IF TakesSize(size, buffer) THEN buffer[1].val ELSE size

BufferAfter(size, buffer) ==
    IF TakesSize(size, buffer) THEN SubSeq(buffer, HeaderLen + 1, Len(buffer))
    ELSE buffer

FormatError(size, buffer) ==
    IF TakesSize(size, buffer) /\ SizeAfter(size, buffer) > MaxMessage
    THEN <<"inputFormatError">> ELSE <<>>

\* Fault for InputSignalled: readMore reads once.
Fault_ReadMore ==
    LET n      == IF Len(m_inputBuffer) < ReadChunk THEN Len(m_inputBuffer)
                  ELSE ReadChunk
        buffer == m_buffer \o SubSeq(m_inputBuffer, 1, n)
    IN  /\ call = "readmore"
        /\ Read(n, IF n > 0 THEN FormatError(m_size, buffer) ELSE <<>>)
        /\ m_size' = IF n > 0 THEN SizeAfter(m_size, buffer) ELSE m_size
        /\ m_buffer' = IF n > 0 THEN BufferAfter(m_size, buffer) ELSE m_buffer
        /\ call' = IF wasReady # IsReady(m_size', m_buffer') THEN "deliver"
                   ELSE "idle"
        /\ UNCHANGED <<m_inputShutdown, wasReady, ownerVars, peer>>

\* One turn of the loop of readMore.
ReadMore ==
    LET n      == IF Len(m_inputBuffer) < ReadChunk THEN Len(m_inputBuffer)
                  ELSE ReadChunk
        buffer == m_buffer \o SubSeq(m_inputBuffer, 1, n)
        error  == FormatError(m_size, buffer)
    IN  /\ call = "readmore"
        /\ Read(n, IF n > 0 THEN error ELSE <<>>)
        /\ m_size' = IF n > 0 THEN SizeAfter(m_size, buffer) ELSE m_size
        /\ m_buffer' = IF n > 0 THEN BufferAfter(m_size, buffer) ELSE m_buffer
        /\ call' = IF n > 0 /\ error = <<>> THEN "readmore"
                   ELSE IF wasReady # IsReady(m_size', m_buffer') THEN "deliver"
                   ELSE "idle"
        /\ UNCHANGED <<m_inputShutdown, wasReady, ownerVars, peer>>

\* PacketStreamFilter::read, of a packet that is there.
FilterRead(asked) ==
    LET n    == IF asked > m_size THEN m_size ELSE asked
        rest == SubSeq(m_buffer, n + 1, Len(m_buffer))
        left == m_size - n
    IN  /\ m_size' = SizeAfter(left, rest)
        /\ m_buffer' = BufferAfter(left, rest)
        /\ delivered' = delivered \o SubSeq(m_buffer, 1, n)
        /\ events' = events \o FormatError(left, rest)
                     \o (IF m_inputShutdown /\ m_size' = 0
                         THEN <<"filterShutdown">> ELSE <<>>)
        /\ UNCHANGED <<m_inputShutdown, wasReady>>

-----------------------------------------------------------------------------
(* The owner *)

\* The owner's handler of inputReady: it reads until there is nothing to read.
OwnerReads ==
    /\ call = "deliver"
    /\ \/ /\ IsReady(m_size, m_buffer)
          /\ \E n \in 1..MaxMessage : FilterRead(n)
          /\ UNCHANGED call
       \/ /\ ~IsReady(m_size, m_buffer)
          /\ call' = "idle"
          /\ UNCHANGED <<events, filterVars, delivered>>
    /\ UNCHANGED <<roleVars, flagVars, bufVars, tlsVars, job, pieceVars, made,
                   netVars, up, endTold, written, peer>>

\* PacketStreamFilter::write, and the flush of ClientProxy::close.
OwnerWrites ==
    /\ call = "idle" /\ up
    /\ written < MaxWrites
    /\ written' = written + 1
    /\ todo' = <<<<2 * written + 1>>, <<2 * written + 2>>>>
    /\ thenFlush' \in {FALSE, accepted}
    /\ call' = "write"
    /\ UNCHANGED <<roleVars, flagVars, bufVars, tlsVars, job, made, events,
                   netVars, filterVars, up, delivered, endTold, peer>>

\* PacketStreamFilter::close.
FilterClose ==
    /\ m_size' = 0
    /\ m_buffer' = <<>>
    /\ BeginClose
    /\ UNCHANGED <<m_inputShutdown, wasReady, up, delivered, written, peer>>

\* The owner closes on its own account, a time limit among its reasons.
OwnerCloses ==
    /\ call = "idle" /\ (~up \/ thenFlush)
    /\ FilterClose
    /\ UNCHANGED <<events, endTold>>

\* The events that make the owner close.
Ending == {"connectionFailed", "disconnected", "outputShutdown", "outputError",
           "inputFormatError", "filterShutdown"}

\* The owner is given an event, through filterEvent or (filterShutdown) not.
HandleEvent ==
    /\ call = "idle"
    /\ events # <<>>
    /\ events' = Tail(events)
    /\ LET e == Head(events)
       IN  \/ /\ e \in Ending \/ (e = "inputShutdown" /\ m_size = 0)
              /\ FilterClose
              /\ endTold' = IF e \in {"inputShutdown", "filterShutdown"}
                            THEN endTold + 1 ELSE endTold
           \/ /\ \/ /\ e = "inputReady"
                    /\ call' = "readmore"
                    /\ wasReady' = IsReady(m_size, m_buffer)
                    /\ UNCHANGED <<m_inputShutdown, made, up>>
                 \/ /\ e = "inputShutdown" /\ m_size # 0
                    /\ m_inputShutdown' = TRUE
                    /\ UNCHANGED <<call, wasReady, made, up>>
                 \/ /\ e = "connected" /\ secure
                    /\ made' = [kind |-> "handshake", read |-> m_readable,
                                write |-> m_writable]
                    /\ call' = "setjob"
                    /\ UNCHANGED <<m_inputShutdown, wasReady, up>>
                 \/ /\ e = "secureConnected" \/ (e = "connected" /\ ~secure)
                    /\ up' = TRUE
                    /\ UNCHANGED <<call, m_inputShutdown, wasReady, made>>
                 \/ /\ e = "stopRetry"
                    /\ UNCHANGED <<call, m_inputShutdown, wasReady, made, up>>
              /\ UNCHANGED <<roleVars, flagVars, bufVars, tlsVars, job, pieceVars,
                             netVars, m_buffer, m_size, delivered, endTold,
                             written, peer>>

-----------------------------------------------------------------------------
Main ==
    \/ /\ Connect \/ Write \/ MakeJob \/ SetJob \/ Flush
          \/ FreeSSLResources \/ RemoveJob \/ Close
       /\ UNCHANGED <<filterVars, ownerVars, peer>>
    \/ ReadMore
    \/ OwnerReads
    \/ HandleEvent

Service == ServiceJob /\ UNCHANGED <<filterVars, ownerVars, peer>>

Next ==
    \/ Main
    \/ Service
    \/ OwnerWrites
    \/ OwnerCloses
    \/ NetConnect
    \/ PeerSend
    \/ PeerLeaves

Spec == Init /\ [][Next]_vars /\ WF_vars(Main) /\ WF_vars(Service)

-----------------------------------------------------------------------------
(* Properties *)

Queued(names) == \E i \in DOMAIN events : events[i] \in names

\* Input is never left unattended.  While there are bytes in the socket's
\* input buffer, the reader is reading, an inputReady is on its way (doRead
\* sends one only when the buffer was empty), or an event that closes the
\* connection is; and a whole packet in the filter's buffer is being read.
InputSignalled ==
    Attended =>
        /\ m_inputBuffer # <<>> =>
              call = "readmore" \/ Queued(Ending \union {"inputReady"})
        /\ IsReady(m_size, m_buffer) =>
              call \in {"readmore", "deliver"} \/ Queued(Ending)

\* Whoever waits in flush waits for a job that is there: as long as TLS has not
\* failed, the service thread has been told to write, although the job may have
\* been made without the lock.
FlushServed ==
    call = "flush" /\ ~m_flushed /\ ~m_fatal =>
        m_outputBuffer # <<>> /\ m_writable /\ job.kind = "connected" /\ job.write

\* The TLS handshake, which makes a session when it has none, never runs after
\* freeSSLResources has freed the context it would be made of: a client takes
\* its socket from the multiplexer first, "otherwise the race condition could
\* cause events to get called on a dead object" (~SecureSocket).
HandshakeAlive == job.kind = "handshake" => SslAlive

\* The three together, for the flags and buffers that the two threads share.
StreamOK == TypeOK /\ FlushServed /\ HandshakeAlive

\* The number of a payload byte; a byte of a header has none.
Payload(byte) == IF byte.kind = "p" THEN byte.val ELSE 0

\* The bytes of the stream, as the two users of the stream see them.
Pipe == INSTANCE PacketPipe WITH
            sent   <- peer.payload,
            whole  <- peer.whole,
            read   <- [i \in DOMAIN delivered |-> Payload(delivered[i])],
            put    <- 2 * written,
            out    <- outNet,
            ended  <- endTold

\* PacketStreamFilter over a TCPSocket implements the pipe of packets, for any
\* way the bytes are cut up, and with both threads at work: the owner reads the
\* payload and never a byte of a header, and is told of the end once.
PipeSpec == Pipe!Spec

\* A flush comes to an end, or TLS has failed.  Every path of TCPSocket that
\* gives up the output sets m_flushed; the ones SecureSocket leaves with kBreak
\* do not.
FlushEnds == call = "flush" ~> (call # "flush" \/ m_fatal)

\* The loss of the connection is noticed: when the peer has left, the owner
\* closes, unless it waits in a flush after TLS failed, or the peer left in the
\* middle of a packet (filterEvent keeps the end to itself until the packet is
\* complete).
EndNoticed ==
    (up /\ link \in {"eof", "reset"}) ~>
        \/ call = "closed"
        \/ call = "flush" /\ m_fatal
        \/ m_inputShutdown /\ m_size # 0
=============================================================================

----------------------------- MODULE ClientStream -----------------------------
(***************************************************************************)
(* The bytes of one Client: the write buffer of Send and Flush, the read   *)
(* buffer of HandleSocket (src/src/Client.cpp), and WriteSocket of         *)
(* src/src/Platform_Linux.cpp.                                             *)
(*                                                                         *)
(* The bytes of a direction are numbered from 1, so that a buffer shows    *)
(* which bytes of the stream it holds; 0 is a byte never written.  The     *)
(* kernel takes as much of a write as it has room for, possibly nothing.   *)
(***************************************************************************)
EXTENDS Integers, Sequences

CONSTANTS
    BufferSize,     \* CONN_BUFF_SIZE, 0xFFFF in the code
    MaxSent,        \* bound: the bytes the program sends
    MaxReceived     \* bound: the bytes the peer sends

ASSUME StreamAssumption ==
    BufferSize \in Nat \ {0} /\ MaxSent \in Nat /\ MaxReceived \in Nat

VARIABLES
    mWriteBuffer, mWriteBufferPos,
    mReadBuffer, mReadBufferPos,
    handed,     \* how many bytes the program has handed to Send
    taken,      \* how many WriteSocket has reported as taken by the kernel
    arrived,    \* how many bytes have arrived from the peer
    received,   \* how many of them HandleSocket has read
    wire,       \* the bytes the kernel has taken, reported or not (history)
    consumed,   \* the bytes the program has taken from the read buffer (history)
    overlaid,   \* a read was put over bytes left in the read buffer, which has
                \* not been empty since (history)
    garbled,    \* the places in consumed of bytes taken while overlaid (history)
    link,       \* "up"; "ended" by the peer; "reset": its error is not yet
                \* reported; "broken": it is
    process     \* "running", or "killed" by a signal

writing == <<mWriteBuffer, mWriteBufferPos, handed, taken, wire>>
program == <<consumed, overlaid, garbled>>
reading == <<mReadBuffer, mReadBufferPos, received, program>>
vars == <<writing, reading, arrived, link, process>>

Buffers == [0 .. BufferSize - 1 -> Nat]

TypeOK ==
    /\ mWriteBuffer \in Buffers /\ mReadBuffer \in Buffers
    /\ mWriteBufferPos \in 0 .. BufferSize
    /\ mReadBufferPos \in 0 .. BufferSize
    /\ handed \in 0 .. MaxSent /\ taken \in 0 .. handed
    /\ arrived \in 0 .. MaxReceived /\ received \in 0 .. arrived
    /\ wire \in Seq(Nat) /\ consumed \in Seq(Nat)
    /\ overlaid \in BOOLEAN /\ garbled \subseteq 1 .. Len(consumed)
    /\ link \in {"up", "ended", "reset", "broken"}
    /\ process \in {"running", "killed"}

\* The constructor sets the positions and leaves the buffers as they are.
Init ==
    /\ mWriteBuffer = [i \in 0 .. BufferSize - 1 |-> 0]
    /\ mReadBuffer = [i \in 0 .. BufferSize - 1 |-> 0]
    /\ mWriteBufferPos = 0 /\ mReadBufferPos = 0
    /\ handed = 0 /\ taken = 0 /\ wire = << >>
    /\ arrived = 0 /\ received = 0 /\ consumed = << >>
    /\ overlaid = FALSE /\ garbled = {}
    /\ link = "up"
    /\ process = "running"

-----------------------------------------------------------------------------
(* Writing. *)

\* The first n bytes of a buffer.
First(buffer, n) == [i \in 1 .. n |-> buffer[i - 1]]

\* Mutant: when its tries run out, WriteSocket forgets what was taken before.
WriteSocket_ForgetsPart(buffer, length, sent) ==
    \/ /\ link \in {"up", "ended"} /\ sent \in {0, length}
       /\ \E n \in 0 .. length :
             (sent = length => n = length) /\ wire' = wire \o First(buffer, n)
       /\ UNCHANGED <<link, process>>
    \/ /\ link # "broken" /\ sent = -1
       /\ UNCHANGED wire
       /\ link' = "broken"
       /\ UNCHANGED process
    \/ /\ link = "broken" /\ sent = -1
       /\ process' = "killed"
       /\ UNCHANGED <<wire, link>>

\* WriteSocket's result for the first length > 0 bytes of the buffer, and what
\* becomes of the link and the process.  Tries that the kernel refuses run out
\* after four.  A reset, also one that arrives between two tries, is reported
\* once, and the bytes taken before it are not; a write after that raises
\* SIGPIPE, which no code of the repository ignores or handles.
WriteSocket(buffer, length, sent) ==
    \/ /\ link \in {"up", "ended"} /\ sent \in 0 .. length
       /\ wire' = wire \o First(buffer, sent)
       /\ UNCHANGED <<link, process>>
    \/ /\ link # "broken" /\ sent = -1
       /\ \E n \in 0 .. length - 1 :
             (link = "reset" => n = 0) /\ wire' = wire \o First(buffer, n)
       /\ link' = "broken"
       /\ UNCHANGED process
    \/ /\ link = "broken" /\ sent = -1
       /\ process' = "killed"
       /\ UNCHANGED <<wire, link>>

\* memmove(buffer, buffer + by, BufferSize - by): the tail keeps its bytes.
memmove(buffer, by) ==
    [i \in 0 .. BufferSize - 1 |->
        IF i + by < BufferSize THEN buffer[i + by] ELSE buffer[i]]

\* Mutant: only the bytes the kernel has taken are moved.
AdjustBuffer_MovesSent(buffer, pos, sent) ==
    IF sent <= 0 THEN mWriteBuffer' = buffer /\ mWriteBufferPos' = pos
    ELSE IF pos = sent THEN mWriteBuffer' = buffer /\ mWriteBufferPos' = 0
    ELSE /\ mWriteBuffer' = [i \in 0 .. BufferSize - 1 |->
                                IF i < sent /\ i + sent < BufferSize
                                THEN buffer[i + sent] ELSE buffer[i]]
         /\ mWriteBufferPos' = pos - sent

\* What is left in the write buffer, filled up to pos, after a write.
AdjustBuffer(buffer, pos, sent) ==
    IF sent <= 0 THEN mWriteBuffer' = buffer /\ mWriteBufferPos' = pos
    ELSE IF pos = sent THEN mWriteBuffer' = buffer /\ mWriteBufferPos' = 0
    ELSE /\ mWriteBuffer' = memmove(buffer, sent)
         /\ mWriteBufferPos' = pos - sent

Takes(sent) == taken' = IF sent > 0 THEN taken + sent ELSE taken

\* Send does not look at the room that is left.  The program keeps within it.
FitsWriteBuffer(length) == mWriteBufferPos + length <= BufferSize

Send(length) ==
    /\ process = "running"
    /\ FitsWriteBuffer(length) /\ handed + length <= MaxSent
    /\ handed' = handed + length
    /\ LET pos == mWriteBufferPos + length
           buffer == [i \in 0 .. BufferSize - 1 |->
                         IF i \in mWriteBufferPos .. pos - 1
                         THEN handed + 1 + (i - mWriteBufferPos)
                         ELSE mWriteBuffer[i]]
       IN  \E sent \in -1 .. pos :
              /\ WriteSocket(buffer, pos, sent)
              /\ AdjustBuffer(buffer, pos, sent)
              /\ Takes(sent)
    /\ UNCHANGED <<reading, arrived>>

\* Mutant: nothing is flushed.
Flush_DoesNothing == process = "running" /\ UNCHANGED vars

\* HandleEvents flushes every client before it polls.
Flush ==
    /\ process = "running" /\ mWriteBufferPos > 0
    /\ \E sent \in -1 .. mWriteBufferPos :
          /\ WriteSocket(mWriteBuffer, mWriteBufferPos, sent)
          /\ AdjustBuffer(mWriteBuffer, mWriteBufferPos, sent)
          /\ Takes(sent)
    /\ UNCHANGED <<reading, arrived, handed>>

-----------------------------------------------------------------------------
(* Reading. *)

\* read(2) puts n bytes at the start of the buffer, whatever it still holds.
ReadSocket(n) ==
    /\ n \in 1 .. BufferSize - mReadBufferPos /\ received + n <= arrived
    /\ mReadBuffer' = [i \in 0 .. BufferSize - 1 |->
                          IF i < n THEN received + 1 + i ELSE mReadBuffer[i]]
    /\ received' = received + n

\* Mutant: the position is set, not advanced.
HandleSocket_SetsPos(n) ==
    /\ process = "running"
    /\ ReadSocket(n)
    /\ mReadBufferPos' = n
    /\ overlaid' = (overlaid \/ mReadBufferPos > 0)
    /\ UNCHANGED <<writing, consumed, garbled, arrived, link, process>>

\* Mutant: one byte more is counted than was read.
HandleSocket_CountsOneMore(n) ==
    /\ process = "running"
    /\ ReadSocket(n)
    /\ mReadBufferPos' = mReadBufferPos + n + 1
    /\ overlaid' = (overlaid \/ mReadBufferPos > 0)
    /\ UNCHANGED <<writing, consumed, garbled, arrived, link, process>>

\* The length leaves room for the bytes left in the buffer, but the new ones go
\* over them, and the position advances past both.  A read that returns no
\* bytes, as one into a full buffer, changes nothing here, except that it
\* collects the error of a reset link.
HandleSocket(n) ==
    /\ process = "running"
    /\ ReadSocket(n)
    /\ mReadBufferPos' = mReadBufferPos + n
    /\ overlaid' = (overlaid \/ mReadBufferPos > 0)
    /\ UNCHANGED <<writing, consumed, garbled, arrived, link, process>>

HandleReset ==
    /\ process = "running" /\ link = "reset"
    /\ received = arrived /\ mReadBufferPos < BufferSize
    /\ link' = "broken"
    /\ UNCHANGED <<writing, reading, arrived, process>>

\* The first k bytes that getReadBuffer returns go to the program.
getReadBuffer(k) ==
    /\ consumed' = consumed \o First(mReadBuffer, k)
    /\ garbled' = IF overlaid
                  THEN garbled \cup (Len(consumed) + 1 .. Len(consumed) + k)
                  ELSE garbled

\* Mutant: the position is not set back.
Consume_KeepsPos(k) ==
    /\ process = "running" /\ k \in 1 .. mReadBufferPos
    /\ Len(consumed) <= MaxReceived
    /\ getReadBuffer(k)
    /\ overlaid' = (overlaid /\ k < mReadBufferPos)
    /\ UNCHANGED <<mReadBufferPos, writing, mReadBuffer, received, arrived, link, process>>

\* The program deals with k bytes, moves the rest to the start of the buffer and
\* calls setReadBufferPos with how many those are, often 0.
Consume(k) ==
    /\ process = "running" /\ k \in 1 .. mReadBufferPos
    /\ getReadBuffer(k)
    /\ mReadBuffer' = [i \in 0 .. BufferSize - 1 |->
                          IF i + k < mReadBufferPos THEN mReadBuffer[i + k]
                          ELSE mReadBuffer[i]]
    /\ mReadBufferPos' = mReadBufferPos - k
    /\ overlaid' = (overlaid /\ k < mReadBufferPos)
    /\ UNCHANGED <<writing, received, arrived, link, process>>

-----------------------------------------------------------------------------
(* The peer. *)

PeerSends ==
    /\ link = "up" /\ arrived < MaxReceived
    /\ arrived' = arrived + 1
    /\ UNCHANGED <<writing, reading, link, process>>

PeerEnds ==
    /\ link = "up"
    /\ link' = "ended"
    /\ UNCHANGED <<writing, reading, arrived, process>>

PeerResets ==
    /\ link \in {"up", "ended"}
    /\ link' = "reset"
    /\ UNCHANGED <<writing, reading, arrived, process>>

-----------------------------------------------------------------------------
Next ==
    \/ \E length \in 1 .. MaxSent : Send(length)
    \/ Flush
    \/ \E n \in 1 .. BufferSize : HandleSocket(n)
    \/ HandleReset
    \/ \E k \in 1 .. BufferSize : Consume(k)
    \/ PeerSends
    \/ PeerEnds
    \/ PeerResets

Spec == Init /\ [][Next]_vars

\* The event loop flushes again and again, and a peer that keeps the link up
\* reads, so that the kernel takes something of infinitely many writes.
FairSpec == Spec /\ SF_vars(Flush /\ taken' > taken)

-----------------------------------------------------------------------------
(* Safety. *)

\* The write buffer holds exactly the bytes not reported as taken by the kernel,
\* in the order they were sent, across partial writes in Send and in Flush: no
\* byte is lost, repeated or moved.
WriteBufferIsUnsentStream ==
    /\ mWriteBufferPos = handed - taken
    /\ \A i \in 0 .. mWriteBufferPos - 1 : mWriteBuffer[i] = taken + i + 1

\* mReadBufferPos is always the number of bytes that were read and not yet
\* taken, also when the program leaves bytes in the buffer across reads.  That
\* getReadBuffer returns these bytes, in the order of the stream, is true as
\* long as no read finds bytes left: Client.cpp:103 puts the new ones over them.
\* It is true again once the program has emptied the buffer.
ReadBufferIsUnreadStream ==
    /\ mReadBufferPos = received - Len(consumed)
    /\ ~overlaid =>
          \A i \in 0 .. mReadBufferPos - 1 : mReadBuffer[i] = Len(consumed) + i + 1

-----------------------------------------------------------------------------
(* Refinement: both directions are byte streams. *)

Out == INSTANCE ByteStream WITH put <- handed, got <- wire

\* consumed, with the bytes put right that were taken from an overlaid buffer.
ungarbled == [i \in DOMAIN consumed |-> IF i \in garbled THEN i ELSE consumed[i]]

In == INSTANCE ByteStream WITH put <- arrived, got <- ungarbled

\* What the kernel takes of all the writes is the stream handed to Send, in
\* order and without a byte twice: although a WriteSocket that fails does not
\* say what was taken before it did, and Send and Flush keep those bytes and
\* write them again.
SendsInOrder == Out!StreamSpec

\* What the program takes from the read buffer is the stream the peer sends,
\* but for the bytes it takes between a read over bytes left in the buffer
\* (Client.cpp:103) and the moment the buffer is empty: there it may get bytes
\* twice, not at all, or bytes nobody sent, but as many as were read, so that
\* everything after is in its place again.
ReadsInOrder == In!StreamSpec

-----------------------------------------------------------------------------
(* Liveness. *)

\* What was sent leaves the write buffer, though no further Send comes.
UnsentIsFlushed ==
    \A b \in 1 .. MaxSent :
        handed >= b ~> (taken >= b \/ link \in {"reset", "broken"})

-----------------------------------------------------------------------------
(* What the comments of the code say, and the code does not do. *)

\* A write to a broken connection returns -1 (Platform_Linux.cpp:228, "Socket
\* is broken!", in the case of EPIPE): it does not end the process.
NeverKilled == process # "killed"
==============================================================================

-------------------------- MODULE ClientStreamProofs --------------------------
(***************************************************************************)
(* Proofs about ClientStream, for every buffer size and any number of      *)
(* bytes: what is in the two buffers of a client is what has to be there.  *)
(* TypeOK with the invariants of the two buffers is inductive, however     *)
(* many bytes the program takes at a time: that a read over bytes left     *)
(* garbles the buffer is part of what is stated.  The two streams follow:  *)
(* what the kernel, and what the program, got so far is a prefix of what   *)
(* was put in (WireInv, ConsumedInv), and no step takes from it.           *)
(***************************************************************************)
EXTENDS ClientStream, SequenceTheorems, TLAPS

\* The two parts of a sum of natural numbers.
LEMMA Remainder ==
    ASSUME NEW rest \in Nat, NEW part \in Nat, NEW whole, rest + part = whole
    PROVE  whole \in Nat /\ rest = whole - part /\ part \in 0 .. whole
  OBVIOUS

\* What memmove leaves at the start of the write buffer: the bytes that were
\* `by` places further on (Client.cpp:141 and 170).
LEMMA MemmoveShifts ==
    ASSUME NEW buffer \in Buffers, NEW by \in Nat
    PROVE  /\ memmove(buffer, by) \in Buffers
           /\ \A i \in 0 .. BufferSize - 1 :
                 i + by < BufferSize => memmove(buffer, by)[i] = buffer[i + by]
  BY StreamAssumption DEF Buffers, memmove

\* A write buffer that holds the unsent bytes up to pos still does so after a
\* write of which the kernel took any part, or of which nothing is known.
LEMMA AdjustKeepsStream ==
    ASSUME TypeOK,
           NEW buffer \in Buffers, NEW pos \in 0 .. BufferSize,
           NEW sent \in -1 .. pos,
           \A i \in 0 .. pos - 1 : buffer[i] = taken + i + 1,
           AdjustBuffer(buffer, pos, sent), Takes(sent)
    PROVE  /\ mWriteBuffer' \in Buffers
           /\ mWriteBufferPos' \in 0 .. BufferSize
           /\ mWriteBufferPos' + taken' = pos + taken
           /\ taken' \in Nat
           /\ \A i \in 0 .. mWriteBufferPos' - 1 : mWriteBuffer'[i] = taken' + i + 1
  <1>1. taken \in Nat
    BY StreamAssumption DEF TypeOK
  <1>2. BufferSize \in Nat
    BY StreamAssumption
  <1>3. CASE sent <= 0
    BY <1>1, <1>2, <1>3 DEF AdjustBuffer, Takes
  <1>4. CASE sent > 0 /\ pos = sent
    BY <1>1, <1>2, <1>4 DEF AdjustBuffer, Takes
  <1>5. CASE sent > 0 /\ pos # sent
    <2>1. sent \in Nat /\ pos \in Nat /\ sent < pos
      BY <1>2, <1>5
    <2>2. /\ mWriteBuffer' = memmove(buffer, sent)
          /\ mWriteBufferPos' = pos - sent
          /\ taken' = taken + sent
      BY <1>5, <2>1 DEF AdjustBuffer, Takes
    <2>3. mWriteBuffer' \in Buffers
      BY <2>1, <2>2, MemmoveShifts
    <2>4. ASSUME NEW i \in 0 .. mWriteBufferPos' - 1
          PROVE  mWriteBuffer'[i] = taken' + i + 1
      <3>1. i \in 0 .. BufferSize - 1 /\ i + sent < BufferSize /\ i + sent \in 0 .. pos - 1
        BY <1>2, <2>1, <2>2
      <3>2. mWriteBuffer'[i] = buffer[i + sent]
        BY <2>1, <2>2, <3>1, MemmoveShifts
      <3>3. buffer[i + sent] = taken + (i + sent) + 1
        BY <3>1
      <3> QED
        BY <1>1, <2>1, <2>2, <3>1, <3>2, <3>3
    <2> QED
      BY <1>1, <1>2, <2>1, <2>2, <2>3, <2>4
  <1> QED
    BY <1>2, <1>3, <1>4, <1>5

IInv == TypeOK /\ WriteBufferIsUnsentStream /\ ReadBufferIsUnreadStream

\* The constructor leaves both buffers empty.
LEMMA InvInit == Init => IInv
<1> SUFFICES ASSUME Init PROVE IInv
  OBVIOUS
<1>1. /\ wire \in Seq(Nat) /\ consumed \in Seq(Nat)
      /\ Len(wire) = 0 /\ Len(consumed) = 0
  BY EmptySeq DEF Init
<1>2. TypeOK
  BY <1>1, StreamAssumption DEF Init, TypeOK, Buffers
<1>3. /\ mWriteBufferPos = 0 /\ handed = 0 /\ taken = 0
      /\ mReadBufferPos = 0 /\ received = 0
  BY DEF Init
<1>4. WriteBufferIsUnsentStream /\ ReadBufferIsUnreadStream
  BY <1>1, <1>3 DEF WriteBufferIsUnsentStream, ReadBufferIsUnreadStream
<1> QED
  BY <1>2, <1>4 DEF IInv

\* What goes out of a buffer is appended to what went before.
LEMMA Appended ==
    ASSUME NEW seq \in Seq(Nat), NEW buffer \in Buffers, NEW n \in 0 .. BufferSize
    PROVE  /\ Len(seq) \in Nat
           /\ seq \o First(buffer, n) \in Seq(Nat)
           /\ Len(seq \o First(buffer, n)) = Len(seq) + n
           /\ \A i \in 1 .. Len(seq) + n :
                 (seq \o First(buffer, n))[i]
                    = IF i <= Len(seq) THEN seq[i] ELSE buffer[i - Len(seq) - 1]
  <1>1. BufferSize \in Nat /\ n \in Nat
    BY StreamAssumption
  <1>2. First(buffer, n) \in [1 .. n -> Nat]
    BY <1>1 DEF First, Buffers
  <1>3. First(buffer, n) \in Seq(Nat) /\ Len(First(buffer, n)) = n
    BY <1>1, <1>2
  <1>4. Len(seq) \in Nat
    BY LenProperties
  <1>5. /\ seq \o First(buffer, n) \in Seq(Nat)
        /\ Len(seq \o First(buffer, n)) = Len(seq) + n
        /\ \A i \in 1 .. Len(seq) + n :
              (seq \o First(buffer, n))[i]
                 = IF i <= Len(seq) THEN seq[i] ELSE First(buffer, n)[i - Len(seq)]
    BY <1>3, ConcatProperties
  <1>6. \A i \in 1 .. Len(seq) + n :
           i > Len(seq) => First(buffer, n)[i - Len(seq)] = buffer[i - Len(seq) - 1]
    BY <1>1, <1>4 DEF First
  <1> QED
    BY <1>1, <1>4, <1>5, <1>6

\* The first m bytes of a stream and the next n of them are its first m + n.
LEMMA StreamGoesOn ==
    ASSUME NEW seq \in Seq(Nat), NEW buffer \in Buffers, NEW n \in 0 .. BufferSize,
           seq = Out!FirstBytes(Len(seq)),
           \A i \in 0 .. n - 1 : buffer[i] = Len(seq) + i + 1
    PROVE  /\ seq \o First(buffer, n) = Out!FirstBytes(Len(seq) + n)
           /\ Len(seq \o First(buffer, n)) = Len(seq) + n
           /\ Len(seq) + n \in Nat
  <1> DEFINE l == Len(seq)
             all == seq \o First(buffer, n)
  <1>1. /\ l \in Nat /\ n \in Nat /\ l + n \in Nat
        /\ all \in Seq(Nat) /\ Len(all) = l + n
        /\ \A i \in 1 .. l + n :
              all[i] = IF i <= l THEN seq[i] ELSE buffer[i - l - 1]
    <2>1. n \in Nat
      BY StreamAssumption
    <2> QED
      BY <2>1, Appended
  <1>2. \A i \in 1 .. l : seq[i] = i
    <2> HIDE DEF l
    <2>1. seq = [i \in 1 .. l |-> i]
      BY DEF Out!FirstBytes, l
    <2> QED
      BY <2>1
  <1>3. \A i \in 1 .. l + n : i > l => buffer[i - l - 1] = i
    <2> HIDE DEF all
    <2> SUFFICES ASSUME NEW i \in 1 .. l + n, i > l PROVE buffer[i - l - 1] = i
      OBVIOUS
    <2>1. i - l - 1 \in 0 .. n - 1
      BY <1>1
    <2>2. buffer[i - l - 1] = l + (i - l - 1) + 1
      BY <2>1
    <2> QED
      BY <1>1, <2>2
  <1> HIDE DEF all, l
  <1>4. DOMAIN all = 1 .. l + n /\ all = [i \in 1 .. l + n |-> all[i]]
    BY <1>1, LenProperties
  <1>5. ASSUME NEW i \in 1 .. l + n PROVE all[i] = i
    <2>1. CASE i <= l
      <3>1. i \in 1 .. l
        BY <1>1, <2>1
      <3> QED
        BY <1>1, <1>2, <2>1, <3>1
    <2>2. CASE i > l
      <3>1. ~(i <= l)
        BY <1>1, <2>2
      <3> QED
        BY <1>1, <1>3, <2>2, <3>1
    <2> QED
      BY <1>1, <2>1, <2>2
  <1>6. all = [i \in 1 .. l + n |-> i]
    BY <1>4, <1>5
  <1> QED
    BY <1>1, <1>6 DEF Out!FirstBytes, all, l

\* WriteSocket appends bytes of the buffer to those the kernel has taken.
LEMMA WireGrows ==
    ASSUME TypeOK, NEW buffer \in Buffers, NEW pos \in 0 .. BufferSize,
           NEW sent \in -1 .. pos, WriteSocket(buffer, pos, sent)
    PROVE  /\ wire' \in Seq(Nat)
           /\ link' \in {"up", "ended", "reset", "broken"}
           /\ process' \in {"running", "killed"}
  <1>1. \A n \in 0 .. pos : wire \o First(buffer, n) \in Seq(Nat)
    <2>1. \A n \in 0 .. pos : n \in 0 .. BufferSize
      BY StreamAssumption
    <2> QED
      BY <2>1, Appended DEF TypeOK
  <1>2. \A n \in 0 .. pos - 1 : n \in 0 .. pos
    BY StreamAssumption
  <1> QED
    BY <1>1, <1>2 DEF WriteSocket, TypeOK

\* Send appends to the buffer before it writes.
LEMMA SendKeepsInv ==
    ASSUME IInv, NEW length \in 1 .. MaxSent, Send(length)
    PROVE  IInv'
  <1> DEFINE pos == mWriteBufferPos + length
             buffer == [i \in 0 .. BufferSize - 1 |->
                           IF i \in mWriteBufferPos .. pos - 1
                           THEN handed + 1 + (i - mWriteBufferPos)
                           ELSE mWriteBuffer[i]]
  <1>1. /\ BufferSize \in Nat /\ MaxSent \in Nat /\ length \in Nat
        /\ handed \in Nat /\ taken \in Nat /\ taken <= handed
        /\ mWriteBufferPos \in Nat /\ mWriteBuffer \in Buffers
        /\ mWriteBufferPos = handed - taken
        /\ \A i \in 0 .. mWriteBufferPos - 1 : mWriteBuffer[i] = taken + i + 1
    BY StreamAssumption DEF IInv, TypeOK, WriteBufferIsUnsentStream
  <1>2. pos \in 0 .. BufferSize /\ handed' = handed + length /\ handed' <= MaxSent
    BY <1>1 DEF Send, FitsWriteBuffer
  <1>3. PICK sent \in -1 .. pos :
           /\ WriteSocket(buffer, pos, sent)
           /\ AdjustBuffer(buffer, pos, sent)
           /\ Takes(sent)
    BY DEF Send
  <1>4. buffer \in Buffers
    BY <1>1 DEF Buffers
  <1>5. \A i \in 0 .. pos - 1 : buffer[i] = taken + i + 1
    BY <1>1, <1>2
  <1> HIDE DEF pos, buffer
  <1>6. /\ mWriteBuffer' \in Buffers
        /\ mWriteBufferPos' \in 0 .. BufferSize
        /\ mWriteBufferPos' + taken' = pos + taken
        /\ taken' \in Nat
        /\ \A i \in 0 .. mWriteBufferPos' - 1 : mWriteBuffer'[i] = taken' + i + 1
    BY <1>2, <1>3, <1>4, <1>5, AdjustKeepsStream DEF IInv
  <1>7. pos + taken = handed' /\ handed' \in 0 .. MaxSent
    BY <1>1, <1>2 DEF pos
  <1>8. mWriteBufferPos' = handed' - taken' /\ taken' \in 0 .. handed'
    <2>1. mWriteBufferPos' \in Nat /\ taken' \in Nat
      BY <1>1, <1>6
    <2>2. mWriteBufferPos' + taken' = handed'
      BY <1>6, <1>7
    <2> QED
      BY <2>1, <2>2, Remainder
  <1>9. /\ link' \in {"up", "ended", "reset", "broken"}
        /\ process' \in {"running", "killed"}
        /\ wire' \in Seq(Nat)
    BY <1>2, <1>3, <1>4, WireGrows DEF IInv
  <1>10. UNCHANGED <<reading, arrived>>
    BY DEF Send
  <1>11. TypeOK'
    BY <1>6, <1>7, <1>8, <1>9, <1>10 DEF IInv, TypeOK, reading, program
  <1>12. WriteBufferIsUnsentStream'
    BY <1>6, <1>8 DEF WriteBufferIsUnsentStream
  <1> QED
    BY <1>10, <1>11, <1>12 DEF IInv, ReadBufferIsUnreadStream, reading, program

\* Flush writes what the buffer holds.
LEMMA FlushKeepsInv ==
    ASSUME IInv, Flush
    PROVE  IInv'
  <1>1. /\ BufferSize \in Nat
        /\ handed \in Nat /\ taken \in Nat /\ taken <= handed
        /\ mWriteBufferPos \in 0 .. BufferSize /\ mWriteBuffer \in Buffers
        /\ mWriteBufferPos = handed - taken
        /\ \A i \in 0 .. mWriteBufferPos - 1 : mWriteBuffer[i] = taken + i + 1
    BY StreamAssumption DEF IInv, TypeOK, WriteBufferIsUnsentStream
  <1>2. PICK sent \in -1 .. mWriteBufferPos :
           /\ WriteSocket(mWriteBuffer, mWriteBufferPos, sent)
           /\ AdjustBuffer(mWriteBuffer, mWriteBufferPos, sent)
           /\ Takes(sent)
    BY DEF Flush
  <1>3. UNCHANGED <<reading, arrived, handed>>
    BY DEF Flush
  <1>4. /\ mWriteBuffer' \in Buffers
        /\ mWriteBufferPos' \in 0 .. BufferSize
        /\ mWriteBufferPos' + taken' = mWriteBufferPos + taken
        /\ taken' \in Nat
        /\ \A i \in 0 .. mWriteBufferPos' - 1 : mWriteBuffer'[i] = taken' + i + 1
    BY <1>1, <1>2, AdjustKeepsStream DEF IInv
  <1>5. /\ link' \in {"up", "ended", "reset", "broken"}
        /\ process' \in {"running", "killed"}
        /\ wire' \in Seq(Nat)
    BY <1>1, <1>2, WireGrows DEF IInv
  <1>6. mWriteBufferPos' = handed' - taken' /\ taken' \in 0 .. handed'
    <2>1. mWriteBufferPos' \in Nat /\ taken' \in Nat
      BY <1>1, <1>4
    <2>2. mWriteBufferPos + taken = handed
      BY <1>1
    <2>3. mWriteBufferPos' + taken' = handed'
      BY <1>3, <1>4, <2>2
    <2> QED
      BY <2>1, <2>3, Remainder
  <1>7. TypeOK'
    BY <1>3, <1>4, <1>5, <1>6 DEF IInv, TypeOK, reading, program
  <1>8. WriteBufferIsUnsentStream'
    BY <1>4, <1>6 DEF WriteBufferIsUnsentStream
  <1> QED
    BY <1>3, <1>7, <1>8 DEF IInv, ReadBufferIsUnreadStream, reading, program

\* HandleSocket counts no more bytes than the buffer has room for; what it puts
\* there is the unread stream if the buffer was empty.
LEMMA HandleSocketKeepsInv ==
    ASSUME IInv, NEW n \in 1 .. BufferSize, HandleSocket(n)
    PROVE  IInv'
  <1>1. /\ BufferSize \in Nat /\ n \in Nat /\ n >= 1
        /\ received \in Nat /\ arrived \in Nat /\ received + n <= arrived
        /\ Len(consumed) \in Nat /\ mReadBufferPos = received - Len(consumed)
        /\ mReadBufferPos \in Nat /\ n <= BufferSize - mReadBufferPos
    BY StreamAssumption, LenProperties
       DEF IInv, TypeOK, ReadBufferIsUnreadStream, HandleSocket, ReadSocket
  <1>2. /\ mReadBuffer' = [i \in 0 .. BufferSize - 1 |->
                              IF i < n THEN received + 1 + i ELSE mReadBuffer[i]]
        /\ received' = received + n
        /\ mReadBufferPos' = mReadBufferPos + n
        /\ overlaid' = (overlaid \/ mReadBufferPos > 0)
        /\ UNCHANGED <<writing, consumed, garbled, arrived, link, process>>
    BY DEF HandleSocket, ReadSocket
  <1>3. mReadBuffer' \in Buffers /\ overlaid' \in BOOLEAN
    BY <1>1, <1>2 DEF IInv, TypeOK, Buffers
  <1>4. TypeOK'
    BY <1>1, <1>2, <1>3 DEF IInv, TypeOK, writing
  <1>5. WriteBufferIsUnsentStream'
    BY <1>2 DEF IInv, WriteBufferIsUnsentStream, writing
  <1>6. mReadBufferPos' = received' - Len(consumed')
    BY <1>1, <1>2
  <1>7. ASSUME ~overlaid', NEW i \in 0 .. mReadBufferPos' - 1
        PROVE  mReadBuffer'[i] = Len(consumed') + i + 1
    <2>0. ~(mReadBufferPos > 0)
      BY <1>2, <1>7
    <2>1. mReadBufferPos = 0 /\ Len(consumed') = received
      BY <1>1, <1>2, <2>0
    <2>2. i \in 0 .. BufferSize - 1 /\ i < n
      BY <1>1, <1>2, <2>1
    <2> QED
      BY <1>1, <1>2, <2>1, <2>2
  <1> QED
    BY <1>4, <1>5, <1>6, <1>7 DEF IInv, ReadBufferIsUnreadStream

\* Consume takes the first of the bytes that the read buffer counts.
LEMMA ConsumeKeepsInv ==
    ASSUME IInv, NEW k \in 1 .. BufferSize, Consume(k)
    PROVE  IInv'
  <1>1. /\ mReadBuffer \in Buffers /\ mReadBufferPos \in 0 .. BufferSize
        /\ consumed \in Seq(Nat) /\ received \in Nat
        /\ mReadBufferPos = received - Len(consumed)
        /\ k \in 1 .. mReadBufferPos /\ k \in 0 .. BufferSize
        /\ BufferSize \in Nat /\ k \in Nat
    BY StreamAssumption DEF IInv, TypeOK, ReadBufferIsUnreadStream, Consume
  <1>2. /\ consumed' \in Seq(Nat) /\ Len(consumed) \in Nat
        /\ Len(consumed') = Len(consumed) + k
    BY <1>1, Appended DEF Consume, getReadBuffer
  <1>3. /\ mReadBuffer' = [i \in 0 .. BufferSize - 1 |->
                              IF i + k < mReadBufferPos THEN mReadBuffer[i + k]
                              ELSE mReadBuffer[i]]
        /\ mReadBufferPos' = mReadBufferPos - k
        /\ overlaid' = (overlaid /\ k < mReadBufferPos)
        /\ UNCHANGED <<writing, received, arrived, link, process>>
    BY DEF Consume
  <1>4. mReadBuffer' \in Buffers
    <2>1. \A i \in 0 .. BufferSize - 1 :
             mReadBuffer[i] \in Nat
             /\ (i + k < mReadBufferPos => mReadBuffer[i + k] \in Nat)
      BY <1>1 DEF Buffers
    <2> QED
      BY <1>3, <2>1 DEF Buffers
  <1>5. garbled' \subseteq 1 .. Len(consumed')
    <2>1. garbled \subseteq 1 .. Len(consumed)
      BY DEF IInv, TypeOK
    <2>2. garbled' \subseteq garbled \cup (Len(consumed) + 1 .. Len(consumed) + k)
      BY DEF Consume, getReadBuffer
    <2> QED
      BY <1>1, <1>2, <2>1, <2>2
  <1>6. TypeOK'
    <2>1. mReadBufferPos' \in 0 .. BufferSize /\ overlaid' \in BOOLEAN
      BY <1>1, <1>3
    <2> QED
      BY <1>2, <1>3, <1>4, <1>5, <2>1 DEF IInv, TypeOK, writing
  <1>7. WriteBufferIsUnsentStream'
    BY <1>3 DEF IInv, WriteBufferIsUnsentStream, writing
  <1>8. mReadBufferPos' = received' - Len(consumed')
    BY <1>1, <1>2, <1>3
  <1>9. ASSUME ~overlaid', NEW i \in 0 .. mReadBufferPos' - 1
        PROVE  mReadBuffer'[i] = Len(consumed') + i + 1
    <2>1. i \in 0 .. BufferSize - 1 /\ i + k \in 0 .. mReadBufferPos - 1
          /\ i \in Nat /\ k < mReadBufferPos
      BY <1>1, <1>3
    <2>2. mReadBuffer'[i] = mReadBuffer[i + k]
      <3>1. i + k < mReadBufferPos
        BY <1>1, <2>1
      <3> QED BY <1>3, <2>1, <3>1
    <2>3. ~overlaid
      <3>1. k < mReadBufferPos /\ overlaid' = (overlaid /\ k < mReadBufferPos)
        BY <1>3, <2>1
      <3> QED BY <1>9, <3>1
    <2>4. mReadBuffer[i + k] = Len(consumed) + (i + k) + 1
      BY <2>1, <2>3 DEF IInv, ReadBufferIsUnreadStream
    <2> QED
      BY <1>1, <1>2, <2>1, <2>2, <2>4
  <1> QED
    BY <1>6, <1>7, <1>8, <1>9 DEF IInv, ReadBufferIsUnreadStream

\* Every step keeps the invariant.
LEMMA InvNext ==
    ASSUME IInv, [Next]_vars
    PROVE  IInv'
  <1>1. CASE \E length \in 1 .. MaxSent : Send(length)
    BY <1>1, SendKeepsInv
  <1>2. CASE Flush
    BY <1>2, FlushKeepsInv
  <1>3. CASE \E n \in 1 .. BufferSize : HandleSocket(n)
    BY <1>3, HandleSocketKeepsInv
  <1>4. CASE HandleReset \/ PeerEnds \/ PeerResets \/ UNCHANGED vars
    BY <1>4 DEF IInv, TypeOK, WriteBufferIsUnsentStream, ReadBufferIsUnreadStream,
       HandleReset, PeerEnds, PeerResets, vars, writing, reading, program
  <1>5. CASE \E k \in 1 .. BufferSize : Consume(k)
    BY <1>5, ConsumeKeepsInv
  <1>6. CASE PeerSends
    BY <1>6, StreamAssumption
       DEF IInv, TypeOK, WriteBufferIsUnsentStream, ReadBufferIsUnreadStream,
           PeerSends, writing, reading, program
  <1> QED
    BY <1>1, <1>2, <1>3, <1>4, <1>5, <1>6 DEF Next

\* The positions stay within the buffers and the counters within each other.
THEOREM TypeCorrect == Spec => []TypeOK
  <1>1. Init => IInv
    BY InvInit
  <1>2. IInv /\ [Next]_vars => IInv'
    BY InvNext
  <1>3. IInv => TypeOK
    BY DEF IInv
  <1> QED
    BY <1>1, <1>2, <1>3, PTL DEF Spec

\* The write buffer is the unsent part of the stream, whatever the kernel takes
\* of each write, for every buffer size (Client::Send and Client::Flush).
THEOREM WriteBufferIsCorrect == Spec => []WriteBufferIsUnsentStream
  <1>1. Init => IInv
    BY InvInit
  <1>2. IInv /\ [Next]_vars => IInv'
    BY InvNext
  <1>3. IInv => WriteBufferIsUnsentStream
    BY DEF IInv
  <1> QED
    BY <1>1, <1>2, <1>3, PTL DEF Spec

\* However many bytes the program takes at a time, and for every buffer size,
\* the read position counts the unread bytes, and the buffer is the unread part
\* of the stream but after a read over bytes that were left (Client::HandleSocket).
THEOREM ReadBufferIsCorrect == Spec => []ReadBufferIsUnreadStream
  <1>1. Init => IInv
    BY InvInit
  <1>2. IInv /\ [Next]_vars => IInv'
    BY InvNext
  <1>3. IInv => ReadBufferIsUnreadStream
    BY DEF IInv
  <1> QED
    BY <1>1, <1>2, <1>3, PTL DEF Spec

-----------------------------------------------------------------------------
(* Both directions are byte streams. *)

\* The kernel has taken the first bytes of the stream, and as many as were
\* reported unless the connection is broken.
WireInv ==
    /\ wire = Out!FirstBytes(Len(wire))
    /\ Len(wire) \in taken .. handed
    /\ link # "broken" => Len(wire) = taken

\* A write of the unsent bytes adds to what the kernel has taken the bytes that
\* follow, and none after the connection has failed.
LEMMA WriteKeepsOrder ==
    ASSUME IInv, WireInv, NEW buffer \in Buffers, NEW pos \in 0 .. BufferSize,
           NEW sent \in -1 .. pos,
           \A i \in 0 .. pos - 1 : buffer[i] = taken + i + 1,
           handed' \in Nat, handed' >= handed, taken + pos = handed',
           WriteSocket(buffer, pos, sent), Takes(sent), taken' \in 0 .. handed'
    PROVE  WireInv' /\ Out!Transfer
  <1> DEFINE l == Len(wire)
  <1>1. /\ wire \in Seq(Nat) /\ l \in Nat /\ taken \in Nat /\ handed \in Nat
        /\ BufferSize \in Nat /\ pos \in Nat /\ l <= handed /\ l >= taken
        /\ wire = Out!FirstBytes(l)
    <2>1. wire \in Seq(Nat) /\ taken \in Nat /\ handed \in Nat
      BY StreamAssumption DEF IInv, TypeOK
    <2> QED
      BY <2>1, StreamAssumption, LenProperties DEF WireInv
  <1>2. ASSUME NEW n \in 0 .. pos, l = taken
        PROVE  /\ wire \o First(buffer, n) = Out!FirstBytes(l + n)
               /\ Len(wire \o First(buffer, n)) = l + n
    <2>1. n \in 0 .. BufferSize /\ \A i \in 0 .. n - 1 : buffer[i] = l + i + 1
      BY <1>1, <1>2
    <2> QED
      BY <1>1, <2>1, StreamGoesOn
  <1> HIDE DEF l
  <1>3. CASE link \in {"up", "ended"} /\ sent \in 0 .. pos
             /\ wire' = wire \o First(buffer, sent) /\ UNCHANGED <<link, process>>
    <2>1. l = taken
      BY <1>3 DEF WireInv, l
    <2>2. wire' = Out!FirstBytes(l + sent) /\ Len(wire') = l + sent
      BY <1>2, <1>3, <2>1
    <2>3. l + sent \in l .. handed' /\ taken' = l + sent
      BY <1>1, <1>3, <2>1 DEF Takes
    <2> QED
      BY <1>1, <2>2, <2>3 DEF WireInv, Out!Transfer, l
  <1>4. ASSUME NEW n \in 0 .. pos - 1, link # "broken", sent = -1,
               wire' = wire \o First(buffer, n), link' = "broken"
        PROVE  WireInv' /\ Out!Transfer
    <2>1. l = taken
      BY <1>4 DEF WireInv, l
    <2>2. n \in 0 .. pos
      BY <1>1
    <2>3. wire' = Out!FirstBytes(l + n) /\ Len(wire') = l + n
      BY <1>2, <1>4, <2>1, <2>2
    <2>4. l + n \in l .. handed' /\ taken' = l
      BY <1>1, <1>4, <2>1, <2>2 DEF Takes
    <2> QED
      BY <1>1, <1>4, <2>3, <2>4 DEF WireInv, Out!Transfer, l
  <1>5. CASE link = "broken" /\ sent = -1 /\ UNCHANGED <<wire, link>>
    <2>1. taken' = taken /\ l \in taken .. handed' /\ l \in l .. handed'
      BY <1>1, <1>5 DEF Takes
    <2> QED
      BY <1>1, <1>5, <2>1 DEF WireInv, Out!Transfer, l
  <1> QED
    BY <1>3, <1>4, <1>5 DEF WriteSocket

\* Send and Flush are the only steps that touch what was sent.
LEMMA WireNext ==
    ASSUME IInv, WireInv, [Next]_vars
    PROVE  WireInv' /\ [Out!Transfer]_<<handed, wire>>
  <1>0. IInv'
    BY InvNext
  <1>1. ASSUME NEW length \in 1 .. MaxSent, Send(length)
        PROVE  WireInv' /\ Out!Transfer
    <2> DEFINE pos == mWriteBufferPos + length
               buffer == [i \in 0 .. BufferSize - 1 |->
                             IF i \in mWriteBufferPos .. pos - 1
                             THEN handed + 1 + (i - mWriteBufferPos)
                             ELSE mWriteBuffer[i]]
    <2>1. /\ BufferSize \in Nat /\ length \in Nat
          /\ handed \in Nat /\ taken \in Nat
          /\ mWriteBufferPos \in Nat /\ mWriteBuffer \in Buffers
          /\ mWriteBufferPos = handed - taken
          /\ \A i \in 0 .. mWriteBufferPos - 1 : mWriteBuffer[i] = taken + i + 1
      BY StreamAssumption DEF IInv, TypeOK, WriteBufferIsUnsentStream
    <2>2. pos \in 0 .. BufferSize /\ handed' = handed + length
      BY <1>1, <2>1 DEF Send, FitsWriteBuffer
    <2>3. PICK sent \in -1 .. pos : WriteSocket(buffer, pos, sent) /\ Takes(sent)
      BY <1>1 DEF Send
    <2>4. buffer \in Buffers /\ \A i \in 0 .. pos - 1 : buffer[i] = taken + i + 1
      BY <2>1, <2>2 DEF Buffers
    <2>5. handed' \in Nat /\ handed' >= handed /\ taken + pos = handed'
      BY <2>1, <2>2
    <2>6. taken' \in 0 .. handed'
      BY <1>0 DEF IInv, TypeOK
    <2> HIDE DEF pos, buffer
    <2> QED
      BY <2>2, <2>3, <2>4, <2>5, <2>6, WriteKeepsOrder
  <1>2. CASE Flush
    <2>1. /\ mWriteBufferPos \in 0 .. BufferSize /\ mWriteBuffer \in Buffers
          /\ \A i \in 0 .. mWriteBufferPos - 1 : mWriteBuffer[i] = taken + i + 1
          /\ handed' = handed /\ handed \in Nat /\ taken + mWriteBufferPos = handed
      BY <1>2, StreamAssumption DEF IInv, TypeOK, WriteBufferIsUnsentStream, Flush
    <2>2. PICK sent \in -1 .. mWriteBufferPos :
             WriteSocket(mWriteBuffer, mWriteBufferPos, sent) /\ Takes(sent)
      BY <1>2 DEF Flush
    <2>3. handed' >= handed /\ taken' \in 0 .. handed'
      BY <1>0, <2>1 DEF IInv, TypeOK
    <2> QED
      BY <2>1, <2>2, <2>3, WriteKeepsOrder
  <1>3. ASSUME UNCHANGED writing, link = "broken" => link' = "broken"
        PROVE  WireInv' /\ UNCHANGED <<handed, wire>>
    BY <1>3 DEF WireInv, writing
  <1> QED
    BY <1>1, <1>2, <1>3 DEF Next, HandleSocket, HandleReset, Consume, PeerSends, PeerEnds,
       PeerResets, vars

\* What Send is handed goes to the kernel in order, each byte at most once,
\* for every buffer size and however the writes end: when a WriteSocket fails
\* after some bytes were taken the buffer still holds them, but the connection
\* is broken for good and nothing is written twice.
THEOREM SendsAreAStream == Spec => SendsInOrder
  <1>1. Init => WireInv /\ Out!StreamInit
    BY DEF Init, WireInv, Out!StreamInit, Out!FirstBytes
  <1>2. IInv /\ WireInv /\ [Next]_vars => WireInv' /\ [Out!Transfer]_<<handed, wire>>
    BY WireNext
  <1>3. Init => IInv
    BY InvInit
  <1>4. IInv /\ [Next]_vars => IInv'
    BY InvNext
  <1> QED
    BY <1>1, <1>2, <1>3, <1>4, PTL DEF Spec, SendsInOrder, Out!StreamSpec

-----------------------------------------------------------------------------

\* The program has taken the first bytes of what the peer has sent, but for the
\* places where it took them from an overlaid buffer.
ConsumedInv == \A i \in DOMAIN consumed : i \in garbled \/ consumed[i] = i

LEMMA Ungarbled ==
    ASSUME NEW seq \in Seq(Nat), NEW bad,
           \A i \in DOMAIN seq : i \in bad \/ seq[i] = i
    PROVE  /\ [i \in DOMAIN seq |-> IF i \in bad THEN i ELSE seq[i]]
                 = In!FirstBytes(Len(seq))
           /\ Len(In!FirstBytes(Len(seq))) = Len(seq)
           /\ Len(seq) \in Nat
  <1>1. Len(seq) \in Nat /\ DOMAIN seq = 1 .. Len(seq)
    BY LenProperties
  <1>2. Len([i \in 1 .. Len(seq) |-> i]) = Len(seq)
    BY <1>1
  <1> QED
    BY <1>1, <1>2 DEF In!FirstBytes

LEMMA ConsumeKeepsOrder ==
    ASSUME IInv, ConsumedInv, NEW k \in 1 .. BufferSize, Consume(k)
    PROVE  ConsumedInv'
  <1>1. /\ consumed \in Seq(Nat) /\ mReadBuffer \in Buffers
        /\ k \in 0 .. BufferSize /\ k \in 1 .. mReadBufferPos /\ mReadBufferPos \in Nat
        /\ garbled \subseteq 1 .. Len(consumed)
        /\ ~overlaid => \A i \in 0 .. mReadBufferPos - 1 :
                           mReadBuffer[i] = Len(consumed) + i + 1
    BY StreamAssumption DEF IInv, TypeOK, ReadBufferIsUnreadStream, Consume
  <1>2. /\ consumed' \in Seq(Nat) /\ Len(consumed) \in Nat
        /\ Len(consumed') = Len(consumed) + k
        /\ \A i \in 1 .. Len(consumed) + k :
              consumed'[i] = IF i <= Len(consumed) THEN consumed[i]
                             ELSE mReadBuffer[i - Len(consumed) - 1]
    BY <1>1, Appended DEF Consume, getReadBuffer
  <1>3. /\ garbled' = IF overlaid
                     THEN garbled \cup (Len(consumed) + 1 .. Len(consumed) + k)
                     ELSE garbled
        /\ DOMAIN consumed = 1 .. Len(consumed)
        /\ DOMAIN consumed' = 1 .. Len(consumed) + k
    BY <1>1, <1>2, LenProperties DEF Consume, getReadBuffer
  <1> SUFFICES ASSUME NEW i \in 1 .. Len(consumed) + k, i \notin garbled'
               PROVE  consumed'[i] = i
    BY <1>3 DEF ConsumedInv
  <1>4. CASE i <= Len(consumed)
    <2>1. i \in DOMAIN consumed /\ i \notin garbled
      BY <1>2, <1>3, <1>4
    <2> QED
      BY <1>2, <1>4, <2>1 DEF ConsumedInv
  <1>5. CASE i > Len(consumed)
    <2>1. ~overlaid
      <3>1. i \in Len(consumed) + 1 .. Len(consumed) + k
        BY <1>1, <1>2, <1>5
      <3> QED BY <1>3, <3>1
    <2>2. i - Len(consumed) - 1 \in 0 .. mReadBufferPos - 1
      BY <1>1, <1>2, <1>5
    <2>3. mReadBuffer[i - Len(consumed) - 1]
             = Len(consumed) + (i - Len(consumed) - 1) + 1
      BY <1>1, <2>1, <2>2
    <2>4. ~(i <= Len(consumed))
      BY <1>2, <1>5
    <2> QED
      BY <1>2, <2>3, <2>4
  <1> QED
    BY <1>2, <1>4, <1>5

LEMMA ConsumedNext ==
    ASSUME IInv, ConsumedInv, [Next]_vars
    PROVE  ConsumedInv' /\ [In!Transfer]_<<arrived, ungarbled>>
  <1>1. /\ consumed \in Seq(Nat) /\ arrived \in Nat
        /\ consumed' \in Seq(Nat) /\ arrived' \in Nat /\ Len(consumed') <= arrived'
    <2>1. IInv'
      BY InvNext
    <2>2. consumed' \in Seq(Nat) /\ Len(consumed') \in Nat
      BY <2>1, LenProperties DEF IInv, TypeOK
    <2> QED
      BY <2>1, <2>2, StreamAssumption DEF IInv, TypeOK, ReadBufferIsUnreadStream
  <1>2. ASSUME ConsumedInv', Len(consumed) <= Len(consumed'), arrived <= arrived'
        PROVE  In!Transfer
    <2>1. /\ ungarbled = In!FirstBytes(Len(consumed))
          /\ Len(ungarbled) = Len(consumed) /\ Len(consumed) \in Nat
      BY <1>1, Ungarbled DEF ungarbled, ConsumedInv
    <2>2. /\ ungarbled' = In!FirstBytes(Len(consumed'))
          /\ Len(consumed') \in Nat
      BY <1>1, <1>2, Ungarbled DEF ungarbled, ConsumedInv
    <2>3. Len(consumed') \in Len(ungarbled) .. arrived'
      BY <1>1, <1>2, <2>1, <2>2
    <2> QED
      BY <1>1, <1>2, <2>2, <2>3 DEF In!Transfer
  <1>3. ASSUME NEW k \in 1 .. BufferSize, Consume(k)
        PROVE  ConsumedInv' /\ In!Transfer
    <2>1. Len(consumed') = Len(consumed) + k /\ k \in Nat /\ arrived' = arrived
      BY <1>3, StreamAssumption, Appended
         DEF Consume, getReadBuffer, IInv, TypeOK
    <2>2. Len(consumed) \in Nat
      BY <1>1, LenProperties
    <2> QED
      BY <1>1, <1>2, <1>3, <2>1, <2>2, ConsumeKeepsOrder
  <1>4. CASE PeerSends
    <2>1. ConsumedInv' /\ consumed' = consumed /\ arrived' = arrived + 1
      BY <1>4 DEF PeerSends, reading, program, ConsumedInv
    <2>2. Len(consumed) \in Nat
      BY <1>1, LenProperties
    <2> QED
      BY <1>1, <1>2, <2>1, <2>2
  <1>5. CASE UNCHANGED <<arrived, consumed, garbled>>
    BY <1>5 DEF ConsumedInv, ungarbled
  <1> QED
    BY <1>3, <1>4, <1>5 DEF Next, Send, Flush, HandleSocket, HandleReset, PeerEnds,
       PeerResets, vars, reading, program

\* What the program takes from the read buffer is what the peer has sent, in
\* order and each byte once, but for the bytes it takes from a buffer that a
\* read was put over; what it takes later is in its place again.
THEOREM ReadsAreAStream == Spec => ReadsInOrder
  <1>1. Init => ConsumedInv /\ In!StreamInit
    BY DEF Init, ConsumedInv, In!StreamInit, ungarbled
  <1>2. Init => IInv
    BY InvInit
  <1>3. IInv /\ [Next]_vars => IInv'
    BY InvNext
  <1>4. IInv /\ ConsumedInv /\ [Next]_vars
           => ConsumedInv' /\ [In!Transfer]_<<arrived, ungarbled>>
    BY ConsumedNext
  <1> QED
    BY <1>1, <1>2, <1>3, <1>4, PTL DEF Spec, ReadsInOrder, In!StreamSpec
==============================================================================

------------------------- MODULE PlatformWindowsProofs ------------------------
(***************************************************************************)
(* Proofs about PlatformWindows for every finite set of handles.           *)
(***************************************************************************)
EXTENDS PlatformWindows, FiniteSetTheorems, TLAPS

\* In a pass the handles called back lie behind the iterator.
ServedInv == pc \in {"pass", "callback"} => \A sd \in served : sd <= cursor

\* Outside a pass nothing counts as called back, erased or rebuilt.
PassIsOver == pc \in {"app", "selecting"} => served = {} /\ ~rebuilt /\ ~erased

\* The handles that the loop still calls, the one whose callback has not read
\* yet included.
Due(sd) == sd > cursor \/ (pc = "callback" /\ sd = cursor /\ result = "unread")

\* As long as the sets are those that select left, these are readable.
DueAreReadable ==
    pc \in {"pass", "callback"} /\ ~rebuilt =>
        /\ ~erased
        /\ \A sd \in mSetRead : Due(sd) => input[sd] # "empty"
        /\ pc = "callback" => cursor \in mSetRead \ listening

IInv ==
    /\ TypeOK
    /\ PollsOpenHandlesOnly
    /\ ServedInv
    /\ PassIsOver
    /\ DueAreReadable
    /\ pc # "callback" => result = "unread"
    /\ ClosedMeansEnded

\* The registry is no larger than the set of all handles.
LEMMA RegistryFits ==
    ASSUME NEW map \in SUBSET SOCKETS
    PROVE  Cardinality(map) \in 0 .. Cardinality(SOCKETS)
<1>1. IsFiniteSet(map) /\ Cardinality(map) <= Cardinality(SOCKETS)
    BY HandlesAreNumbers, FS_Subset
<1>2. Cardinality(map) \in Nat /\ Cardinality(SOCKETS) \in Nat
    BY <1>1, HandlesAreNumbers, FS_CardinalityType
<1> QED BY <1>1, <1>2

LEMMA IInvInitially == Init => IInv
<1>1. Cardinality({}) = 0
    BY FS_EmptySet
<1>2. Cardinality(SOCKETS) \in Nat
    BY FS_CardinalityType, HandlesAreNumbers
<1>3. 0 \in 0 .. Cardinality(SOCKETS)
    BY <1>2
<1>4. Init => PollsOpenHandlesOnly
    BY <1>1 DEF Init, PollsOpenHandlesOnly
<1>5. Init => /\ TypeOK /\ ServedInv /\ PassIsOver /\ DueAreReadable /\ ClosedMeansEnded
              /\ result = "unread"
    BY <1>3 DEF Init, TypeOK, Inputs, ServedInv, PassIsOver, DueAreReadable, ClosedMeansEnded
<1> QED BY <1>4, <1>5 DEF IInv

\* Adding a handle rebuilds the sets.
LEMMA AddedFits ==
    ASSUME IInv, NEW sd \in SOCKETS, AddSocketForPolling(sd)
    PROVE  /\ mSocketMap' \subseteq SOCKETS /\ mSocketMap \subseteq mSocketMap'
           /\ mSetRead' \subseteq SOCKETS /\ mSetWrite' \subseteq SOCKETS
           /\ mNumToPoll' \in 0 .. Cardinality(SOCKETS)
           /\ PollsOpenHandlesOnly'
           /\ sd \in mSocketMap'
<1>1. /\ mSocketMap' = mSocketMap \cup {sd} /\ mSocketMap' \subseteq SOCKETS
      /\ mSetRead' = mSocketMap' /\ mSetWrite' = mSocketMap'
      /\ mNumToPoll' = Cardinality(mSocketMap')
    BY DEF AddSocketForPolling, rebuildPollStruct, IInv, TypeOK
<1> QED BY <1>1, RegistryFits DEF PollsOpenHandlesOnly

LEMMA ProgramKeepsInv ==
    ASSUME IInv, NEW sd \in SOCKETS, Start(sd) \/ Stop(sd)
    PROVE  IInv'
<1>1. CASE Start(sd)
    <2>1. AddSocketForPolling(sd) /\ rebuilt' = (pc # "app") /\ rebuilt' \in BOOLEAN
        BY <1>1 DEF Start, AddSocketForPolling
    <2>2. TypeOK' /\ PollsOpenHandlesOnly'
        BY <1>1, <2>1, AddedFits DEF Start, InProgram, IInv, TypeOK, loop
    <2>3. /\ ServedInv' /\ PassIsOver' /\ DueAreReadable' /\ ClosedMeansEnded'
          /\ pc' # "callback" => result' = "unread"
        BY <1>1, <2>1 DEF Start, InProgram, IInv, ServedInv, PassIsOver, DueAreReadable,
           ClosedMeansEnded, loop
    <2> QED BY <2>2, <2>3 DEF IInv
<1>2. CASE Stop(sd)
    <2>1. /\ mSocketMap' = mSocketMap \ {sd}
          /\ mSetRead' = mSocketMap' /\ mSetWrite' = mSocketMap'
          /\ mNumToPoll' = Cardinality(mSocketMap')
          /\ rebuilt' = (pc # "app")
          /\ input' = [input EXCEPT ![sd] = "empty"] /\ listening' = listening \ {sd}
          /\ UNCHANGED <<pc, cursor, served, result>>
          /\ pc = "app" /\ ~erased => ~erased'
        BY <1>2 DEF Stop, RemoveSocketFromPolling, rebuildPollStruct, CloseSocket
    <2>2. mSocketMap' \subseteq SOCKETS /\ erased' \in BOOLEAN /\ rebuilt' \in BOOLEAN
        BY <1>2, <2>1 DEF IInv, TypeOK, Stop, RemoveSocketFromPolling
    <2>3. TypeOK' /\ PollsOpenHandlesOnly'
        BY <2>1, <2>2, RegistryFits DEF IInv, TypeOK, Inputs, PollsOpenHandlesOnly
    <2>4. /\ ServedInv' /\ PassIsOver' /\ DueAreReadable' /\ ClosedMeansEnded'
          /\ pc' # "callback" => result' = "unread"
        BY <1>2, <2>1 DEF Stop, InProgram, IInv, ServedInv, PassIsOver, DueAreReadable,
           ClosedMeansEnded
    <2> QED BY <2>3, <2>4 DEF IInv
<1> QED BY <1>1, <1>2

\* A callback reads the handle it was called for, and nothing else.
LEMMA ReadKeepsInv == ASSUME IInv, HandleSocket PROVE IInv'
<1>1. /\ pc = "callback" /\ ~erased /\ result = "unread" /\ result' # "unread"
      /\ UNCHANGED <<mSocketMap, polled, listening, pc, loop, rebuilt>>
    BY DEF HandleSocket
<1>2. PICK res \in {"bytes", "none", "error"} :
         ReadSocket(cursor, res) /\ result' = IF res = "none" THEN "closed" ELSE res
    BY DEF HandleSocket
<1>3. /\ input' \in [SOCKETS -> Inputs]
      /\ \A sd \in SOCKETS : sd # cursor => input'[sd] = input[sd]
      /\ res = "none" => input' = input
    BY <1>2 DEF ReadSocket, IInv, TypeOK, Inputs
<1>4. ClosedMeansEnded'
    <2> SUFFICES ASSUME res = "none", ~rebuilt PROVE input[cursor] \in {"eof", "reset"}
        BY <1>1, <1>2, <1>3 DEF ClosedMeansEnded, loop
    <2>1. input[cursor] # "empty"
        BY <1>1 DEF IInv, DueAreReadable, Due
    <2> QED BY <1>2, <2>1 DEF ReadSocket
<1>5. DueAreReadable'
    BY <1>1, <1>3, HandlesAreNumbers DEF IInv, TypeOK, DueAreReadable, Due, polled, loop
<1>6. TypeOK'
    BY <1>1, <1>2, <1>3 DEF IInv, TypeOK, polled, loop
<1> QED BY <1>1, <1>4, <1>5, <1>6
        DEF IInv, PollsOpenHandlesOnly, ServedInv, PassIsOver, polled, loop

\* The iterator moves to the next entry, and calls it or not.
LEMMA LoopKeepsInv ==
    ASSUME IInv, NEW sd \in SOCKETS, Skip(sd) \/ CallServer(sd) \/ CallClient(sd)
    PROVE  IInv'
<1>1. /\ pc = "pass" /\ cursor' = sd /\ sd \in mSocketMap /\ UNCHANGED erased
      /\ cursor < sd /\ cursor \in Nat /\ sd \in Nat
      /\ result = "unread" /\ result' = result /\ listening' = listening
    BY HandlesAreNumbers
       DEF Skip, CallServer, CallClient, Call, Reaches, After, IInv, TypeOK
<1>2. served' \in {served, served \cup {sd}} /\ \A other \in served' : other <= sd
    <2>1. \A other \in served : other \in Nat /\ other <= cursor
        BY <1>1, HandlesAreNumbers DEF IInv, TypeOK, ServedInv
    <2> QED BY <1>1, <2>1 DEF Skip, CallServer, CallClient, Call
<1>3. CASE UNCHANGED <<mSocketMap, polled, input, rebuilt>>
    <2>1. pc' \in {"pass", "callback"}
          /\ (pc' = "callback" => sd \in mSetRead \ listening)
        BY <1>1, <1>3 DEF Skip, CallServer, CallClient, Call
    <2>2. TypeOK' /\ PollsOpenHandlesOnly'
        BY <1>1, <1>2, <1>3, <2>1 DEF IInv, TypeOK, PollsOpenHandlesOnly, polled
    <2>3. DueAreReadable'
        <3>1. \A other \in mSetRead : other \in Nat /\ (other >= sd => other > cursor)
            BY <1>1, HandlesAreNumbers DEF IInv, TypeOK
        <3> QED BY <1>1, <1>3, <2>1, <3>1 DEF IInv, DueAreReadable, Due, polled
    <2> QED BY <1>1, <1>2, <1>3, <2>1, <2>2, <2>3
            DEF IInv, ServedInv, PassIsOver, ClosedMeansEnded
<1>4. CASE CallServer(sd) /\ AcceptSocket(sd) /\ \E new \in SOCKETS : AddSocketForPolling(new)
    <2>1. PICK new \in SOCKETS : AddSocketForPolling(new)
        BY <1>4
    <2>2. rebuilt' = TRUE /\ pc' = "pass" /\ input' \in [SOCKETS -> Inputs]
        BY <1>1, <1>4, <2>1
           DEF CallServer, AddSocketForPolling, AcceptSocket, IInv, TypeOK, Inputs
    <2>3. TypeOK' /\ PollsOpenHandlesOnly'
        BY <1>1, <1>2, <2>1, <2>2, AddedFits DEF IInv, TypeOK
    <2> QED BY <1>1, <1>2, <2>2, <2>3
            DEF IInv, ServedInv, PassIsOver, DueAreReadable, ClosedMeansEnded
<1> QED BY <1>3, <1>4 DEF Skip, CallServer, CallClient

LEMMA IInvPreserved == IInv /\ [Next]_vars => IInv'
<1> SUFFICES ASSUME IInv, [Next]_vars PROVE IInv'
    OBVIOUS
<1> USE HandlesAreNumbers
    DEF IInv, TypeOK, PollsOpenHandlesOnly, ServedInv, PassIsOver
<1>1. ASSUME NEW sd \in SOCKETS, Arrives(sd) PROVE IInv'
    <2>1. /\ UNCHANGED <<mSocketMap, polled, listening, pc, loop, result, rebuilt>>
          /\ input[sd] = "empty"
        BY <1>1 DEF Arrives, Readable
    <2>2. PICK what \in Inputs \ {"empty"} : input' = [input EXCEPT ![sd] = what]
        BY <1>1 DEF Arrives
    <2>3. input' \in [SOCKETS -> Inputs]
          /\ \A other \in SOCKETS : input[other] # "empty" => input'[other] = input[other]
        BY <2>1, <2>2
    <2>4. DueAreReadable'
        BY <2>1, <2>3 DEF DueAreReadable, Due, polled, loop
    <2>5. cursor \in SOCKETS \/ result # "closed" \/ erased \/ rebuilt
        BY DEF DueAreReadable
    <2>6. ClosedMeansEnded'
        BY <2>1, <2>3, <2>5 DEF ClosedMeansEnded, loop
    <2> QED BY <2>1, <2>3, <2>4, <2>6 DEF polled, loop
<1>2. CASE HandleEvents
    BY <1>2 DEF HandleEvents, DueAreReadable, ClosedMeansEnded, polled, loop
<1>3. CASE CallbackReturns
    BY <1>3 DEF CallbackReturns, DueAreReadable, Due, ClosedMeansEnded, polled, loop
<1>4. CASE NothingToPoll \/ SelectTimesOut \/ EndPass
    BY <1>4 DEF NothingToPoll, SelectTimesOut, EndPass, Selecting, Return,
                DueAreReadable, ClosedMeansEnded, polled
<1>5. CASE SelectUninitialised
    BY <1>5 DEF SelectUninitialised, DueAreReadable, ClosedMeansEnded, polled, loop
<1>6. CASE SelectReports \/ SelectFails
    <2>1. /\ pc = "selecting" /\ pc' = "pass" /\ result = "unread"
          /\ UNCHANGED <<mSocketMap, mNumToPoll, listening, input, loop, result, rebuilt>>
          /\ mSetRead' = mSetRead \cap Readable
          /\ mSetWrite' \subseteq mSetWrite
        BY <1>6 DEF SelectReports, SelectFails, Selecting, polled
    <2> QED BY <2>1 DEF DueAreReadable, Due, ClosedMeansEnded, Readable, loop
<1>7. CASE UNCHANGED vars
    BY <1>7 DEF vars, DueAreReadable, Due, ClosedMeansEnded, polled, loop
<1> QED BY <1>1, <1>2, <1>3, <1>4, <1>5, <1>6, <1>7,
           ProgramKeepsInv, ReadKeepsInv, LoopKeepsInv DEF Next, PollSockets

LEMMA IInvariant == Spec => []IInv
BY IInvInitially, IInvPreserved, PTL DEF Spec

\* The state is well typed: the count fits the registry whatever a pass does.
THEOREM TypeCorrect == Spec => []TypeOK
<1>1. IInv => TypeOK
    BY DEF IInv
<1> QED BY <1>1, IInvariant, PTL

\* select is given open handles only, and the count is that of the registry.
THEOREM OnlyOpenHandles == Spec => []PollsOpenHandlesOnly
<1>1. IInv => PollsOpenHandlesOnly
    BY DEF IInv
<1> QED BY <1>1, IInvariant, PTL

\* A read that says "closed" tells the truth, unless the sets were rebuilt in
\* the pass: what select reported of the handles ahead stays true until their
\* callbacks read them, as ReadSocket is called by nobody else.
THEOREM ClosedIsTrue == Spec => []ClosedMeansEnded
<1>1. IInv => ClosedMeansEnded
    BY DEF IInv
<1> QED BY <1>1, IInvariant, PTL

\* However the callbacks change the map, a pass calls no handle twice.
THEOREM EachHandleOnce == Spec => NoHandleServedTwice
<1>1. IInv /\ [Next]_vars => [cursor' \notin {0, cursor} => cursor' \notin served]_vars
    <2> SUFFICES ASSUME IInv, Next, cursor' \notin {0, cursor}
                 PROVE  cursor' \notin served
        OBVIOUS
    <2>1. PICK sd \in SOCKETS : Skip(sd) \/ CallServer(sd) \/ CallClient(sd)
        BY DEF Next, PollSockets, Start, Stop, Arrives, HandleSocket, HandleEvents,
               CallbackReturns, NothingToPoll, SelectUninitialised, SelectReports,
               SelectTimesOut, SelectFails, EndPass, Return, loop
    <2>2. cursor' = sd /\ cursor < sd /\ pc = "pass"
        BY <2>1 DEF Skip, CallServer, CallClient, Call, Reaches, After
    <2> QED
        BY <2>2, HandlesAreNumbers DEF IInv, ServedInv, TypeOK
<1> QED BY <1>1, IInvariant, PTL DEF Spec, NoHandleServedTwice
=============================================================================

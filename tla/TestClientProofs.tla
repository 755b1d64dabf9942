--------------------------- MODULE TestClientProofs ---------------------------
(***************************************************************************)
(* test_client.cpp is one of the programs TorpClass describes, so that     *)
(* what is proved of every such program holds for it; and having one       *)
(* connection only, it reads nothing but what poll(2) has reported.        *)
(***************************************************************************)
EXTENDS TestClient, TorpClassProofs

\* Every step of the program is a step of the most general program: main and
\* connCallback use the interface as TorpClass assumes, also when the greeting
\* is sent before the first HandleEvents.
THEOREM TestClientImplements == TestClientSpec => ImplementsTorpClass
<1>1. TestClientInit => TorpInit
    BY DEF TestClientInit
<1>2. [TestClientNext]_clientVars => [TorpNext]_torpVars
    <2>1. ASSUME Main PROVE TorpNext
        <3>1. RegisterClientCallback => Calls
            BY DEF Calls
        <3>2. Connect => Calls
            BY DEF Connect, Calls
        <3>3. Greet => Calls
            BY DEF Greet, LiveClients, Calls
        <3>4. Loop => TorpHandleEvents \/ SocketCalls
            BY DEF Loop, TorpHandleEvents, SocketCalls, Calls
        <3> QED
            BY <2>1, <3>1, <3>2, <3>3, <3>4 DEF Main, SocketCalls, TorpNext
    <2>2. ASSUME connCallback PROVE TorpNext
        BY <2>2 DEF connCallback, Calls, SocketCalls, TorpNext
    <2>3. PollAndDispatch \/ Outside => TorpNext
        BY DEF PollAndDispatch, TorpHandleEvents, Outside, TorpNext
    <2>4. UNCHANGED clientVars => UNCHANGED torpVars
        BY DEF clientVars
    <2> QED BY <2>1, <2>2, <2>3, <2>4 DEF TestClientNext, ThreadStep
<1> QED BY <1>1, <1>2, PTL DEF TestClientSpec, ImplementsTorpClass, TorpSpec

\* The state is well typed.
THEOREM TestClientTypeCorrect == TestClientSpec => []TestClientTypeOK
<1> DEFINE MainOK == main \in Steps
<1>1. TestClientInit => MainOK
    BY DEF TestClientInit, Steps
<1>2. MainOK /\ [TestClientNext]_clientVars => MainOK'
    BY DEF TestClientNext, ThreadStep, Main, Connect, connCallback, PollAndDispatch,
           Outside, clientVars, Steps
<1>3. TestClientSpec => []TorpTypeOK
    BY TestClientImplements, TorpTypeCorrect, PTL DEF ImplementsTorpClass
<1>4. TorpTypeOK /\ MainOK => TestClientTypeOK
    BY DEF TestClientTypeOK
<1> QED BY <1>1, <1>2, <1>3, <1>4, PTL DEF TestClientSpec

-----------------------------------------------------------------------------
(* One connection, no stale revents. *)

\* What revents says of the slots in use is so.
Reported == \A k \in DOMAIN mPollFD : revents[k] => Readable(mPollFD[k])

\* At most one descriptor is open, and it is a connection; what was reported of
\* it is still there until the callback has read.
OneConnection ==
    /\ main \in {"register", "connect"} => pc = "app" /\ OpenSockets = {}
    /\ \A s, t \in OpenSockets : s = t
    /\ \A s \in SOCKETS : kind[s] # "listening"
    /\ pc \notin {"reading", "accepting"}
    /\ next \in Nat \ {0}
    /\ pc = "pass" => next > 1 \/ Reported
    /\ pc = "callback" /\ result = NULL /\ current # NULL
          => input[clientSocket[current]] # "empty"

\* A pass serves the first slot or none.
LEMMA ServesOneSlot ==
    ASSUME IInv, OneConnection, Dispatching
    PROVE  /\ input[mPollFD[next]] # "empty"
           /\ mPollFD[next] \in SOCKETS
<1>1. /\ mPollFD \in SortedListings(Registered(mSocketMap))
      /\ mNumToPoll = Len(mPollFD)
      /\ Registered(mSocketMap) \in SUBSET SOCKETS
    BY DEF Dispatching, InPass, IInv, PassInv, RegistryInv, PollArrayListsRegistry,
           Registered
<1>2. /\ mNumToPoll \in Nat /\ DOMAIN mPollFD = 1 .. mNumToPoll
      /\ \A i \in DOMAIN mPollFD : mPollFD[i] \in Registered(mSocketMap)
    BY <1>1, ListingFits DEF SortedListings
<1>3. next \in DOMAIN mPollFD
    BY <1>2 DEF Dispatching, OneConnection
<1>4. \A sd \in Registered(mSocketMap) : sd \in OpenSockets
    BY DEF Registered, OpenSockets, IInv, RegistryInv, RegistryMatchesSockets
<1>5. next = 1
    <2> SUFFICES ASSUME next > 1 PROVE FALSE
        BY DEF OneConnection
    <2>1. 1 \in DOMAIN mPollFD
        BY <1>2, <1>3
    <2>2. mPollFD[1] = mPollFD[next]
        BY <1>2, <1>3, <1>4, <2>1 DEF OneConnection
    <2>3. mPollFD[1] < mPollFD[next]
        BY <1>1, <1>3, <2>1 DEF SortedListings
    <2>4. mPollFD[1] \in Nat
        BY <1>1, <1>2, <2>1, SocketsAreNumbers
    <2> QED BY <2>2, <2>3, <2>4
<1>6. Readable(mPollFD[next])
    BY <1>3, <1>5 DEF Dispatching, OneConnection, Reported
<1> QED BY <1>6 DEF Readable, OpenSockets

\* Steps that open and close nothing and take nothing away that can be read.
LEMMA NothingTaken ==
    ASSUME IInv, OneConnection,
           UNCHANGED <<kind, mPollFD, revents, next, clientSocket, current, pc, main>>,
           \A s \in SOCKETS : input[s] # "empty" => input'[s] # "empty",
           pc # "callback" \/ result' = result \/ result' # NULL
    PROVE  OneConnection'
<1>1. UNCHANGED OpenSockets
    BY DEF OpenSockets
<1>2. Reported => Reported'
    BY <1>1 DEF Reported, Readable, OpenSockets
<1>3. current # NULL => clientSocket[current] \in SOCKETS
    BY DEF IInv, CallbackClientIsLive, LiveClients, TypeOK
<1> QED BY <1>1, <1>2, <1>3 DEF OneConnection

LEMMA MainKeepsOne ==
    ASSUME IInv, OneConnection, Main PROVE OneConnection'
<1> USE DEF OneConnection
<1>1. pc = "app"
    BY DEF Main
<1>2. CASE main = "register"
    BY <1>1, <1>2 DEF Main, RegisterClientCallback, sockets, platform, OpenSockets
<1>3. CASE main = "connect"
    <2>1. ASSUME NEW c \in CLIENTS, StartClientFails(c), main' # "send"
          PROVE  OneConnection'
        <3>1. kind' = kind /\ UNCHANGED platform
            BY <2>1, ClientStartFailed DEF StartClientFails
        <3> QED BY <1>1, <1>3, <2>1, <3>1 DEF platform, OpenSockets
    <2>2. ASSUME NEW c \in CLIENTS, NEW fd \in SOCKETS, StartClient(c, fd), main' = "send"
          PROVE  OneConnection'
        <3>1. PICK k \in {"connected", "refused"} : kind' = [kind EXCEPT ![fd] = k]
            BY <2>2 DEF StartClient, ClientStart, openSocket
        <3>2. \A s \in SOCKETS : s # fd => kind'[s] = "closed"
            BY <1>3, <3>1 DEF OpenSockets, IInv, TypeOK, SocketsTypeOK
        <3>3. kind'[fd] = k
            BY <3>1 DEF IInv, TypeOK, SocketsTypeOK
        <3>4. pc' = "app" /\ next' = next
            BY <1>1, <2>2 DEF StartClient
        <3> QED BY <2>2, <3>2, <3>3, <3>4 DEF OpenSockets
    <2> QED BY <1>3, <2>1, <2>2 DEF Main, Connect
<1>4. CASE main \in {"send", "loop"}
    <2>1. kind' = kind /\ next' = next /\ main' = "loop"
          /\ pc' \in {"app", "appWriting", "polling", "killed"}
        BY <1>1, <1>4
           DEF Main, Greet, Send, SendBlocks, WriteKills, CollectError, Loop,
               HandleTimers, HandleSockets, HandleEvents, vars, sockets, platform
    <2> QED BY <2>1 DEF OpenSockets
<1> QED BY <1>2, <1>3, <1>4 DEF Main

LEMMA CallbackKeepsOne ==
    ASSUME IInv, OneConnection, connCallback PROVE OneConnection'
<1> USE DEF OneConnection
<1>1. pc = "callback" /\ main' = main
    BY DEF connCallback
<1>2. CASE result = NULL /\ HandleSocket
    <2>1. kind' = kind /\ next' = next /\ pc' = "callback" /\ result' # NULL
        BY <1>2, NullIsNoResult
           DEF HandleSocket, ReadClient, ReadSocket
    <2> QED BY <1>1, <2>1 DEF OpenSockets
<1>3. ASSUME result = NULL, ReadBlocks PROVE FALSE
    BY <1>3 DEF ReadBlocks, WouldBlock
<1>4. ASSUME NEW c \in CLIENTS, c = current, StopClient(c) PROVE OneConnection'
    <2>1. kind' = [kind EXCEPT ![clientSocket[c]] = "closed"] /\ current' = NULL
          /\ pc' = pc /\ next' = next
        BY <1>4 DEF StopClient, ClientStop, deleteClient, CloseSocket
    <2>2. \A s \in SOCKETS : kind'[s] \in {kind[s], "closed"}
        BY <2>1 DEF IInv, TypeOK, SocketsTypeOK
    <2> QED BY <1>1, <2>1, <2>2 DEF OpenSockets
<1>5. CASE WriteKills \/ \E c \in CLIENTS : Send(c) \/ SendBlocks(c)
    BY <1>1, <1>5, NullIsNoResult
       DEF Send, SendBlocks, WriteKills, CollectError, sockets, platform, OpenSockets
<1>6. CASE ReturnFromCallback
    BY <1>1, <1>6 DEF ReturnFromCallback, NextSlot, sockets, OpenSockets
<1> QED BY <1>2, <1>3, <1>4, <1>5, <1>6 DEF connCallback

LEMMA PollKeepsOne ==
    ASSUME IInv, OneConnection, PollAndDispatch PROVE OneConnection'
<1> USE DEF OneConnection
<1>1. main' = main
    BY DEF PollAndDispatch
<1>2. CASE PollEnds
    <2>1. CASE PollSleeps \/ PollTimesOut
        BY <1>1, <1>2, <2>1
           DEF PollEnds, PollReturns, PollSleeps, PollTimesOut, sockets, OpenSockets
    <2>2. CASE PollReports
        <3>1. /\ DOMAIN mPollFD = 1 .. mNumToPoll /\ DOMAIN mPollFD \subseteq Slots
              /\ mPollFD' = mPollFD /\ UNCHANGED <<kind, input>>
            <4>1. /\ mPollFD \in SortedListings(Registered(mSocketMap))
                  /\ mNumToPoll = Len(mPollFD)
                BY <2>2 DEF PollReports, IInv, RegistryInv, PollArrayListsRegistry
            <4>2. /\ IsFiniteSet(SOCKETS) /\ Registered(mSocketMap) \in SUBSET SOCKETS
                  /\ Cardinality(Registered(mSocketMap)) \in Nat
                  /\ Cardinality(SOCKETS) \in Nat
                  /\ Cardinality(Registered(mSocketMap)) <= Cardinality(SOCKETS)
                BY SocketsAreNumbers, FS_Subset, FS_CardinalityType DEF Registered
            <4>3. mNumToPoll = Cardinality(Registered(mSocketMap))
                BY <4>1, <4>2, ListingFits
            <4>4. DOMAIN mPollFD = 1 .. mNumToPoll
                BY <4>1, <4>3 DEF SortedListings
            <4> QED
                BY <1>2, <2>2, <4>2, <4>3, <4>4
                   DEF PollEnds, PollReturns, PollReports, registry, sockets, Slots
        <3>2. Reported'
            BY <2>2, <3>1 DEF PollReports, Reported, Readable, OpenSockets
        <3> QED BY <1>1, <2>2, <3>1, <3>2 DEF PollReports, OpenSockets
    <2> QED BY <1>2, <2>1, <2>2 DEF PollEnds, PollReturns
<1>3. CASE PollUndefined
    BY <1>1, <1>3
       DEF PollUndefined, PollBreaks, PollUninitialised, vars, sockets, platform,
           OpenSockets
<1>4. CASE (SkipSlot \/ EndPass)
            /\ UNCHANGED <<sockets, clients, servers, mClientCallback, caller>>
    BY <1>1, <1>4 DEF SkipSlot, EndPass, sockets, OpenSockets
<1>5. ASSUME NEW sd \in SOCKETS, AcceptFails(sd) \/ NobodyToCall(sd)
      PROVE  OneConnection'
    BY <1>1, <1>5
       DEF AcceptFails, NobodyToCall, Handles, Dispatching, NextSlot, sockets, OpenSockets
<1>6. ASSUME NEW sd \in SOCKETS, handleClientEvent(sd) PROVE OneConnection'
    <2>1. /\ Dispatching /\ sd = mPollFD[next] /\ UNCHANGED <<kind, input, next, clientSocket>>
          /\ pc' \in {"callback", "undefined"} /\ current' = mClientSockets[sd]
          /\ mSocketMap[sd] = "clientSocketCallback"
        BY <1>6 DEF handleClientEvent, Handles, sockets, clients
    <2>2. input[sd] # "empty"
        BY <2>1, ServesOneSlot
    <2>3. clientSocket[current'] = sd
        BY <2>1 DEF IInv, OwnerInv, DispatchTargetsLiveClient
    <2> QED BY <1>1, <2>1, <2>2, <2>3 DEF Dispatching, OpenSockets
<1>7. ASSUME NEW sd \in SOCKETS, Handles(sd, "serverSocketCallback") PROVE FALSE
    BY <1>7, NullIsNoSocket
       DEF Handles, IInv, RegistryInv, RegistryMatchesSockets, Handlers
<1>8. ~ReadWakes /\ \A sd, fd \in SOCKETS, c \in CLIENTS : ~AcceptWakes(sd, fd, c)
    BY DEF ReadWakes, AcceptWakes
<1> QED
    BY <1>2, <1>3, <1>4, <1>5, <1>6, <1>7, <1>8
       DEF PollAndDispatch, Dispatch, AcceptBlocks, handleServerEvent

LEMMA OnePreserved == IInv /\ OneConnection /\ [TestClientNext]_clientVars => OneConnection'
<1> SUFFICES ASSUME IInv, OneConnection, [TestClientNext]_clientVars
             PROVE  OneConnection'
    OBVIOUS
<1>1. CASE TorpRemote /\ UNCHANGED main
    <2>1. CASE WriteWakes
        BY <1>1, <2>1, NullIsNoResult
           DEF WriteWakes, OneConnection, sockets, OpenSockets
    <2>2. CASE Remote /\ ~WriteWakes
        <3>1. \A s \in SOCKETS : input[s] # "empty" => input'[s] # "empty"
            BY <2>2
               DEF Remote, RemoteConnects, RemoteSends, RemoteCloses, RemoteResets,
                   Arrives, IInv, TypeOK, SocketsTypeOK
        <3> QED
            BY <1>1, <2>2, <3>1, NothingTaken
               DEF Remote, RemoteConnects, RemoteSends, RemoteCloses, RemoteResets,
                   Arrives, platform, clients, caller
    <2> QED BY <1>1, <2>1, <2>2 DEF TorpRemote
<1>2. CASE (TimePasses /\ UNCHANGED main) \/ UNCHANGED clientVars
    BY <1>2, NothingTaken
       DEF TimePasses, clientVars, torpVars, vars, sockets, platform, clients, caller
<1> QED BY <1>1, <1>2, MainKeepsOne, CallbackKeepsOne, PollKeepsOne
        DEF TestClientNext, ThreadStep, Outside

\* The read in the callback finds what poll(2) reported: it neither sleeps nor
\* takes an idle connection for a closed one.
THEOREM ReadsFindSomething == TestClientSpec => ReadsFindWhatWasReported
<1>1. TestClientSpec => []IInv
    BY TestClientImplements, ConnManagerComposed, IInvariant, PTL
       DEF ImplementsTorpClass, ImplementsConnManager
<1>2. TestClientInit => OneConnection
    BY DEF TestClientInit, TorpInit, Init, PlatformInit, SocketsInit, OpenSockets,
           OneConnection
<1> DEFINE Step == /\ result # "closed" /\ result' = "closed" => input[clientSocket[current]] = "eof"
                   /\ pc' # "reading"
<1>3. IInv /\ OneConnection /\ [TestClientNext]_clientVars => [Step]_clientVars
    <2> SUFFICES ASSUME IInv, OneConnection, TestClientNext PROVE Step
        OBVIOUS
    <2>1. pc' # "reading"
        BY OnePreserved DEF OneConnection
    <2>2. ASSUME result # "closed", result' = "closed"
          PROVE  result = NULL /\ HandleSocket
        BY <2>2, NullIsNoResult
           DEF OneConnection, TestClientNext, ThreadStep, Main, RegisterClientCallback,
               Connect, StartClient, StartClientFails, Greet, Send, SendBlocks, WriteKills, Loop,
               HandleTimers, HandleSockets, HandleEvents, connCallback, ReadBlocks,
               StopClient, ReturnFromCallback, PollAndDispatch, PollEnds, PollReturns,
               PollUndefined, PollBreaks, Dispatch, AcceptFails, AcceptBlocks,
               NobodyToCall, handleClientEvent, handleServerEvent, AcceptWakes,
               AcceptClient, ReadWakes, Outside, TorpRemote, Remote, WriteWakes,
               TimePasses, vars, caller
    <2>3. ASSUME result = NULL, HandleSocket, result' = "closed"
          PROVE  input[clientSocket[current]] = "eof"
        BY <2>3 DEF HandleSocket, ReadClient, ReadSocket, OneConnection
    <2> QED BY <2>1, <2>2, <2>3
<1> QED BY <1>1, <1>2, <1>3, OnePreserved, PTL
        DEF TestClientSpec, ReadsFindWhatWasReported
=============================================================================

--------------------------- MODULE TestServerProofs ---------------------------
(***************************************************************************)
(* test_server.cpp is one of the programs TorpClass describes, so that     *)
(* what is proved of every such program holds for it; and one pass of its  *)
(* loop serves each descriptor at most once.                               *)
(***************************************************************************)
EXTENDS TestServer, TorpClassProofs

\* Every step of the program is a step of the most general program: main and
\* connCallback use the interface as TorpClass assumes.
THEOREM TestServerImplements == TestServerSpec => ImplementsTorpClass
<1>1. TestServerInit => TorpInit
    BY DEF TestServerInit
<1>2. [TestServerNext]_serverVars => [TorpNext]_torpVars
    <2>1. ASSUME Main PROVE TorpNext
        <3>1. StartTheServer \/ RegisterClientCallback => Calls
            BY DEF StartTheServer, Calls
        <3>2. StartTimers => TimerCalls
            BY <2>1 DEF Main, StartTimers, TimerCalls, InProgram, T!Calls
        <3>3. CreateTheTimer => TimerCalls
            BY <2>1 DEF Main, CreateTheTimer, TimerCalls, InProgram, T!Calls
        <3>4. Loop => TorpHandleEvents \/ SocketCalls
            BY DEF Loop, TorpHandleEvents, SocketCalls, Calls
        <3> QED BY <2>1, <3>1, <3>2, <3>3, <3>4 DEF Main, SocketCalls, TorpNext
    <2>2. ASSUME connCallback PROVE TorpNext
        BY <2>2 DEF connCallback, Calls, SocketCalls, TorpNext
    <2>3. PollAndDispatch => TorpNext
        BY DEF PollAndDispatch, TorpHandleEvents, TorpNext
    <2>4. Time \/ TorpRemote => TorpNext
        BY DEF Time, TorpNext
    <2>5. UNCHANGED serverVars => UNCHANGED torpVars
        BY DEF serverVars
    <2> QED BY <2>1, <2>2, <2>3, <2>4, <2>5 DEF TestServerNext, ThreadStep
<1> QED BY <1>1, <1>2, PTL DEF TestServerSpec, ImplementsTorpClass, TorpSpec

\* The safety of the event dispatch carries over to the test server.
THEOREM TestServerDispatchIsSafe ==
    TestServerSpec => [](DispatchTargetsLiveClient /\ CallbackClientIsLive)
BY TestServerImplements, ComposedDispatchIsSafe, PTL DEF ImplementsTorpClass

-----------------------------------------------------------------------------
(* Nothing is used before it is set. *)

\* main sets the two callbacks before its loop; the array is unset only as
\* long as no server listens.
SetInv ==
    /\ main # "loop" => pc = "app" /\ timerPc = "app"
    /\ main # "register" => mClientCallback = "registered"
    /\ main \in {"create", "loop"} => mTimeoutCallback = "registered"
    /\ timerPc # "undefined"
    /\ pc = "undefined" => LiveServers = {}

\* The poller's count is unset only while nothing is open.
LEMMA UnsetMeansNoServer ==
    ASSUME IInv, mNumToPoll = Garbage PROVE LiveServers = {}
<1>1. \A sd \in SOCKETS : mSocketMap[sd] = NULL
    BY DEF IInv, RegistryInv, PollArrayListsRegistry, Registered
<1>2. \A sd \in SOCKETS : kind[sd] # "listening"
    BY <1>1, NullIsNoSocket DEF IInv, RegistryInv, RegistryMatchesSockets, Handlers
<1> QED
    BY <1>2 DEF IInv, TypeOK, OwnerInv, KindsMatchOwners, LiveServers

LEMMA SetPreserved ==
    IInv /\ SetInv /\ [TestServerNext]_serverVars => SetInv'
<1> SUFFICES ASSUME IInv, SetInv, [TestServerNext]_serverVars PROVE SetInv'
    OBVIOUS
<1> USE DEF SetInv
<1>1. CASE Main /\ main # "loop"
    <2>1. CASE main = "register"
        BY <1>1, <2>1
           DEF Main, RegisterClientCallback, timers, platform
    <2>2. CASE main = "start"
        BY <1>1, <2>2
           DEF Main, StartTheServer, StartServer, StartServerFails, timers, platform
    <2>3. CASE main \in {"timers", "create"}
        BY <1>1, <2>3
           DEF Main, StartTimers, CreateTheTimer, T!Start, T!CreateTimer, vars, platform
    <2> QED BY <1>1, <2>1, <2>2, <2>3 DEF Main
<1>2. CASE Main /\ main = "loop"
    <2>1. Loop /\ main' = "loop" /\ pc = "app"
        BY <1>2 DEF Main
    <2>2. mClientCallback' = mClientCallback /\ mTimeoutCallback' = mTimeoutCallback
          /\ timerPc' # "undefined" /\ pc' # "undefined"
        BY <2>1
           DEF Loop, HandleTimers, CallTimer, HandleSockets, HandleEvents, WriteKills,
               T!HandleEvents, T!fired, T!FiringEnds, timers, vars, platform
    <2> QED BY <1>2, <2>1, <2>2
<1>3. CASE connCallback
    <2>1. pc = "callback" /\ pc' # "undefined" /\ UNCHANGED <<timers, main>>
          /\ mClientCallback' = mClientCallback
        BY <1>3
           DEF connCallback, HandleSocket, ReadClient, ReadBlocks, StopClient,
               ClientStop, deleteClient, Send,
               SendBlocks, WriteKills, ReturnFromCallback, NextSlot, platform
    <2> QED BY <2>1 DEF timers
<1>4. CASE PollAndDispatch
    <2>0. main = "loop" /\ main' = "loop"
        BY <1>4
           DEF PollAndDispatch, PollEnds, PollReturns, PollSleeps, PollReports,
               PollTimesOut, PollUndefined, PollBreaks, PollUninitialised, Dispatch,
               SkipSlot, EndPass, AcceptFails, AcceptBlocks, NobodyToCall,
               handleClientEvent, handleServerEvent, AcceptWakes, ReadWakes, Handles,
               Dispatching
    <2>1. CASE PollEnds
        BY <2>0, <2>1
           DEF PollEnds, PollReturns, PollSleeps, PollReports, PollTimesOut,
               TimersChecked, T!checkExpired, T!NoTimeoutCallback
    <2>2. CASE PollUndefined
        <3>1. mTimeoutCallback = "registered" /\ UNCHANGED timers /\ PollBreaks
            BY <2>0, <2>2 DEF PollUndefined, T!NoTimeoutCallback
        <3>2. LiveServers = {}
            BY <3>1, UnsetMeansNoServer DEF PollBreaks, PollUninitialised
        <3> QED
            BY <2>0, <3>1, <3>2
               DEF PollBreaks, PollUninitialised, timers, servers, LiveServers
    <2>3. CASE Dispatch /\ UNCHANGED timers
        <3>1. mClientCallback' = mClientCallback /\ pc' # "undefined"
            BY <2>0, <2>3, GarbageIsNoPointer
               DEF Dispatch, SkipSlot, EndPass, AcceptFails, AcceptBlocks, NobodyToCall,
                   handleClientEvent, handleServerEvent, AcceptWakes, AcceptClient,
                   ReadWakes, ReadClient, NextSlot
        <3> QED BY <2>0, <2>3, <3>1 DEF timers
    <2> QED BY <1>4, <2>1, <2>2, <2>3 DEF PollAndDispatch
<1>5. CASE Time \/ (TorpRemote /\ UNCHANGED <<main, served>>) \/ UNCHANGED serverVars
    BY <1>5
       DEF Time, TimePasses, TorpRemote, Remote, WriteWakes, Ended, Over, serverVars,
           torpVars, timers, vars, platform, servers, LiveServers,
           T!Tick, T!ClockIsSet
<1> QED BY <1>1, <1>2, <1>3, <1>4, <1>5 DEF TestServerNext, ThreadStep

\* Neither the poller nor the manager uses a member before it is set, unless
\* main goes on without the server it could not start.
THEOREM NothingUsedUnset == TestServerSpec => []SetBeforeUsed
<1>1. TestServerSpec => []IInv
    BY TestServerImplements, ConnManagerComposed, IInvariant, PTL
       DEF ImplementsTorpClass, ImplementsConnManager
<1>2. TestServerInit => SetInv
    BY DEF TestServerInit, TorpInit, Init, PlatformInit, T!Init, SetInv
<1>3. SetInv => SetBeforeUsed
    BY DEF SetInv, SetBeforeUsed, Ended, Over
<1> QED BY <1>1, <1>2, <1>3, SetPreserved, PTL DEF TestServerSpec

-----------------------------------------------------------------------------
(* Ascending listings. *)

\* What a listing is, spelled out.
LEMMA Ascending ==
    ASSUME NEW S \in SUBSET SOCKETS, NEW l \in SortedListings(S)
    PROVE  /\ Cardinality(S) \in Nat /\ Len(l) = Cardinality(S)
           /\ DOMAIN l = 1 .. Cardinality(S)
           /\ \A i \in DOMAIN l : l[i] \in S /\ l[i] \in Nat
           /\ \A i, j \in DOMAIN l : i < j => l[i] < l[j]
           /\ \A s \in S : \E i \in DOMAIN l : l[i] = s
BY ListingFits, SocketsAreNumbers DEF SortedListings

LEMMA SlotsAreNumbers ==
    ASSUME NEW S \in SUBSET SOCKETS, NEW l \in SortedListings(S)
    PROVE  \A j \in DOMAIN l : j \in Nat /\ l[j] \in Nat
<1>1. Cardinality(S) \in Nat /\ DOMAIN l = 1 .. Cardinality(S)
    BY Ascending
<1>2. \A j \in DOMAIN l : l[j] \in Nat
    BY Ascending
<1> QED BY <1>1, <1>2

\* The lowest element of a set is listed first, and every other one after it.
LEMMA LowestFirst ==
    ASSUME NEW S \in SUBSET SOCKETS, NEW l \in SortedListings(S),
           NEW low \in S, \A s \in S : low <= s
    PROVE  \A j \in DOMAIN l : (j > 1 => low < l[j]) /\ (l[j] = low => j = 1)
<1>1. PICK i \in DOMAIN l : l[i] = low
    BY Ascending
<1>2. i = 1
    <2> SUFFICES ASSUME i > 1 PROVE FALSE
        BY <1>1, Ascending
    <2>1. 1 \in DOMAIN l /\ l[1] < l[i] /\ l[1] \in S /\ l[1] \in Nat
        BY Ascending
    <2> QED BY <1>1, <2>1, SocketsAreNumbers
<1> QED BY <1>1, <1>2, Ascending

\* When the element of a slot is taken out, what is listed from that slot on is
\* higher: there are not enough lower elements to fill the slots before it.
LEMMA HigherMoveDown ==
    ASSUME NEW S \in SUBSET SOCKETS, NEW l \in SortedListings(S),
           NEW n \in DOMAIN l, NEW m \in SortedListings(S \ {l[n]}),
           NEW j \in DOMAIN m, j >= n
    PROVE  l[n] < m[j]
<1> DEFINE R == S \ {l[n]}
<1>1. /\ DOMAIN l = 1 .. Cardinality(S) /\ Cardinality(S) \in Nat
      /\ \A i \in DOMAIN l : l[i] \in S /\ l[i] \in Nat
      /\ \A i, k \in DOMAIN l : i < k => l[i] < l[k]
      /\ \A s \in S : \E i \in DOMAIN l : l[i] = s
    BY Ascending
<1>2. /\ DOMAIN m = 1 .. Cardinality(R) /\ Cardinality(R) \in Nat
      /\ \A i \in DOMAIN m : m[i] \in R /\ m[i] \in Nat
      /\ \A i, k \in DOMAIN m : i < k => m[i] < m[k]
    <2>1. R \in SUBSET SOCKETS /\ m \in SortedListings(R)
        OBVIOUS
    <2> HIDE DEF R
    <2> QED BY <2>1, Ascending
<1>3. n \in Nat /\ n >= 1 /\ l[n] \in Nat
    BY <1>1
<1>4. /\ \A i \in DOMAIN m : m[i] \in S /\ m[i] # l[n]
      /\ j \in Nat /\ m[j] \in Nat /\ m[j] # l[n]
    <2>1. \A i \in DOMAIN m : m[i] \in S /\ m[i] # l[n]
        BY <1>2
    <2> HIDE DEF R
    <2>2. j \in Nat /\ m[j] \in Nat
        BY <1>2
    <2> QED BY <2>1, <2>2
<1> HIDE DEF R
<1>5. SUFFICES ASSUME m[j] < l[n] PROVE FALSE
    BY <1>3, <1>4
<1>6. ASSUME NEW i \in 1 .. n PROVE i \in DOMAIN m /\ m[i] < l[n]
    <2>1. i \in DOMAIN m /\ (i < j \/ i = j)
        BY <1>2, <1>3, <1>4
    <2>2. m[i] \in Nat /\ (m[i] < m[j] \/ m[i] = m[j])
        BY <1>2, <2>1
    <2> QED BY <1>3, <1>4, <1>5, <2>1, <2>2
<1> DEFINE f == [i \in 1 .. n |-> CHOOSE k \in DOMAIN l : l[k] = m[i]]
<1>7. ASSUME NEW i \in 1 .. n PROVE f[i] \in 1 .. n - 1 /\ l[f[i]] = m[i]
    <2>1. f[i] \in DOMAIN l /\ l[f[i]] = m[i]
        <3>1. \E k \in DOMAIN l : l[k] = m[i]
            BY <1>1, <1>4, <1>6
        <3> QED BY <3>1
    <2>2. f[i] < n
        <3> HIDE DEF f
        <3>1. CASE f[i] = n
            BY <1>3, <1>6, <2>1, <3>1
        <3>2. CASE n < f[i]
            <4>1. l[n] < l[f[i]]
                BY <1>1, <2>1, <3>2
            <4>2. l[f[i]] < l[n] /\ l[f[i]] \in Nat
                BY <1>1, <1>6, <2>1
            <4> QED BY <1>3, <4>1, <4>2
        <3>3. f[i] \in Nat
            BY <1>1, <2>1
        <3> QED BY <1>3, <3>1, <3>2, <3>3
    <2>3. f[i] \in Nat /\ f[i] >= 1
        BY <1>1, <2>1
    <2> HIDE DEF f
    <2> QED BY <1>3, <2>1, <2>2, <2>3
<1>8. f \in [1 .. n -> 1 .. n - 1]
    BY <1>7
<1>9. /\ IsFiniteSet(1 .. n) /\ IsFiniteSet(1 .. n - 1)
      /\ Cardinality(1 .. n - 1) < Cardinality(1 .. n)
    <2>1. n - 1 \in Nat /\ n - 1 < n
        BY <1>3
    <2>2. IsFiniteSet(1 .. n) /\ Cardinality(1 .. n) = n
        BY <1>3, FS_Interval
    <2>3. IsFiniteSet(1 .. n - 1) /\ Cardinality(1 .. n - 1) = n - 1
        BY <1>3, <2>1, FS_Interval
    <2> QED BY <2>1, <2>2, <2>3
<1> HIDE DEF f
<1>10. PICK x, y \in 1 .. n : x # y /\ f[x] = f[y]
    BY <1>8, <1>9, FS_PigeonHole
<1>11. m[x] = m[y] /\ x \in DOMAIN m /\ y \in DOMAIN m
    BY <1>6, <1>7, <1>10
<1>12. x \in Nat /\ y \in Nat /\ (x < y \/ y < x)
    BY <1>10
<1>13. m[x] \in Nat /\ (m[x] < m[y] \/ m[y] < m[x])
    BY <1>2, <1>11, <1>12
<1> QED BY <1>11, <1>13

-----------------------------------------------------------------------------
(* No descriptor is served twice in a pass. *)

\* The slots from n on list descriptors above those that were served.
Ahead(n) == \A k \in DOMAIN mPollFD, s \in served : k >= n => s < mPollFD[k]

InCallback == {"callback", "reading", "writing"}

\* Clients are above the one listening socket, which was opened first; a pass
\* serves upwards; and what is served last is the slot the loop is at, until
\* its client is stopped.
ServedInv ==
    /\ served \subseteq SOCKETS
    /\ next \in Nat \ {0}
    /\ main \in {"register", "start"} => pc = "app" /\ OpenSockets = {}
    /\ \A s, t \in SOCKETS : kind[s] = "listening" => s <= t
    /\ pc = "polling" => served = {}
    /\ pc = "pass" => Ahead(next)
    /\ pc \in InCallback \cup {"accepting"} => Ahead(next + 1)
    /\ pc \in InCallback /\ current # NULL =>
          /\ next \in DOMAIN mPollFD
          /\ mPollFD[next] = clientSocket[current]
          /\ \A s \in served : s <= mPollFD[next]
    /\ pc = "accepting" =>
          /\ next = 1 /\ next \in DOMAIN mPollFD
          /\ kind[mPollFD[next]] = "listening"
          /\ served = {mPollFD[next]}

\* In a pass the array lists the registered descriptors.
LEMMA Listed ==
    ASSUME IInv, pc \in InPass
    PROVE  /\ mPollFD \in SortedListings(Registered(mSocketMap))
           /\ mNumToPoll = Len(mPollFD)
           /\ Registered(mSocketMap) \subseteq SOCKETS
BY DEF IInv, PassInv, RegistryInv, PollArrayListsRegistry, Registered

LEMMA ServedInitially == TestServerInit => ServedInv
BY DEF TestServerInit, TorpInit, Init, PlatformInit, SocketsInit, OpenSockets,
       ServedInv, InCallback

LEMMA MainKeepsOrder == ASSUME IInv, ServedInv, Main PROVE ServedInv'
<1> USE DEF ServedInv, InCallback
<1>1. pc = "app" /\ served' = {}
    BY DEF Main
<1>2. CASE main = "start" /\ StartTheServer
    <2>1. ASSUME NEW s \in SERVERS, StartServerFails(s) PROVE ServedInv'
        <3>1. kind' = kind /\ UNCHANGED platform /\ main' = "timers"
            BY <1>2, <2>1, ServerStartFailed DEF StartServerFails, Main
        <3> QED BY <1>1, <1>2, <3>1 DEF platform, OpenSockets
    <2>2. ASSUME NEW s \in SERVERS, NEW fd \in SOCKETS, StartServer(s, fd)
          PROVE  ServedInv'
        <3>1. kind' = [kind EXCEPT ![fd] = "listening"] /\ Lowest(fd)
            BY <2>2 DEF StartServer, ServerStart, openSocket
        <3>2. \A t \in SOCKETS : fd <= t
            BY <1>2, <3>1 DEF Lowest
        <3>3. \A t \in SOCKETS : kind'[t] = "listening" => t = fd
            BY <1>2, <3>1 DEF OpenSockets, IInv, TypeOK, SocketsTypeOK
        <3>4. pc' = pc /\ next' = next /\ main' = "timers"
            BY <1>2, <2>2 DEF StartServer, Main
        <3> QED BY <1>1, <3>2, <3>3, <3>4 DEF Ahead
    <2> QED BY <1>2, <2>1, <2>2 DEF StartTheServer
<1>3. CASE main = "register" /\ RegisterClientCallback /\ main' = "start"
    BY <1>1, <1>3 DEF RegisterClientCallback, sockets, platform, OpenSockets
<1>4. ASSUME main \in {"timers", "create", "loop"}, main' \in {"create", "loop"},
             StartTimers \/ CreateTheTimer \/ Loop
      PROVE  ServedInv'
    <2>1. kind' = kind /\ next' = next /\ pc' \in {"app", "polling", "killed"}
        BY <1>1, <1>4 DEF StartTimers, CreateTheTimer, Loop, HandleTimers, CallTimer,
            HandleSockets, HandleEvents, CollectError, WriteKills, vars, sockets, platform
    <2> QED BY <1>1, <1>4, <2>1
<1> QED BY <1>2, <1>3, <1>4 DEF Main

\* Steps that leave the array, the clients and the slot of the loop alone.
LEMMA SlotKept ==
    ASSUME ServedInv,
           UNCHANGED <<kind, mPollFD, next, clientSocket, current, served, main>>,
           \/ pc' = pc
           \/ pc # "app" /\ pc' \in {"app", "killed", "undefined"}
           \/ pc \in InCallback /\ pc' \in InCallback
    PROVE  ServedInv'
<1>1. /\ UNCHANGED OpenSockets
      /\ \A n \in Nat : Ahead(n) => Ahead(n)'
    BY DEF OpenSockets, Ahead
<1>2. next \in Nat /\ next + 1 \in Nat
    BY DEF ServedInv
<1> QED BY <1>1, <1>2 DEF ServedInv, InCallback

\* Once the client of the callback is stopped, the loop goes on above it.
LEMMA StopKeepsOrder ==
    ASSUME IInv, ServedInv, pc = "callback", NEW c \in CLIENTS, c = current,
           StopClient(c), UNCHANGED <<main, served>>
    PROVE  ServedInv'
<1> DEFINE sd == mPollFD[next]
<1>1. /\ current # NULL /\ next \in DOMAIN mPollFD /\ sd = clientSocket[c]
      /\ \A s \in served : s <= sd
      /\ served \subseteq SOCKETS /\ next \in Nat \ {0}
    BY NullIsNoObject DEF ServedInv, InCallback
<1>2. /\ mPollFD \in SortedListings(Registered(mSocketMap))
      /\ Registered(mSocketMap) \subseteq SOCKETS
    BY Listed DEF InPass
<1>3. sd \in Registered(mSocketMap) /\ sd \in Nat
    BY <1>1, <1>2, Ascending
<1>4. /\ mSocketMap' = [mSocketMap EXCEPT ![sd] = NULL]
      /\ mPollFD' \in SortedListings(Registered(mSocketMap'))
    BY <1>1, <1>3 DEF StopClient, ClientStop, deleteClient, RemoveSocketFromPolling, rebuildPollStruct, Registered
<1>5. Registered(mSocketMap') = Registered(mSocketMap) \ {sd}
    BY <1>3, <1>4 DEF Registered, IInv, TypeOK, PlatformTypeOK
<1>6. \A j \in DOMAIN mPollFD' : j >= next => sd < mPollFD'[j]
    BY <1>1, <1>2, <1>4, <1>5, HigherMoveDown
<1>7. \A j \in DOMAIN mPollFD' : j \in Nat /\ mPollFD'[j] \in Nat
    <2>1. Registered(mSocketMap') \in SUBSET SOCKETS
        BY <1>2, <1>5
    <2> QED BY <1>4, <2>1, SlotsAreNumbers
<1>8. Ahead(next + 1)'
    <2> SUFFICES ASSUME NEW k \in DOMAIN mPollFD', NEW s \in served, k >= next + 1
                 PROVE  s < mPollFD'[k]
        BY DEF Ahead, StopClient, deleteClient
    <2>1. s \in Nat /\ s <= sd
        BY <1>1, SocketsAreNumbers
    <2>2. k >= next
        BY <1>1, <1>7
    <2>3. sd < mPollFD'[k] /\ mPollFD'[k] \in Nat
        BY <1>6, <1>7, <2>2
    <2> HIDE DEF sd
    <2> QED BY <1>3, <2>1, <2>3
<1>9. /\ kind' = [kind EXCEPT ![sd] = "closed"]
      /\ pc' = pc /\ next' = next /\ current' = NULL
    BY <1>1 DEF StopClient, ClientStop, deleteClient, CloseSocket
<1>10. \A t \in SOCKETS : kind'[t] = "listening" => kind[t] = "listening"
    BY <1>9 DEF IInv, TypeOK, SocketsTypeOK
<1> QED BY <1>1, <1>8, <1>9, <1>10 DEF ServedInv, InCallback

LEMMA CallbackKeepsOrder ==
    ASSUME IInv, ServedInv, connCallback PROVE ServedInv'
<1>1. pc = "callback" /\ UNCHANGED <<main, served>>
    BY DEF connCallback
<1>2. CASE \/ HandleSocket \/ ReadBlocks \/ WriteKills
           \/ \E c \in CLIENTS : Send(c) \/ SendBlocks(c)
    BY <1>1, <1>2, SlotKept
       DEF HandleSocket, ReadClient, ReadSocket, ReadBlocks, WriteKills, Send, SendBlocks,
           CollectError, sockets, platform, registry, clients, caller, InCallback
<1>3. ASSUME NEW c \in CLIENTS, c = current, StopClient(c) PROVE ServedInv'
    BY <1>1, <1>3, StopKeepsOrder
<1>4. CASE ReturnFromCallback
    BY <1>1, <1>4
       DEF ReturnFromCallback, NextSlot, ServedInv, InCallback, Ahead, sockets,
           registry
<1> QED BY <1>2, <1>3, <1>4 DEF connCallback

\* What the loop serves next is above all that it served.
LEMMA NextIsHigher ==
    ASSUME IInv, ServedInv, Dispatching
    PROVE  /\ next \in DOMAIN mPollFD
           /\ mPollFD[next] \in Registered(mSocketMap)
           /\ \A s \in served : s < mPollFD[next]
           /\ \A k \in DOMAIN mPollFD, s \in served \cup {mPollFD[next]} :
                 k >= next + 1 => s < mPollFD[k]
<1>1. /\ mPollFD \in SortedListings(Registered(mSocketMap))
      /\ mNumToPoll = Len(mPollFD)
      /\ Registered(mSocketMap) \subseteq SOCKETS
    BY Listed DEF Dispatching, InPass
<1>2. /\ DOMAIN mPollFD = 1 .. mNumToPoll /\ mNumToPoll \in Nat
      /\ \A i \in DOMAIN mPollFD : mPollFD[i] \in Registered(mSocketMap)
      /\ \A i, j \in DOMAIN mPollFD : i < j => mPollFD[i] < mPollFD[j]
    BY <1>1, Ascending
<1>3. next \in Nat \ {0} /\ next <= mNumToPoll /\ Ahead(next)
    BY DEF Dispatching, ServedInv
<1>4. next \in DOMAIN mPollFD
    BY <1>2, <1>3
<1>5. \A k \in DOMAIN mPollFD : k >= next + 1 => k >= next /\ next < k
    BY <1>2, <1>3
<1> QED BY <1>2, <1>3, <1>4, <1>5 DEF Ahead

\* The listening socket is the first that a pass serves.
LEMMA ListenerComesFirst ==
    ASSUME IInv, ServedInv, Dispatching, kind[mPollFD[next]] = "listening"
    PROVE  next = 1 /\ served = {}
<1> DEFINE sd == mPollFD[next]
<1>1. /\ mPollFD \in SortedListings(Registered(mSocketMap))
      /\ Registered(mSocketMap) \subseteq SOCKETS
    BY Listed DEF Dispatching, InPass
<1>2. next \in DOMAIN mPollFD /\ sd \in Registered(mSocketMap)
      /\ \A s \in served : s < sd
    BY NextIsHigher
<1>3. sd \in SOCKETS /\ \A t \in SOCKETS : sd <= t
    BY <1>1, <1>2 DEF ServedInv
<1>4. next = 1
    BY <1>1, <1>2, <1>3, LowestFirst
<1>5. ASSUME NEW s \in served PROVE FALSE
    <2>1. s \in SOCKETS /\ s < sd /\ sd <= s
        BY <1>2, <1>3 DEF ServedInv
    <2> HIDE DEF sd
    <2> QED BY <1>3, <2>1, SocketsAreNumbers
<1> QED BY <1>4, <1>5

\* A client that is accepted goes behind the listening socket.
LEMMA AcceptKeepsOrder ==
    ASSUME IInv, ServedInv, pc \in InPass, NEW sd \in SOCKETS, NEW fd \in SOCKETS,
           NEW c \in CLIENTS, AcceptClient(sd, fd, c), next = 1,
           kind[sd] = "listening", served' = {sd}, UNCHANGED main
    PROVE  ServedInv'
<1>1. /\ Lowest(fd) /\ kind' = [kind EXCEPT ![fd] = "connected"]
      /\ AddSocketForPolling(fd, "clientSocketCallback")
      /\ pc' = "pass" /\ next' = 2
    BY DEF AcceptClient, AcceptSocket, adoptClient, NextSlot
<1>2. kind[fd] = "closed" /\ fd # sd
    BY <1>1 DEF Lowest, OpenSockets
<1>3. mSocketMap[fd] = NULL /\ mSocketMap[sd] # NULL
    BY <1>2, NullIsNoSocket DEF IInv, RegistryInv, RegistryMatchesSockets, Handlers
<1>4. /\ mSocketMap' = [mSocketMap EXCEPT ![fd] = "clientSocketCallback"]
      /\ mPollFD' \in SortedListings(Registered(mSocketMap'))
    BY <1>1, <1>3 DEF AddSocketForPolling, rebuildPollStruct
<1>5. sd \in Registered(mSocketMap') /\ Registered(mSocketMap') \in SUBSET SOCKETS
    BY <1>2, <1>3, <1>4 DEF Registered, IInv, TypeOK, PlatformTypeOK
<1>6. \A s \in Registered(mSocketMap') : sd <= s
    BY <1>5 DEF ServedInv
<1>7. \A j \in DOMAIN mPollFD' : j > 1 => sd < mPollFD'[j]
    BY <1>4, <1>5, <1>6, LowestFirst
<1>8. \A j \in DOMAIN mPollFD' : j \in Nat
    BY <1>4, <1>5, SlotsAreNumbers
<1>9. Ahead(next)'
    BY <1>1, <1>7, <1>8 DEF Ahead
<1>10. \A t \in SOCKETS : kind'[t] = "listening" => kind[t] = "listening"
    BY <1>1 DEF IInv, TypeOK, SocketsTypeOK
<1> QED BY <1>1, <1>9, <1>10 DEF ServedInv, InCallback, InPass

LEMMA DispatchKeepsOrder ==
    ASSUME IInv, ServedInv, Dispatch, UNCHANGED main,
           served' = IF Dispatching THEN served \cup {mPollFD[next]} ELSE served
    PROVE  ServedInv'
<1> DEFINE sd == mPollFD[next]
<1>1. /\ pc \in InPass /\ main \notin {"register", "start"}
      /\ next \in Nat \ {0} /\ next + 1 \in Nat \ {0}
    BY DEF Dispatch, SkipSlot, EndPass, AcceptFails, AcceptBlocks, NobodyToCall,
           handleClientEvent, handleServerEvent, AcceptWakes, ReadWakes, Handles,
           Dispatching, InPass, ServedInv
<1>2. ASSUME Dispatching
      PROVE  /\ next \in DOMAIN mPollFD /\ sd \in SOCKETS
             /\ served' = served \cup {sd} /\ served' \subseteq SOCKETS
             /\ \A s \in served' : s <= sd
             /\ \A k \in DOMAIN mPollFD, s \in served' : k >= next + 1 => s < mPollFD[k]
    <2>1. /\ next \in DOMAIN mPollFD /\ sd \in Registered(mSocketMap)
          /\ served' = served \cup {sd}
          /\ \A s \in served : s < sd
          /\ \A k \in DOMAIN mPollFD, s \in served' : k >= next + 1 => s < mPollFD[k]
        BY <1>2, NextIsHigher
    <2>2. sd \in SOCKETS /\ served' \subseteq SOCKETS
        BY <2>1 DEF Registered, ServedInv
    <2> HIDE DEF sd
    <2>3. \A s \in served' : s <= sd
        BY <2>1, <2>2, SocketsAreNumbers
    <2> QED BY <2>1, <2>2, <2>3
<1>3. CASE SkipSlot /\ UNCHANGED <<sockets, clients, servers, mClientCallback, caller>>
    <2>1. served' = served /\ next' = next + 1 /\ mPollFD' = mPollFD
          /\ pc = "pass" /\ pc' = "pass" /\ kind' = kind
        BY <1>3 DEF SkipSlot, Dispatching, registry, sockets
    <2>2. \A k \in DOMAIN mPollFD : k >= next + 1 => k >= next
        <3>1. \A k \in DOMAIN mPollFD : k \in Nat
            BY Listed, <1>1, SlotsAreNumbers
        <3> QED BY <1>1, <3>1
    <2> QED BY <1>1, <2>1, <2>2 DEF ServedInv, InCallback, Ahead
<1>4. CASE EndPass /\ UNCHANGED <<sockets, clients, servers, mClientCallback, caller>>
    BY <1>1, <1>2, <1>4 DEF EndPass, ServedInv, InCallback, sockets
<1>5. ASSUME NEW d \in SOCKETS, AcceptFails(d) \/ NobodyToCall(d) PROVE ServedInv'
    BY <1>1, <1>2, <1>5
       DEF AcceptFails, NobodyToCall, Handles, NextSlot, ServedInv, InCallback, Ahead,
           sockets, registry
<1>6. ASSUME NEW d \in SOCKETS, AcceptBlocks(d) PROVE ServedInv'
    <2>1. /\ Dispatching /\ d = sd /\ mSocketMap[d] = "serverSocketCallback"
          /\ UNCHANGED <<kind, mPollFD, next>> /\ pc' = "accepting"
        BY <1>6 DEF AcceptBlocks, Handles, sockets, registry
    <2>2. kind[sd] = "listening"
        BY <2>1, NullIsNoSocket
           DEF IInv, RegistryInv, RegistryMatchesSockets, Handlers
    <2>3. next = 1 /\ served = {}
        BY <2>1, <2>2, ListenerComesFirst
    <2>4. served' = {sd}
        BY <1>2, <2>1, <2>3
    <2> QED BY <1>1, <1>2, <2>1, <2>2, <2>3, <2>4 DEF ServedInv, InCallback, Ahead
<1>7. ASSUME NEW d \in SOCKETS, handleClientEvent(d) PROVE ServedInv'
    <2>1. /\ Dispatching /\ d = sd /\ mSocketMap[d] = "clientSocketCallback"
          /\ UNCHANGED <<kind, mPollFD, next, clientSocket>>
          /\ pc' \in {"callback", "undefined"} /\ current' = mClientSockets[d]
        BY <1>7 DEF handleClientEvent, Handles, sockets, registry, clients
    <2>2. clientSocket[current'] = sd
        BY <2>1 DEF IInv, OwnerInv, DispatchTargetsLiveClient
    <2> QED BY <1>1, <1>2, <2>1, <2>2 DEF ServedInv, InCallback, Ahead
<1>8. ASSUME NEW d \in SOCKETS, NEW fd \in SOCKETS, NEW c \in CLIENTS,
             handleServerEvent(d, fd, c)
      PROVE  ServedInv'
    <2>1. /\ Dispatching /\ d = sd /\ mSocketMap[d] = "serverSocketCallback"
          /\ AcceptClient(d, fd, c)
        BY <1>8 DEF handleServerEvent, Handles
    <2>2. kind[sd] = "listening"
        BY <2>1, NullIsNoSocket
           DEF IInv, RegistryInv, RegistryMatchesSockets, Handlers
    <2>3. next = 1 /\ served' = {sd}
        BY <1>2, <2>1, <2>2, ListenerComesFirst
    <2> QED BY <1>1, <2>1, <2>2, <2>3, AcceptKeepsOrder
<1>9. ASSUME NEW d \in SOCKETS, NEW fd \in SOCKETS, NEW c \in CLIENTS,
             AcceptWakes(d, fd, c)
      PROVE  ServedInv'
    <2>1. /\ d = sd /\ next = 1 /\ kind[sd] = "listening" /\ served' = {sd}
          /\ AcceptClient(d, fd, c)
        BY <1>9 DEF AcceptWakes, ServedInv, Dispatching
    <2> QED BY <1>1, <2>1, AcceptKeepsOrder
<1>10. CASE ReadWakes
    BY <1>10, SlotKept
       DEF ReadWakes, ReadClient, ReadSocket, Dispatching, InCallback, registry, clients
<1> QED BY <1>3, <1>4, <1>5, <1>6, <1>7, <1>8, <1>9, <1>10 DEF Dispatch

LEMMA OrderPreserved == IInv /\ ServedInv /\ [TestServerNext]_serverVars => ServedInv'
<1> SUFFICES ASSUME IInv, ServedInv, [TestServerNext]_serverVars PROVE ServedInv'
    OBVIOUS
<1>1. CASE PollAndDispatch
    <2>1. CASE PollEnds
        <3>1. /\ pc = "polling" /\ UNCHANGED <<kind, main>> /\ served' = {}
              /\ \/ pc' = "app" /\ next' = next
                 \/ pc' = "pass" /\ next' = 1
            BY <1>1, <2>1
               DEF PollAndDispatch, PollEnds, PollReturns, PollSleeps, PollReports,
                   PollTimesOut, Dispatching, ServedInv, sockets
        <3> QED BY <3>1 DEF ServedInv, InCallback, Ahead
    <2>2. CASE PollUndefined
        BY <1>1, <2>2, SlotKept
           DEF PollAndDispatch, PollUndefined, PollBreaks, PollUninitialised,
               Dispatching, sockets, platform, registry, clients, caller, vars
    <2>3. CASE Dispatch
        BY <1>1, <2>3, DispatchKeepsOrder DEF PollAndDispatch
    <2> QED BY <1>1, <2>1, <2>2, <2>3 DEF PollAndDispatch
<1>2. CASE TorpRemote /\ UNCHANGED <<main, served>>
    BY <1>2, SlotKept
       DEF TorpRemote, Remote, WriteWakes, RemoteConnects, RemoteSends, RemoteCloses,
           RemoteResets, Arrives, InCallback, sockets, platform, registry, clients, caller
<1>3. CASE Time \/ UNCHANGED serverVars
    BY <1>3, SlotKept
       DEF Time, TimePasses, serverVars, torpVars, vars, sockets, platform, clients, caller
<1> QED BY <1>1, <1>2, <1>3, MainKeepsOrder, CallbackKeepsOrder
        DEF TestServerNext, ThreadStep

\* One pass calls a descriptor back at most once: the array is ascending, what
\* an accept adds is above the listening socket, and what a stopped client
\* leaves to the slots ahead was above its descriptor.
THEOREM EachDescriptorOnce == TestServerSpec => NoDescriptorServedTwice
<1>1. TestServerSpec => []IInv
    BY TestServerImplements, ConnManagerComposed, IInvariant, PTL
       DEF ImplementsTorpClass, ImplementsConnManager
<1>2. IInv /\ ServedInv => (Dispatching /\ Dispatch => mPollFD[next] \notin served)
    <2> SUFFICES ASSUME IInv, ServedInv, Dispatching PROVE mPollFD[next] \notin served
        OBVIOUS
    <2>1. /\ mPollFD[next] \in Registered(mSocketMap)
          /\ \A s \in served : s < mPollFD[next]
        BY NextIsHigher
    <2>2. mPollFD[next] \in Nat
        BY <2>1, SocketsAreNumbers DEF Registered
    <2> QED BY <2>1, <2>2
<1> QED BY <1>1, <1>2, ServedInitially, OrderPreserved, PTL
        DEF TestServerSpec, NoDescriptorServedTwice

\* The state is well typed.
THEOREM TestServerTypeCorrect == TestServerSpec => []TestServerTypeOK
<1> DEFINE MainOK == main \in {"register", "start", "timers", "create", "loop"}
<1>1. TestServerInit => MainOK
    BY DEF TestServerInit
<1>2. MainOK /\ [TestServerNext]_serverVars => MainOK'
    BY DEF TestServerNext, ThreadStep, Main, connCallback, PollAndDispatch, Time,
           serverVars
<1>3. TestServerSpec => []IInv
    BY TestServerImplements, ConnManagerComposed, IInvariant, PTL
       DEF ImplementsTorpClass, ImplementsConnManager
<1>4. TestServerSpec => []TorpTypeOK
    BY TestServerImplements, TorpTypeCorrect, PTL DEF ImplementsTorpClass
<1>5. ServedInv /\ MainOK /\ TorpTypeOK => TestServerTypeOK
    BY DEF ServedInv, TestServerTypeOK
<1> QED BY <1>1, <1>2, <1>3, <1>4, <1>5, ServedInitially, OrderPreserved, PTL
        DEF TestServerSpec

-----------------------------------------------------------------------------
(* No healthy client is stopped. *)

\* The server makes no connections, what it accepts is blocking, and its
\* callback is told "closed" of a stream that has ended only.
AcceptedOnly ==
    \A sd \in SOCKETS : /\ kind[sd] # "refused"
                        /\ kind[sd] = "connected" => ~nonblock[sd]

HealthyInv ==
    /\ AcceptedOnly
    /\ result = "closed" /\ current # NULL => input[clientSocket[current]] = "eof"

\* An end of stream is for ever, as long as the descriptor stays open.
EndStays ==
    /\ result' = "closed" => result = "closed"
    /\ current' # NULL => current' = current
    /\ current # NULL => clientSocket'[current] = clientSocket[current]
    /\ \A sd \in SOCKETS :
          input[sd] = "eof" /\ kind[sd] # "closed" => input'[sd] = "eof"

LEMMA EndStaysSeen ==
    ASSUME IInv, HealthyInv, EndStays, AcceptedOnly' PROVE HealthyInv'
<1>1. current # NULL => clientSocket[current] \in SOCKETS
                        /\ kind[clientSocket[current]] # "closed"
    BY DEF IInv, CallbackClientIsLive, LiveClients, TypeOK
<1> QED BY <1>1 DEF HealthyInv, EndStays

\* A socket that is opened or accepted touches no descriptor that is open.
LEMMA OpenedHealthy ==
    ASSUME IInv, HealthyInv, NEW fd \in SOCKETS, kind[fd] = "closed",
           NEW k \in {"listening", "connected"}, NEW nb \in BOOLEAN,
           k = "connected" => ~nb,
           kind' = [kind EXCEPT ![fd] = k],
           nonblock' = [nonblock EXCEPT ![fd] = nb],
           \A sd \in SOCKETS \ {fd} : input[sd] = "eof" => input'[sd] = "eof",
           UNCHANGED <<result, current>>,
           \A c \in LiveClients : clientSocket'[c] = clientSocket[c]
    PROVE  HealthyInv'
<1>1. kind \in [SOCKETS -> Kinds] /\ nonblock \in [SOCKETS -> BOOLEAN]
    BY DEF IInv, TypeOK, SocketsTypeOK
<1>2. AcceptedOnly'
    BY <1>1 DEF HealthyInv, AcceptedOnly
<1>3. current # NULL => current \in LiveClients
    BY DEF IInv, CallbackClientIsLive
<1> QED BY <1>2, <1>3, EndStaysSeen DEF EndStays

\* A blocking socket with nothing to read is not read: "closed" means the end.
LEMMA ReadHealthy == ASSUME IInv, HealthyInv, ReadClient PROVE HealthyInv'
<1> DEFINE sd == clientSocket[current]
<1>1. /\ UNCHANGED <<kind, nonblock, current, clientSocket>>
      /\ AcceptedOnly'
    BY DEF ReadClient, ReadSocket, HealthyInv, AcceptedOnly, clients
<1>2. ASSUME current # NULL, result' = "closed" PROVE input'[sd] = "eof"
    <2>1. sd \in SOCKETS /\ kind[sd] = "connected"
        BY <1>2 DEF IInv, CallbackClientIsLive, LiveClients, TypeOK, HealthyInv, AcceptedOnly
    <2>2. ReadSocket(sd, "none")
        BY <1>2 DEF ReadClient
    <2> QED BY <2>1, <2>2 DEF ReadSocket, HealthyInv, AcceptedOnly
<1> QED BY <1>1, <1>2 DEF HealthyInv

\* Steps that leave the sockets alone.
LEMMA SocketsKeptHealthy ==
    ASSUME IInv, HealthyInv, UNCHANGED <<kind, nonblock, clientSocket>>,
           input' = input \/ \E sds \in SUBSET SOCKETS : CollectError(sds),
           /\ result' = "closed" => result = "closed"
           /\ current' # NULL => current' = current
    PROVE  HealthyInv'
<1>1. AcceptedOnly'
    BY DEF HealthyInv, AcceptedOnly
<1> QED BY <1>1, EndStaysSeen DEF EndStays, CollectError

LEMMA CallbackHealthy == ASSUME IInv, HealthyInv, connCallback PROVE HealthyInv'
<1>1. pc = "callback"
    BY DEF connCallback
<1>2. CASE HandleSocket
    BY <1>2, ReadHealthy DEF HandleSocket
<1>3. CASE ReadBlocks \/ WriteKills \/ ReturnFromCallback \/ \E c \in CLIENTS : SendBlocks(c)
    BY <1>1, <1>3, SocketsKeptHealthy, NullIsNoResult
       DEF ReadBlocks, WriteKills, ReturnFromCallback, SendBlocks, sockets, clients, caller
<1>4. ASSUME NEW c \in CLIENTS, Send(c) PROVE HealthyInv'
    <2>1. UNCHANGED <<kind, nonblock, clientSocket, current>> /\ result' = "sent"
          /\ CollectError({clientSocket[c]})
        BY <1>1, <1>4 DEF Send, CollectError, clients
    <2>2. clientSocket[c] \in SOCKETS
        BY <1>4 DEF Send, LiveClients, IInv, TypeOK
    <2> QED BY <2>1, <2>2, SocketsKeptHealthy
<1>5. ASSUME NEW c \in CLIENTS, c = current, StopClient(c) PROVE HealthyInv'
    <2>1. /\ kind' = [kind EXCEPT ![clientSocket[c]] = "closed"]
          /\ nonblock' = [nonblock EXCEPT ![clientSocket[c]] = FALSE]
          /\ current' = NULL
        BY <1>5 DEF StopClient, ClientStop, deleteClient, CloseSocket
    <2>2. AcceptedOnly'
        BY <2>1 DEF HealthyInv, AcceptedOnly, IInv, TypeOK, SocketsTypeOK
    <2> QED BY <2>1, <2>2 DEF HealthyInv
<1> QED BY <1>2, <1>3, <1>4, <1>5 DEF connCallback

\* The undo of a start that failed touches no descriptor that is open.
LEMMA FailedStartHealthy ==
    ASSUME IInv, HealthyInv, NEW s \in SERVERS, StartServerFails(s) PROVE HealthyInv'
<1>1. /\ kind' = kind /\ UNCHANGED <<clientSocket, current, result>>
      /\ kind \in [SOCKETS -> Kinds] /\ nonblock \in [SOCKETS -> BOOLEAN]
      /\ input \in [SOCKETS -> Inputs]
    BY ServerStartFailed
       DEF StartServerFails, clients, caller, IInv, TypeOK, SocketsTypeOK
<1>2. \A sd \in SOCKETS : kind[sd] # "closed" =>
          nonblock'[sd] = nonblock[sd] /\ input'[sd] = input[sd]
    BY <1>1 DEF StartServerFails, ServerStartFails, CloseSocket, Lowest, OpenSockets, sockets
<1>3. AcceptedOnly'
    BY <1>1, <1>2 DEF HealthyInv, AcceptedOnly
<1> QED BY <1>1, <1>2, <1>3, EndStaysSeen DEF EndStays

LEMMA MainHealthy == ASSUME IInv, HealthyInv, Main PROVE HealthyInv'
<1>1. pc = "app"
    BY DEF Main
<1>2. ASSUME NEW s \in SERVERS, NEW fd \in SOCKETS, StartServer(s, fd)
      PROVE  HealthyInv'
    <2>1. PICK nb \in BOOLEAN : openSocket(fd, "listening", nb, "empty")
        BY <1>2 DEF StartServer, ServerStart
    <2>2. kind[fd] = "closed" /\ UNCHANGED <<result, current, clientSocket>>
        BY <1>2, <2>1 DEF StartServer, openSocket, Lowest, OpenSockets, clients, caller
    <2>3. \A sd \in SOCKETS \ {fd} : input[sd] = "eof" => input'[sd] = "eof"
        BY <2>1 DEF openSocket, IInv, TypeOK, SocketsTypeOK
    <2> QED BY <2>1, <2>2, <2>3, OpenedHealthy DEF openSocket
<1>3. CASE RegisterClientCallback
    BY <1>3, SocketsKeptHealthy DEF RegisterClientCallback, sockets, clients, caller
<1>4. CASE StartTimers \/ CreateTheTimer \/ HandleTimers \/ CallTimer
           \/ (WriteKills /\ UNCHANGED timers)
    BY <1>4, SocketsKeptHealthy
       DEF StartTimers, CreateTheTimer, HandleTimers, CallTimer, WriteKills, vars,
           sockets, clients, caller
<1>5. CASE HandleSockets
    <2>1. PICK sds \in SUBSET SOCKETS : CollectError(sds)
        BY <1>5 DEF HandleSockets, HandleEvents
    <2> QED BY <1>5, <2>1, SocketsKeptHealthy
            DEF HandleSockets, HandleEvents, CollectError, clients, caller
<1>6. ASSUME NEW s \in SERVERS, StartServerFails(s) PROVE HealthyInv'
    BY <1>6, FailedStartHealthy
<1> QED BY <1>2, <1>3, <1>4, <1>5, <1>6 DEF Main, StartTheServer, Loop

LEMMA AcceptHealthy ==
    ASSUME IInv, HealthyInv, NEW sd \in SOCKETS, NEW fd \in SOCKETS, NEW c \in CLIENTS,
           AcceptClient(sd, fd, c)
    PROVE  HealthyInv'
<1>1. /\ kind[fd] = "closed"
      /\ kind' = [kind EXCEPT ![fd] = "connected"]
      /\ nonblock' = [nonblock EXCEPT ![fd] = FALSE]
      /\ UNCHANGED <<result, current>>
    BY DEF AcceptClient, AcceptSocket, Lowest, OpenSockets, caller
<1>2. \A s \in SOCKETS \ {fd} : input[s] = "eof" => input'[s] = "eof"
    BY DEF AcceptClient, AcceptSocket, IInv, TypeOK, SocketsTypeOK
<1>3. \A d \in LiveClients : clientSocket'[d] = clientSocket[d]
    BY DEF AcceptClient, adoptClient, LiveClients, IInv, TypeOK
<1> QED BY <1>1, <1>2, <1>3, OpenedHealthy

LEMMA DispatchHealthy == ASSUME IInv, HealthyInv, Dispatch PROVE HealthyInv'
<1>1. CASE \/ (SkipSlot \/ EndPass)
                /\ UNCHANGED <<sockets, clients, servers, mClientCallback, caller>>
           \/ \E sd \in SOCKETS : AcceptFails(sd) \/ AcceptBlocks(sd) \/ NobodyToCall(sd)
    BY <1>1, SocketsKeptHealthy
       DEF AcceptFails, AcceptBlocks, NobodyToCall, sockets, clients, caller
<1>2. ASSUME NEW sd \in SOCKETS, handleClientEvent(sd) PROVE HealthyInv'
    BY <1>2, NullIsNoResult
       DEF handleClientEvent, sockets, clients, HealthyInv, AcceptedOnly
<1>3. ASSUME NEW sd \in SOCKETS, NEW fd \in SOCKETS, NEW c \in CLIENTS,
             handleServerEvent(sd, fd, c) \/ AcceptWakes(sd, fd, c)
      PROVE  HealthyInv'
    BY <1>3, AcceptHealthy DEF handleServerEvent, AcceptWakes
<1>4. CASE ReadWakes
    BY <1>4, ReadHealthy DEF ReadWakes
<1> QED BY <1>1, <1>2, <1>3, <1>4 DEF Dispatch

LEMMA RemoteHealthy == ASSUME IInv, HealthyInv, Remote PROVE HealthyInv'
<1>1. CASE WriteWakes
    BY <1>1, SocketsKeptHealthy DEF WriteWakes, sockets, clients
<1>2. ASSUME NEW fd \in SOCKETS, NEW what \in Inputs, Arrives(fd, what),
             UNCHANGED <<clients, caller>>
      PROVE  HealthyInv'
    <2>1. AcceptedOnly'
        BY <1>2 DEF Arrives, HealthyInv, AcceptedOnly
    <2>2. EndStays
        BY <1>2 DEF Arrives, EndStays, clients, caller, IInv, TypeOK, SocketsTypeOK
    <2> QED BY <2>1, <2>2, EndStaysSeen
<1> QED BY <1>1, <1>2
        DEF Remote, RemoteConnects, RemoteSends, RemoteCloses, RemoteResets, Inputs

LEMMA HealthyPreserved == IInv /\ HealthyInv /\ [TestServerNext]_serverVars => HealthyInv'
<1> SUFFICES ASSUME IInv, HealthyInv, [TestServerNext]_serverVars PROVE HealthyInv'
    OBVIOUS
<1>1. CASE PollAndDispatch
    <2>1. CASE PollEnds \/ PollUndefined
        BY <2>1, SocketsKeptHealthy
           DEF PollEnds, PollReturns, PollUndefined, PollBreaks, vars, sockets, clients, caller
    <2> QED BY <1>1, <2>1, DispatchHealthy DEF PollAndDispatch
<1>2. CASE TorpRemote
    BY <1>2, RemoteHealthy DEF TorpRemote
<1>3. CASE Time \/ UNCHANGED serverVars
    BY <1>3, SocketsKeptHealthy
       DEF Time, TimePasses, serverVars, torpVars, vars, sockets, clients, caller
<1> QED BY <1>1, <1>2, <1>3, MainHealthy, CallbackHealthy DEF TestServerNext, ThreadStep

\* The server stops a client only after its peer has ended or reset the
\* connection: no accept, no other client and no callback that comes with
\* nothing to read makes ReadSocket return 0 for a healthy one.
THEOREM HealthyClientsAreKept == TestServerSpec => HealthyClientsStay
<1>1. TestServerSpec => []IInv
    BY TestServerImplements, ConnManagerComposed, IInvariant, PTL
       DEF ImplementsTorpClass, ImplementsConnManager
<1>2. TestServerInit => HealthyInv
    BY NullIsNoResult
       DEF TestServerInit, TorpInit, Init, SocketsInit, HealthyInv, AcceptedOnly
<1>3. IInv /\ HealthyInv /\ [TestServerNext]_serverVars
         => [\A sd \in SOCKETS : kind[sd] = "connected" /\ kind'[sd] = "closed"
                => input[sd] = "eof"]_serverVars
    <2> SUFFICES ASSUME IInv, HealthyInv, TestServerNext, NEW sd \in SOCKETS,
                        kind[sd] = "connected", kind'[sd] = "closed"
                 PROVE  input[sd] = "eof"
        OBVIOUS
    <2>1. kind \in [SOCKETS -> Kinds]
        BY DEF IInv, TypeOK, SocketsTypeOK
    <2>2. ~Main
        <3>1. CASE \E s \in SERVERS, fd \in SOCKETS : StartServer(s, fd)
            BY <2>1, <3>1 DEF StartServer, ServerStart, openSocket
        <3>2. CASE \E s \in SERVERS : StartServerFails(s)
            BY <3>2, ServerStartFailed
        <3> QED BY <2>1, <3>1, <3>2
               DEF Main, RegisterClientCallback, StartTheServer, StartTimers,
                   CreateTheTimer, Loop, HandleTimers, CallTimer, HandleSockets,
                   HandleEvents, CollectError, WriteKills, vars, sockets
    <2>3. ~PollAndDispatch
        <3>1. \A s, fd \in SOCKETS, c \in CLIENTS : ~AcceptClient(s, fd, c)
            BY <2>1 DEF AcceptClient, AcceptSocket
        <3> QED BY <3>1
               DEF PollAndDispatch, PollEnds, PollReturns, PollUndefined, PollBreaks,
                   Dispatch, AcceptFails, AcceptBlocks, NobodyToCall, handleClientEvent,
                   handleServerEvent, AcceptWakes, ReadWakes, ReadClient, ReadSocket,
                   vars, sockets
    <2>4. ~Time /\ ~(TorpRemote /\ UNCHANGED <<main, served>>)
        BY DEF Time, TimePasses, TorpRemote, Remote, RemoteConnects, RemoteSends,
               RemoteCloses, RemoteResets, Arrives, WriteWakes, vars, sockets
    <2>5. connCallback
        BY <2>2, <2>3, <2>4 DEF TestServerNext, ThreadStep
    <2>6. PICK c \in CLIENTS : c = current /\ result = "closed" /\ StopClient(c)
        BY <2>5 DEF connCallback, HandleSocket, ReadClient, ReadSocket, ReadBlocks,
                    Send, CollectError, SendBlocks, WriteKills, ReturnFromCallback, sockets
    <2>7. sd = clientSocket[c]
        BY <2>6 DEF StopClient, ClientStop, CloseSocket
    <2> QED BY <2>6, <2>7, NullIsNoObject DEF HealthyInv
<1> QED BY <1>1, <1>2, <1>3, HealthyPreserved, PTL
        DEF TestServerSpec, HealthyClientsStay
=============================================================================

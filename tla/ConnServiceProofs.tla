-------------------------- MODULE ConnServiceProofs ---------------------------
(***************************************************************************)
(* The connection manager implements ConnService, for any number of        *)
(* descriptors, clients and servers: every step of ConnManager is a step   *)
(* of the service, or one the service does not see.                        *)
(***************************************************************************)
EXTENDS ConnManagerProofs

\* The thread that sleeps in accept(2) does so for a descriptor that is polled
\* as that of a server.
AcceptingOnServer ==
    pc = "accepting" => mSocketMap[mPollFD[next]] = "serverSocketCallback"

-----------------------------------------------------------------------------
(* The descriptors in use. *)

\* An open descriptor more.
LEMMA OneMore ==
    ASSUME TypeOK, NEW fd \in SOCKETS, NEW k \in Kinds \ {"closed"},
           kind[fd] = "closed", kind' = [kind EXCEPT ![fd] = k]
    PROVE  Service!Take
<1> DEFINE open == OpenSockets
<1>1. /\ open \in SUBSET SOCKETS /\ fd \notin open /\ open # SOCKETS
      /\ OpenSockets' = open \cup {fd}
    BY DEF TypeOK, SocketsTypeOK, OpenSockets
<1> HIDE DEF open
<1>2. /\ IsFiniteSet(open) /\ Cardinality(open) <= Cardinality(SOCKETS)
      /\ Cardinality(open) # Cardinality(SOCKETS)
    BY <1>1, SocketsAreNumbers, FS_Subset
<1>3. Cardinality(open) \in Nat /\ Cardinality(SOCKETS) \in Nat
    BY <1>2, SocketsAreNumbers, FS_CardinalityType
<1>4. Cardinality(OpenSockets') = Cardinality(open) + 1
    BY <1>1, <1>2, FS_AddElement
<1>5. Cardinality(open) < Cardinality(SOCKETS)
    BY <1>2, <1>3
<1> QED BY <1>4, <1>5 DEF Service!Take, open

\* An open descriptor less.
LEMMA OneLess ==
    ASSUME TypeOK, NEW fd \in OpenSockets, kind' = [kind EXCEPT ![fd] = "closed"]
    PROVE  Service!Give
<1>1. OpenSockets \in SUBSET SOCKETS /\ OpenSockets' = OpenSockets \ {fd}
    BY DEF TypeOK, SocketsTypeOK, OpenSockets
<1>2. IsFiniteSet(OpenSockets)
    BY <1>1, SocketsAreNumbers, FS_Subset
<1>3. Cardinality(OpenSockets') = Cardinality(OpenSockets) - 1
    BY <1>1, <1>2, FS_RemoveElement
<1> QED BY <1>3 DEF Service!Give

-----------------------------------------------------------------------------
(* What a step of the manager is to the service. *)

\* A step that starts and ends nothing.
LEMMA NothingStarted ==
    ASSUME UNCHANGED <<clientSocket, serverSocket, kind>>
    PROVE  UNCHANGED <<LiveClients, LiveServers, Cardinality(OpenSockets)>>
BY DEF LiveClients, LiveServers, OpenSockets

\* Such a step is invisible when it moves the thread within one of the places
\* the service knows.
LEMMA Unseen ==
    ASSUME UNCHANGED <<clientSocket, serverSocket, kind, current>>,
           ServiceThread' = ServiceThread, pc \notin Over, pc' \notin Over
    PROVE  UNCHANGED Service!serviceVars
BY NothingStarted DEF Service!serviceVars

\* StartClient.
LEMMA SeesStartClient ==
    ASSUME IInv, NEW c \in CLIENTS, NEW fd \in SOCKETS, StartClient(c, fd)
    PROVE  Service!StartClient(c)
<1>1. PICK k \in {"connected", "refused"} :
         kind[fd] = "closed" /\ kind' = [kind EXCEPT ![fd] = k]
    BY DEF StartClient, ClientStart, openSocket, Lowest, OpenSockets
<1>2. /\ c \notin LiveClients
      /\ clientSocket' = [clientSocket EXCEPT ![c] = fd]
      /\ UNCHANGED <<pc, serverSocket, current>>
      /\ pc \in {"app", "callback"}
    BY DEF StartClient, adoptClient, InProgram, servers, caller
<1>3. LiveClients' = LiveClients \cup {c} /\ LiveServers' = LiveServers
    BY <1>2, NullIsNoSocket DEF LiveClients, LiveServers, IInv, TypeOK
<1>4. Service!Take
    BY <1>1, OneMore DEF IInv, Kinds
<1> QED BY <1>2, <1>3, <1>4 DEF Service!StartClient, Service!InProgram, ServiceThread

\* StopClient.
LEMMA SeesStopClient ==
    ASSUME IInv, NEW c \in CLIENTS, StopClient(c)
    PROVE  Service!StopClient(c)
<1>1. /\ clientSocket' = [clientSocket EXCEPT ![c] = NULL]
      /\ UNCHANGED <<pc, serverSocket>>
      /\ pc \in {"app", "callback"}
      /\ current' = IF current = c THEN NULL ELSE current
    BY DEF StopClient, deleteClient, InProgram, servers
<1>2. c \in LiveClients
    BY DEF StopClient, IInv, OwnerInv, ClientMapIsExact, LiveClients
<1>3. LiveClients' = LiveClients \ {c} /\ LiveServers' = LiveServers
    BY <1>1 DEF LiveClients, LiveServers, IInv, TypeOK
<1>4. Service!Give
    <2>1. clientSocket[c] \in OpenSockets
        BY <1>2 DEF IInv, OwnerInv, SocketsOwnedOnce
    <2>2. kind' = [kind EXCEPT ![clientSocket[c]] = "closed"]
        BY DEF StopClient, ClientStop, CloseSocket
    <2> QED BY <2>1, <2>2, OneLess DEF IInv
<1> QED
    BY <1>1, <1>2, <1>3, <1>4 DEF Service!StopClient, Service!InProgram, ServiceThread, Over

\* StartServer.
LEMMA SeesStartServer ==
    ASSUME IInv, NEW s \in SERVERS, NEW fd \in SOCKETS, StartServer(s, fd)
    PROVE  Service!StartServer(s)
<1>1. kind[fd] = "closed" /\ kind' = [kind EXCEPT ![fd] = "listening"]
    BY DEF StartServer, ServerStart, openSocket, Lowest, OpenSockets
<1>2. /\ s \notin LiveServers
      /\ serverSocket' = [serverSocket EXCEPT ![s] = fd]
      /\ UNCHANGED <<pc, clientSocket, current>>
      /\ pc \in {"app", "callback"}
    BY DEF StartServer, InProgram, clients, caller
<1>3. LiveServers' = LiveServers \cup {s} /\ LiveClients' = LiveClients
    BY <1>2, NullIsNoSocket DEF LiveClients, LiveServers, IInv, TypeOK
<1>4. Service!Take
    BY <1>1, OneMore DEF IInv, Kinds
<1> QED BY <1>2, <1>3, <1>4 DEF Service!StartServer, Service!InProgram, ServiceThread

\* StopServer.
LEMMA SeesStopServer ==
    ASSUME IInv, NEW s \in SERVERS, StopServer(s)
    PROVE  Service!StopServer(s)
<1>1. /\ serverSocket' = [serverSocket EXCEPT ![s] = NULL]
      /\ UNCHANGED <<pc, clientSocket, current>>
      /\ pc \in {"app", "callback"} /\ s \in LiveServers
    BY DEF StopServer, deleteServer, InProgram, clients, caller
<1>2. LiveServers' = LiveServers \ {s} /\ LiveClients' = LiveClients
    BY <1>1 DEF LiveClients, LiveServers, IInv, TypeOK
<1>3. Service!Give
    <2>1. serverSocket[s] \in OpenSockets
        BY <1>1 DEF IInv, OwnerInv, SocketsOwnedOnce
    <2>2. kind' = [kind EXCEPT ![serverSocket[s]] = "closed"]
        BY DEF StopServer, ServerStop, CloseSocket
    <2> QED BY <2>1, <2>2, OneLess DEF IInv
<1> QED BY <1>1, <1>2, <1>3 DEF Service!StopServer, Service!InProgram, ServiceThread

\* handleServerEvent with the client it makes: a server is running.
LEMMA SeesAccept ==
    ASSUME IInv, AcceptingOnServer,
           NEW sd \in SOCKETS, NEW fd \in SOCKETS, NEW c \in CLIENTS,
           handleServerEvent(sd, fd, c) \/ AcceptWakes(sd, fd, c)
    PROVE  Service!Accept(c)
<1>1. /\ mSocketMap[sd] = "serverSocketCallback"
      /\ pc \in {"pass", "accepting"} /\ pc' = "pass"
      /\ AcceptClient(sd, fd, c)
    BY DEF handleServerEvent, AcceptWakes, Handles, Dispatching, AcceptingOnServer,
           AcceptClient, NextSlot
<1>2. kind[sd] = "listening"
    BY <1>1, NullIsNoSocket DEF IInv, RegistryInv, RegistryMatchesSockets, Handlers
<1>3. LiveServers # {}
    <2>1. sd \in OpenSockets
        BY <1>2 DEF OpenSockets
    <2>2. \A d \in LiveClients : clientSocket[d] # sd
        BY <1>2 DEF IInv, OwnerInv, KindsMatchOwners
    <2> QED BY <2>1, <2>2 DEF IInv, OwnerInv, SocketsOwnedOnce
<1>4. /\ kind[fd] = "closed" /\ kind' = [kind EXCEPT ![fd] = "connected"]
      /\ c \notin LiveClients
      /\ clientSocket' = [clientSocket EXCEPT ![c] = fd]
      /\ UNCHANGED <<serverSocket, current>>
    BY <1>1 DEF AcceptClient, AcceptSocket, Lowest, OpenSockets, adoptClient, servers, caller
<1>5. LiveClients' = LiveClients \cup {c} /\ LiveServers' = LiveServers
    BY <1>4, NullIsNoSocket DEF LiveClients, LiveServers, IInv, TypeOK
<1>6. Service!Take
    BY <1>4, OneMore DEF IInv, Kinds
<1> QED
    BY <1>1, <1>3, <1>4, <1>5, <1>6 DEF Service!Accept, ServiceThread, Over

\* handleClientEvent: the client is one the program has.  With a callback that
\* was never set the process is over instead.
LEMMA SeesCall ==
    ASSUME IInv, NEW sd \in SOCKETS, handleClientEvent(sd)
    PROVE  Service!Call(mClientSockets[sd]) \/ Service!Dies
<1>1. /\ pc = "pass" /\ pc' \in {"callback", "undefined"}
      /\ mSocketMap[sd] = "clientSocketCallback"
      /\ current' = mClientSockets[sd]
      /\ UNCHANGED <<clientSocket, serverSocket, kind>>
    BY DEF handleClientEvent, Handles, Dispatching, sockets, clients, servers
<1>2. mClientSockets[sd] \in LiveClients
    BY <1>1 DEF IInv, OwnerInv, DispatchTargetsLiveClient
<1>3. UNCHANGED <<LiveClients, LiveServers, Cardinality(OpenSockets)>>
    BY <1>1, NothingStarted
<1> QED BY <1>1, <1>2, <1>3 DEF Service!Call, Service!Dies, ServiceThread, Over

\* The program's calls.
LEMMA SeesCalls ==
    ASSUME IInv, Calls
    PROVE  [Service!ServiceNext]_(Service!serviceVars)
<1>1. CASE RegisterClientCallback \/ HandleSocket \/ ReadBlocks
           \/ (\E c \in CLIENTS : Send(c) \/ SendBlocks(c))
    <2>1. /\ UNCHANGED <<clientSocket, serverSocket, kind, current>>
          /\ \/ pc = "app" /\ pc' \in {"app", "appWriting"}
             \/ pc = "callback" /\ pc' \in {"callback", "reading", "writing"}
        BY <1>1
           DEF RegisterClientCallback, HandleSocket, ReadClient, ReadSocket, ReadBlocks,
               Send, CollectError, SendBlocks, InProgram, sockets, platform, clients,
               servers, caller
    <2> QED BY <2>1, Unseen DEF ServiceThread, Over
<1>2. CASE WriteKills
    BY <1>2, NothingStarted
       DEF WriteKills, InProgram, sockets, clients, servers, Service!ServiceNext,
           Service!Dies, ServiceThread, Over
<1>3. CASE ReturnFromCallback
    BY <1>3, NothingStarted
       DEF ReturnFromCallback, NextSlot, sockets, clients, servers, Service!ServiceNext,
           Service!CallbackReturns, ServiceThread, Over
<1>4. ASSUME NEW c \in CLIENTS, NEW fd \in SOCKETS, StartClient(c, fd)
      PROVE  Service!ServiceNext
    BY <1>4, SeesStartClient DEF Service!ServiceNext
<1>5. ASSUME NEW c \in CLIENTS, StopClient(c) PROVE Service!ServiceNext
    BY <1>5, SeesStopClient DEF Service!ServiceNext
<1>6. ASSUME NEW s \in SERVERS, NEW fd \in SOCKETS, StartServer(s, fd)
      PROVE  Service!ServiceNext
    BY <1>6, SeesStartServer DEF Service!ServiceNext
<1>7. ASSUME NEW s \in SERVERS, StopServer(s) PROVE Service!ServiceNext
    BY <1>7, SeesStopServer DEF Service!ServiceNext
<1>8. ASSUME (\E c \in CLIENTS : StartClientFails(c))
             \/ (\E s \in SERVERS : StartServerFails(s))
      PROVE  UNCHANGED Service!serviceVars
    <2>1. UNCHANGED <<clientSocket, serverSocket, kind, current, pc>>
          /\ pc \in {"app", "callback"}
        BY <1>8, ClientStartFailed, ServerStartFailed
           DEF StartClientFails, StartServerFails, InProgram, platform, servers, clients,
               caller
    <2> QED BY <2>1, Unseen DEF ServiceThread, Over
<1> QED BY <1>1, <1>2, <1>3, <1>4, <1>5, <1>6, <1>7, <1>8 DEF Calls

\* The steps of HandleEvents.
LEMMA SeesPollLoop ==
    ASSUME IInv, AcceptingOnServer, HandleEvents \/ PollLoop
    PROVE  [Service!ServiceNext]_(Service!serviceVars)
<1>1. CASE HandleEvents
    BY <1>1, NothingStarted
       DEF HandleEvents, CollectError, clients, servers, caller, Service!ServiceNext,
           Service!HandleEvents, ServiceThread, Over
<1>2. CASE PollBreaks
    BY <1>2, NothingStarted
       DEF PollBreaks, PollUninitialised, sockets, clients, servers, Service!ServiceNext,
           Service!Dies, ServiceThread, Over
<1>3. CASE PollReturns
    <2>1. /\ UNCHANGED <<clientSocket, serverSocket, kind, current>>
          /\ pc = "polling" /\ pc' \in {"app", "pass"}
        BY <1>3 DEF PollReturns, PollSleeps, PollReports, PollTimesOut, sockets, clients,
                    servers, caller
    <2>2. CASE pc' = "pass"
        BY <2>1, <2>2, Unseen DEF ServiceThread, Over
    <2>3. CASE pc' = "app"
        BY <2>1, <2>3, NothingStarted
           DEF Service!ServiceNext, Service!HandleEventsReturns, ServiceThread, Over
    <2> QED BY <2>1, <2>2, <2>3
<1>4. CASE EndPass /\ UNCHANGED <<sockets, clients, servers, mClientCallback, caller>>
    BY <1>4, NothingStarted
       DEF EndPass, sockets, clients, servers, caller, Service!ServiceNext,
           Service!HandleEventsReturns, ServiceThread, Over
<1>5. CASE ReadWakes \/ (SkipSlot /\ UNCHANGED <<sockets, clients, servers, caller>>)
           \/ (\E sd \in SOCKETS : AcceptFails(sd) \/ AcceptBlocks(sd) \/ NobodyToCall(sd))
    <2>1. /\ UNCHANGED <<clientSocket, serverSocket, kind, current>>
          /\ \/ pc = "pass" /\ pc' \in {"pass", "accepting"}
             \/ pc = "reading" /\ pc' = "callback"
        BY <1>5 DEF ReadWakes, ReadClient, ReadSocket, SkipSlot, AcceptFails, AcceptBlocks,
                    NobodyToCall, Handles, Dispatching, NextSlot, sockets, clients, servers,
                    caller
    <2> QED BY <2>1, Unseen DEF ServiceThread, Over
<1>6. ASSUME NEW sd \in SOCKETS, handleClientEvent(sd) PROVE Service!ServiceNext
    <2>1. mClientSockets[sd] \in CLIENTS
        BY <1>6 DEF handleClientEvent, IInv, TypeOK
    <2> QED BY <1>6, <2>1, SeesCall DEF Service!ServiceNext
<1>7. ASSUME NEW sd \in SOCKETS, NEW fd \in SOCKETS, NEW c \in CLIENTS,
             handleServerEvent(sd, fd, c) \/ AcceptWakes(sd, fd, c)
      PROVE  Service!ServiceNext
    BY <1>7, SeesAccept DEF Service!ServiceNext
<1> QED BY <1>1, <1>2, <1>3, <1>4, <1>5, <1>6, <1>7 DEF PollLoop, Dispatch

\* The service sees nothing of the remote hosts.
LEMMA SeesNoRemote ==
    ASSUME Remote
    PROVE  UNCHANGED Service!serviceVars
<1>1. CASE WriteWakes
    <2>1. /\ UNCHANGED <<clientSocket, serverSocket, kind, current>>
          /\ \/ pc = "writing" /\ pc' = "callback"
             \/ pc = "appWriting" /\ pc' = "app"
        BY <1>1 DEF WriteWakes, sockets, clients, servers
    <2> QED BY <2>1, Unseen DEF ServiceThread, Over
<1>2. CASE ~WriteWakes
    <2>1. UNCHANGED <<clientSocket, serverSocket, kind, current, pc>> /\ pc \notin Over
        BY <1>2 DEF Remote, RemoteConnects, RemoteSends, RemoteCloses, RemoteResets,
                    Arrives, platform, clients, servers, caller
    <2> QED BY <2>1, Unseen DEF ServiceThread
<1> QED BY <1>1, <1>2

-----------------------------------------------------------------------------
(* The refinement. *)

LEMMA AcceptingPreserved == AcceptingOnServer /\ [Next]_vars => AcceptingOnServer'
<1> SUFFICES ASSUME AcceptingOnServer, [Next]_vars PROVE AcceptingOnServer'
    OBVIOUS
<1> USE DEF AcceptingOnServer
<1>1. CASE Calls \/ HandleEvents
    <2>1. pc' # "accepting"
        BY <1>1
           DEF Calls, HandleEvents, RegisterClientCallback, StopClient, Send, SendBlocks,
               StartClient, WriteKills, InProgram, StartClientFails, StartServerFails, StopServer,
               StartServer, HandleSocket, ReadClient, ReadBlocks, ReturnFromCallback,
               NextSlot, platform
    <2> QED BY <2>1
<1>2. CASE PollReturns \/ PollBreaks
    BY <1>2 DEF PollReturns, PollBreaks, PollSleeps, PollReports, PollTimesOut,
                PollUninitialised
<1>3. CASE Dispatch
    BY <1>3 DEF Dispatch, SkipSlot, EndPass, AcceptFails, AcceptBlocks, NobodyToCall,
                handleClientEvent, handleServerEvent, AcceptWakes, AcceptClient,
                ReadWakes, ReadClient, NextSlot, Handles, Dispatching, registry
<1>4. CASE Remote
    BY <1>4 DEF Remote, WriteWakes, platform, registry
<1>5. CASE UNCHANGED vars
    BY <1>5 DEF vars, platform
<1> QED BY <1>1, <1>2, <1>3, <1>4, <1>5 DEF Next, Program, PollLoop

\* The connection manager keeps what ConnService takes from IConnManager: the
\* clients it has
\* are those that the program or a running server started and the program has
\* not stopped, and it calls back with one of them.
THEOREM ConnManagerImplementsService == Spec => ImplementsConnService
<1>1. Init => Service!ServiceInit
    <2> SUFFICES ASSUME Init PROVE Service!ServiceInit
        OBVIOUS
    <2>1. LiveClients = {} /\ LiveServers = {} /\ OpenSockets = {}
        BY DEF Init, SocketsInit, LiveClients, LiveServers, OpenSockets
    <2>2. Cardinality(OpenSockets) = 0
        BY <2>1, FS_EmptySet
    <2> QED BY <2>1, <2>2 DEF Init, PlatformInit, Service!ServiceInit, ServiceThread, Over
<1>2. Init => AcceptingOnServer
    BY DEF Init, PlatformInit, AcceptingOnServer
<1>3. IInv /\ AcceptingOnServer /\ [Next]_vars
         => [Service!ServiceNext]_(Service!serviceVars)
    <2> SUFFICES ASSUME IInv, AcceptingOnServer, [Next]_vars
                 PROVE  [Service!ServiceNext]_(Service!serviceVars)
        OBVIOUS
    <2>1. CASE UNCHANGED vars
        <3>1. UNCHANGED <<clientSocket, serverSocket, kind, current, pc>>
            BY <2>1 DEF vars, sockets, platform, clients, servers, caller
        <3>2. UNCHANGED <<LiveClients, LiveServers, Cardinality(OpenSockets)>>
            BY <3>1, NothingStarted
        <3> QED BY <3>1, <3>2 DEF Service!serviceVars, ServiceThread
    <2> QED BY <2>1, SeesCalls, SeesPollLoop, SeesNoRemote DEF Next, Program
<1> QED
    BY <1>1, <1>2, <1>3, IInvariant, AcceptingPreserved, PTL
    DEF Spec, ImplementsConnService, Service!ServiceSpec
=============================================================================

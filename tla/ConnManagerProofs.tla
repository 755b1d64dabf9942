-------------------------- MODULE ConnManagerProofs ---------------------------
(***************************************************************************)
(* Proofs about ConnManager for any number of descriptors, clients and     *)
(* servers: type correctness, that the poll registry and its array match   *)
(* the open descriptors, that every descriptor has one owner, and that a   *)
(* client event always reaches the live client that owns the descriptor.   *)
(***************************************************************************)
EXTENDS ConnManager, FiniteSetTheorems, TLAPS

\* The owners of the descriptors agree with the kinds of the sockets.
KindsMatchOwners ==
    /\ \A c \in LiveClients : kind[clientSocket[c]] \in {"connected", "refused"}
    /\ \A s \in LiveServers : kind[serverSocket[s]] = "listening"

\* A pass runs only over an array that was built.
InPass == {"pass", "callback", "reading", "writing", "accepting"}
PassInv == pc \in InPass => mNumToPoll # Garbage

RegistryInv == RegistryMatchesSockets /\ PollArrayListsRegistry

OwnerInv ==
    /\ ClientMapIsExact
    /\ DispatchTargetsLiveClient
    /\ SocketsOwnedOnce
    /\ KindsMatchOwners

\* The inductive invariant.
IInv ==
    /\ TypeOK
    /\ RegistryInv
    /\ OwnerInv
    /\ CallbackClientIsLive
    /\ PassInv

-----------------------------------------------------------------------------
(* The poll array. *)

\* A listing of registered descriptors is a sequence of descriptors that fits
\* the array.
LEMMA ListingFits ==
    ASSUME NEW S \in SUBSET SOCKETS, NEW l \in SortedListings(S)
    PROVE  /\ l \in Seq(SOCKETS)
           /\ Len(l) = Cardinality(S)
           /\ Cardinality(S) \in Nat
           /\ Cardinality(S) <= MaxPoll
<1>1. IsFiniteSet(S) /\ Cardinality(S) <= Cardinality(SOCKETS)
    BY SocketsAreNumbers, FS_Subset
<1>2. Cardinality(S) \in Nat /\ Cardinality(SOCKETS) \in Nat
    BY <1>1, SocketsAreNumbers, FS_CardinalityType
<1>3. l \in [1 .. Cardinality(S) -> SOCKETS]
    BY DEF SortedListings
<1> QED BY <1>1, <1>2, <1>3, ArrayHoldsAllSockets

\* What rebuildPollStruct leaves behind, given the new registry.
LEMMA Rebuilt ==
    ASSUME mSocketMap' \in [SOCKETS -> Handlers \cup {NULL}], rebuildPollStruct
    PROVE  /\ mPollFD' \in Seq(SOCKETS)
           /\ mNumToPoll' \in Nat
           /\ PollArrayListsRegistry'
<1>1. Registered(mSocketMap') \in SUBSET SOCKETS
    BY DEF Registered
<1>2. mPollFD' \in SortedListings(Registered(mSocketMap'))
    BY DEF rebuildPollStruct
<1>3. mNumToPoll' = Cardinality(Registered(mSocketMap'))
    BY DEF rebuildPollStruct
<1>4. /\ mPollFD' \in Seq(SOCKETS)
      /\ Len(mPollFD') = mNumToPoll'
      /\ mNumToPoll' \in Nat
      /\ mNumToPoll' <= MaxPoll
    BY <1>1, <1>2, <1>3, ListingFits
<1> QED BY <1>2, <1>4, GarbageIsNoNumber DEF PollArrayListsRegistry

\* Polling a descriptor that is not registered yet.
LEMMA Added ==
    ASSUME TypeOK, NEW sd \in SOCKETS, NEW handler \in Handlers,
           mSocketMap[sd] = NULL, AddSocketForPolling(sd, handler)
    PROVE  /\ mSocketMap' = [mSocketMap EXCEPT ![sd] = handler]
           /\ mSocketMap' \in [SOCKETS -> Handlers \cup {NULL}]
           /\ mPollFD' \in Seq(SOCKETS)
           /\ mNumToPoll' \in Nat
           /\ PollArrayListsRegistry'
<1>1. mSocketMap' = [mSocketMap EXCEPT ![sd] = handler] /\ rebuildPollStruct
    BY DEF AddSocketForPolling
<1>2. mSocketMap' \in [SOCKETS -> Handlers \cup {NULL}]
    BY <1>1 DEF TypeOK, PlatformTypeOK
<1> QED BY <1>1, <1>2, Rebuilt

\* Removing a descriptor that is registered.
LEMMA Removed ==
    ASSUME TypeOK, NEW sd \in SOCKETS,
           mSocketMap[sd] # NULL, RemoveSocketFromPolling(sd)
    PROVE  /\ mSocketMap' = [mSocketMap EXCEPT ![sd] = NULL]
           /\ mSocketMap' \in [SOCKETS -> Handlers \cup {NULL}]
           /\ mPollFD' \in Seq(SOCKETS)
           /\ mNumToPoll' \in Nat
           /\ PollArrayListsRegistry'
<1>1. mSocketMap' = [mSocketMap EXCEPT ![sd] = NULL] /\ rebuildPollStruct
    BY DEF RemoveSocketFromPolling
<1>2. mSocketMap' \in [SOCKETS -> Handlers \cup {NULL}]
    BY <1>1 DEF TypeOK, PlatformTypeOK
<1> QED BY <1>1, <1>2, Rebuilt

-----------------------------------------------------------------------------
(* The owners of the descriptors. *)

\* A new client takes a free descriptor over: accept and StartClient.
LEMMA Adopted ==
    ASSUME IInv, NEW c \in CLIENTS, NEW fd \in SOCKETS,
           NEW k \in {"connected", "refused"},
           kind[fd] = "closed", kind' = [kind EXCEPT ![fd] = k],
           adoptClient(c, fd), UNCHANGED serverSocket
    PROVE  /\ RegistryInv' /\ OwnerInv'
           /\ mSocketMap' \in [SOCKETS -> Handlers \cup {NULL}]
           /\ mPollFD' \in Seq(SOCKETS)
           /\ mNumToPoll' \in Nat
           /\ clientSocket' = [clientSocket EXCEPT ![c] = fd]
           /\ mClients' = [mClients EXCEPT ![c] = fd]
           /\ mClientSockets' = [mClientSockets EXCEPT ![fd] = c]
           /\ clientSocket[c] = NULL
<1> USE DEF IInv, TypeOK, SocketsTypeOK, PlatformTypeOK
<1>1. /\ clientSocket' = [clientSocket EXCEPT ![c] = fd]
      /\ mClients' = [mClients EXCEPT ![c] = fd]
      /\ mClientSockets' = [mClientSockets EXCEPT ![fd] = c]
      /\ AddSocketForPolling(fd, "clientSocketCallback")
      /\ clientSocket[c] = NULL
    BY DEF adoptClient, LiveClients
<1>2. mSocketMap[fd] = NULL
    BY DEF RegistryInv, RegistryMatchesSockets
<1>3. /\ mSocketMap' = [mSocketMap EXCEPT ![fd] = "clientSocketCallback"]
      /\ mSocketMap' \in [SOCKETS -> Handlers \cup {NULL}]
      /\ mPollFD' \in Seq(SOCKETS)
      /\ mNumToPoll' \in Nat
      /\ PollArrayListsRegistry'
    BY <1>1, <1>2, Added DEF Handlers
<1>4. RegistryMatchesSockets'
    BY <1>3 DEF RegistryInv, RegistryMatchesSockets
<1>5. LiveClients' = LiveClients \cup {c} /\ LiveServers' = LiveServers
    BY <1>1, NullIsNoSocket DEF LiveClients, LiveServers
<1>6. /\ \A d \in LiveClients : d # c /\ clientSocket'[d] = clientSocket[d]
                                /\ clientSocket[d] # fd
      /\ \A s \in LiveServers : serverSocket[s] # fd
    BY <1>1, NullIsNoSocket
    DEF LiveClients, LiveServers, OwnerInv, KindsMatchOwners
<1>7. ClientMapIsExact'
    BY <1>1 DEF OwnerInv, ClientMapIsExact
<1>8. DispatchTargetsLiveClient'
    BY <1>1, <1>3, <1>5, <1>6 DEF OwnerInv, DispatchTargetsLiveClient
<1>9. KindsMatchOwners'
    BY <1>1, <1>5, <1>6 DEF OwnerInv, KindsMatchOwners, LiveClients, LiveServers
<1>10. SocketsOwnedOnce'
    <2>1. OpenSockets' = OpenSockets \cup {fd}
        BY DEF OpenSockets
    <2>2. {clientSocket'[d] : d \in LiveClients'}
             = {clientSocket[d] : d \in LiveClients} \cup {fd}
        BY <1>1, <1>5, <1>6
    <2> QED BY <1>1, <1>5, <1>6, <2>1, <2>2 DEF OwnerInv, SocketsOwnedOnce
<1> QED BY <1>1, <1>3, <1>4, <1>7, <1>8, <1>9, <1>10 DEF RegistryInv, OwnerInv
\* StopClient gives up one descriptor and nothing else.
LEMMA ClientStopped ==
    ASSUME IInv, NEW c \in CLIENTS, StopClient(c)
    PROVE  IInv'
<1> USE DEF IInv, TypeOK, SocketsTypeOK, PlatformTypeOK
<1> DEFINE fd == clientSocket[c]
<1>1. /\ c \in LiveClients /\ fd \in SOCKETS
      /\ kind[fd] \in {"connected", "refused"}
      /\ mSocketMap[fd] = "clientSocketCallback"
    BY DEF StopClient, ClientStop, deleteClient, OwnerInv, ClientMapIsExact, KindsMatchOwners, LiveClients,
           RegistryInv, RegistryMatchesSockets
<1>2. /\ clientSocket' = [clientSocket EXCEPT ![c] = NULL]
      /\ mClients' = [mClients EXCEPT ![c] = NULL]
      /\ kind' = [kind EXCEPT ![fd] = "closed"]
      /\ UNCHANGED <<revents, pc, next, mClientSockets, serverSocket, mServers,
                     mServerSockets, mClientCallback, result>>
      /\ current' = IF current = c THEN NULL ELSE current
    BY DEF StopClient, ClientStop, deleteClient, CloseSocket, servers
<1>3. /\ nonblock' = [nonblock EXCEPT ![fd] = FALSE]
      /\ input' = [input EXCEPT ![fd] = "empty"]
    BY DEF StopClient, ClientStop, deleteClient, CloseSocket
<1>4. /\ mSocketMap' = [mSocketMap EXCEPT ![fd] = NULL]
      /\ mSocketMap' \in [SOCKETS -> Handlers \cup {NULL}]
      /\ mPollFD' \in Seq(SOCKETS)
      /\ mNumToPoll' \in Nat
      /\ PollArrayListsRegistry'
    BY <1>1, Removed, NullIsNoSocket DEF StopClient, ClientStop, deleteClient, Handlers
<1>5. TypeOK'
    BY <1>1, <1>2, <1>3, <1>4 DEF Kinds, Inputs
<1>6. LiveClients' = LiveClients \ {c} /\ LiveServers' = LiveServers
    BY <1>2 DEF LiveClients, LiveServers
<1>7. /\ \A d \in LiveClients' : d # c /\ clientSocket'[d] = clientSocket[d]
                                 /\ clientSocket[d] # fd
      /\ \A s \in LiveServers : serverSocket[s] # fd
    BY <1>1, <1>2, <1>6 DEF OwnerInv, SocketsOwnedOnce, LiveClients, LiveServers
<1>8. RegistryMatchesSockets'
    BY <1>1, <1>2, <1>4 DEF RegistryInv, RegistryMatchesSockets
<1>9. ClientMapIsExact'
    BY <1>2 DEF OwnerInv, ClientMapIsExact
<1>10. DispatchTargetsLiveClient'
    <2> SUFFICES ASSUME NEW sd \in SOCKETS,
                        mSocketMap'[sd] = "clientSocketCallback"
                 PROVE  LET d == mClientSockets[sd]
                        IN  /\ d \in LiveClients'
                            /\ clientSocket'[d] = sd /\ mClients'[d] = sd
        BY <1>2 DEF DispatchTargetsLiveClient
    <2>1. sd # fd /\ mSocketMap[sd] = "clientSocketCallback"
        BY <1>1, <1>4, NullIsNoSocket DEF Handlers
    <2>2. mClientSockets[sd] # c
        BY <2>1 DEF OwnerInv, DispatchTargetsLiveClient
    <2> QED BY <1>2, <1>6, <2>1, <2>2 DEF OwnerInv, DispatchTargetsLiveClient, LiveClients
<1>11. KindsMatchOwners'
    BY <1>1, <1>2, <1>6, <1>7 DEF OwnerInv, KindsMatchOwners, LiveClients, LiveServers
<1>12. SocketsOwnedOnce'
    <2>1. OpenSockets' = OpenSockets \ {fd}
        BY <1>1, <1>2 DEF OpenSockets
    <2>2. {clientSocket'[d] : d \in LiveClients'}
             = {clientSocket[d] : d \in LiveClients} \ {fd}
        BY <1>1, <1>2, <1>6, <1>7
    <2>3. {serverSocket'[s] : s \in LiveServers'}
             = {serverSocket[s] : s \in LiveServers} \ {fd}
        BY <1>2, <1>6, <1>7
    <2> QED BY <1>2, <1>6, <1>7, <2>1, <2>2, <2>3 DEF OwnerInv, SocketsOwnedOnce
<1>13. CallbackClientIsLive'
    BY <1>1, <1>2, <1>6, <1>7 DEF CallbackClientIsLive, LiveClients
<1>14. PassInv'
    BY <1>4, GarbageIsNoNumber DEF PassInv, InPass
<1> QED
    BY <1>4, <1>5, <1>8, <1>9, <1>10, <1>11, <1>12, <1>13, <1>14
    DEF RegistryInv, OwnerInv

\* StartServer takes a free descriptor for the server.
LEMMA ServerStarted ==
    ASSUME IInv, NEW s \in SERVERS, NEW fd \in SOCKETS, StartServer(s, fd)
    PROVE  IInv'
<1> USE DEF IInv, TypeOK, SocketsTypeOK, PlatformTypeOK
<1>1. /\ kind[fd] = "closed" /\ serverSocket[s] = NULL
      /\ kind' = [kind EXCEPT ![fd] = "listening"]
      /\ nonblock' \in [SOCKETS -> BOOLEAN]
      /\ input' \in [SOCKETS -> Inputs]
      /\ serverSocket' = [serverSocket EXCEPT ![s] = fd]
      /\ mServers' = [mServers EXCEPT ![s] = INVALID_SOCKET]
      /\ mServerSockets' = [mServerSockets EXCEPT ![fd] = s]
      /\ UNCHANGED <<revents, pc, next, clientSocket, mClients, mClientSockets,
                     mClientCallback, current, result>>
    BY DEF StartServer, ServerStart, openSocket, Lowest, OpenSockets, LiveServers, clients,
           caller, Inputs
<1>2. mSocketMap[fd] = NULL
    BY <1>1 DEF RegistryInv, RegistryMatchesSockets
<1>3. /\ mSocketMap' = [mSocketMap EXCEPT ![fd] = "serverSocketCallback"]
      /\ mSocketMap' \in [SOCKETS -> Handlers \cup {NULL}]
      /\ mPollFD' \in Seq(SOCKETS)
      /\ mNumToPoll' \in Nat
      /\ PollArrayListsRegistry'
    BY <1>2, Added DEF Handlers, StartServer
<1>4. TypeOK'
    BY <1>1, <1>3 DEF Kinds
<1>5. LiveServers' = LiveServers \cup {s} /\ LiveClients' = LiveClients
    BY <1>1, NullIsNoSocket DEF LiveClients, LiveServers
<1>6. /\ \A t \in LiveServers : t # s /\ serverSocket'[t] = serverSocket[t]
                                /\ serverSocket[t] # fd
      /\ \A c \in LiveClients : clientSocket[c] # fd
    BY <1>1 DEF LiveClients, LiveServers, OwnerInv, KindsMatchOwners
<1>7. RegistryMatchesSockets'
    BY <1>1, <1>3 DEF RegistryInv, RegistryMatchesSockets
<1>8. ClientMapIsExact' /\ DispatchTargetsLiveClient'
    BY <1>1, <1>3, <1>5
    DEF OwnerInv, ClientMapIsExact, DispatchTargetsLiveClient
<1>9. KindsMatchOwners'
    BY <1>1, <1>5, <1>6 DEF OwnerInv, KindsMatchOwners, LiveClients, LiveServers
<1>10. SocketsOwnedOnce'
    <2>1. OpenSockets' = OpenSockets \cup {fd}
        BY <1>1 DEF OpenSockets
    <2>2. {serverSocket'[t] : t \in LiveServers'}
             = {serverSocket[t] : t \in LiveServers} \cup {fd}
        BY <1>1, <1>5, <1>6
    <2> QED BY <1>1, <1>5, <1>6, <2>1, <2>2 DEF OwnerInv, SocketsOwnedOnce
<1>11. CallbackClientIsLive'
    BY <1>1, <1>5, <1>6 DEF CallbackClientIsLive, LiveClients
<1>12. PassInv'
    BY <1>3, GarbageIsNoNumber DEF PassInv, InPass
<1> QED
    BY <1>3, <1>4, <1>7, <1>8, <1>9, <1>10, <1>11, <1>12 DEF RegistryInv, OwnerInv

\* StopServer gives up one descriptor and nothing else.
LEMMA ServerStopped ==
    ASSUME IInv, NEW s \in SERVERS, StopServer(s)
    PROVE  IInv'
<1> USE DEF IInv, TypeOK, SocketsTypeOK, PlatformTypeOK
<1> DEFINE fd == serverSocket[s]
<1>1. /\ s \in LiveServers /\ fd \in SOCKETS
      /\ kind[fd] = "listening"
      /\ mSocketMap[fd] = "serverSocketCallback"
    BY DEF StopServer, ServerStop, deleteServer, OwnerInv, KindsMatchOwners, LiveServers,
           RegistryInv, RegistryMatchesSockets
<1>2. /\ serverSocket' = [serverSocket EXCEPT ![s] = NULL]
      /\ mServers' = [mServers EXCEPT ![s] = NULL]
      /\ kind' = [kind EXCEPT ![fd] = "closed"]
      /\ UNCHANGED <<revents, pc, next, clientSocket, mClients, mClientSockets,
                     mServerSockets, mClientCallback, current, result>>
    BY DEF StopServer, ServerStop, deleteServer, CloseSocket, clients, caller
<1>3. /\ nonblock' = [nonblock EXCEPT ![fd] = FALSE]
      /\ input' = [input EXCEPT ![fd] = "empty"]
    BY DEF StopServer, ServerStop, deleteServer, CloseSocket
<1>4. /\ mSocketMap' = [mSocketMap EXCEPT ![fd] = NULL]
      /\ mSocketMap' \in [SOCKETS -> Handlers \cup {NULL}]
      /\ mPollFD' \in Seq(SOCKETS)
      /\ mNumToPoll' \in Nat
      /\ PollArrayListsRegistry'
    BY <1>1, Removed, NullIsNoSocket DEF StopServer, ServerStop, deleteServer, Handlers
<1>5. TypeOK'
    BY <1>1, <1>2, <1>3, <1>4 DEF Kinds, Inputs
<1>6. LiveServers' = LiveServers \ {s} /\ LiveClients' = LiveClients
    BY <1>2 DEF LiveClients, LiveServers
<1>7. /\ \A t \in LiveServers' : t # s /\ serverSocket'[t] = serverSocket[t]
                                 /\ serverSocket[t] # fd
      /\ \A c \in LiveClients : clientSocket[c] # fd
    BY <1>1, <1>2, <1>6 DEF OwnerInv, SocketsOwnedOnce, LiveClients, LiveServers
<1>8. RegistryMatchesSockets'
    BY <1>1, <1>2, <1>4 DEF RegistryInv, RegistryMatchesSockets
<1>9. ClientMapIsExact' /\ DispatchTargetsLiveClient'
    BY <1>1, <1>2, <1>4, <1>6, NullIsNoSocket
    DEF OwnerInv, ClientMapIsExact, DispatchTargetsLiveClient, Handlers
<1>10. KindsMatchOwners'
    BY <1>1, <1>2, <1>6, <1>7 DEF OwnerInv, KindsMatchOwners, LiveClients, LiveServers
<1>11. SocketsOwnedOnce'
    <2>1. OpenSockets' = OpenSockets \ {fd}
        BY <1>1, <1>2 DEF OpenSockets
    <2>2. {serverSocket'[t] : t \in LiveServers'}
             = {serverSocket[t] : t \in LiveServers} \ {fd}
        BY <1>1, <1>2, <1>6, <1>7
    <2>3. {clientSocket'[c] : c \in LiveClients'}
             = {clientSocket[c] : c \in LiveClients} \ {fd}
        BY <1>2, <1>6, <1>7
    <2> QED BY <1>2, <1>6, <1>7, <2>1, <2>2, <2>3 DEF OwnerInv, SocketsOwnedOnce
<1>12. CallbackClientIsLive'
    BY <1>1, <1>2, <1>6, <1>7 DEF CallbackClientIsLive, LiveClients
<1>13. PassInv'
    BY <1>4, GarbageIsNoNumber DEF PassInv, InPass
<1> QED
    BY <1>4, <1>5, <1>8, <1>9, <1>10, <1>11, <1>12, <1>13 DEF RegistryInv, OwnerInv

\* StartClient with the client it returns.
LEMMA ClientStarted ==
    ASSUME IInv, NEW c \in CLIENTS, NEW fd \in SOCKETS, StartClient(c, fd)
    PROVE  IInv'
<1> USE DEF IInv, TypeOK, SocketsTypeOK, PlatformTypeOK
<1>0. PICK nb \in BOOLEAN, k \in {"connected", "refused"} :
         openSocket(fd, k, nb, IF k = "refused" THEN "eof" ELSE "empty")
    BY DEF StartClient, ClientStart
<1>1. /\ kind' = [kind EXCEPT ![fd] = k]
      /\ kind[fd] = "closed"
      /\ nonblock' \in [SOCKETS -> BOOLEAN]
      /\ input' \in [SOCKETS -> Inputs]
    BY <1>0 DEF openSocket, Lowest, OpenSockets, Inputs
<1>2. /\ adoptClient(c, fd)
      /\ UNCHANGED <<revents, pc, next, serverSocket, mServers, mServerSockets,
                     mClientCallback, current, result>>
    BY DEF StartClient, servers, caller
<1>3. /\ RegistryInv' /\ OwnerInv'
      /\ mSocketMap' \in [SOCKETS -> Handlers \cup {NULL}]
      /\ mPollFD' \in Seq(SOCKETS)
      /\ mNumToPoll' \in Nat
      /\ clientSocket' = [clientSocket EXCEPT ![c] = fd]
      /\ mClients' = [mClients EXCEPT ![c] = fd]
      /\ mClientSockets' = [mClientSockets EXCEPT ![fd] = c]
      /\ clientSocket[c] = NULL
    BY <1>1, <1>2, Adopted
<1>4. TypeOK'
    BY <1>1, <1>2, <1>3 DEF Kinds
<1>5. CallbackClientIsLive'
    BY <1>1, <1>2, <1>3 DEF CallbackClientIsLive, LiveClients
<1>6. PassInv'
    BY <1>3, GarbageIsNoNumber DEF PassInv, InPass
<1> QED BY <1>3, <1>4, <1>5, <1>6

\* A connection taken from a listening socket becomes a client.
LEMMA ClientAccepted ==
    ASSUME IInv, NEW c \in CLIENTS, NEW fd \in SOCKETS, NEW sd \in SOCKETS,
           AcceptClient(sd, fd, c)
    PROVE  IInv'
<1> USE DEF IInv, TypeOK, SocketsTypeOK, PlatformTypeOK
<1>1. /\ kind' = [kind EXCEPT ![fd] = "connected"]
      /\ kind[fd] = "closed"
      /\ nonblock' \in [SOCKETS -> BOOLEAN]
      /\ input' \in [SOCKETS -> Inputs]
    BY DEF AcceptClient, AcceptSocket, Lowest, OpenSockets, Inputs
<1>2. /\ adoptClient(c, fd)
      /\ UNCHANGED <<revents, serverSocket, mServers, mServerSockets,
                     mClientCallback, current, result>>
      /\ pc' = "pass" /\ next' = next + 1
    BY DEF AcceptClient, NextSlot, servers, caller
<1>3. /\ RegistryInv' /\ OwnerInv'
      /\ mSocketMap' \in [SOCKETS -> Handlers \cup {NULL}]
      /\ mPollFD' \in Seq(SOCKETS)
      /\ mNumToPoll' \in Nat
      /\ clientSocket' = [clientSocket EXCEPT ![c] = fd]
      /\ mClients' = [mClients EXCEPT ![c] = fd]
      /\ mClientSockets' = [mClientSockets EXCEPT ![fd] = c]
      /\ clientSocket[c] = NULL
    BY <1>1, <1>2, Adopted
<1>4. TypeOK'
    BY <1>1, <1>2, <1>3 DEF Kinds, PCs
<1>5. CallbackClientIsLive'
    BY <1>1, <1>2, <1>3 DEF CallbackClientIsLive, LiveClients
<1>6. PassInv'
    BY <1>3, GarbageIsNoNumber DEF PassInv, InPass
<1> QED BY <1>3, <1>4, <1>5, <1>6

-----------------------------------------------------------------------------
(* Steps that open and close nothing. *)

\* The registry and the owners depend on these variables only.
LEMMA OwnersUntouched ==
    ASSUME RegistryInv, OwnerInv,
           UNCHANGED <<kind, mSocketMap, mPollFD, mNumToPoll, clientSocket,
                       serverSocket, mClients, mClientSockets>>
    PROVE  RegistryInv' /\ OwnerInv' /\ (CallbackClientIsLive /\ UNCHANGED current
                                            => CallbackClientIsLive')
BY DEF RegistryInv, OwnerInv, RegistryMatchesSockets, PollArrayListsRegistry,
       ClientMapIsExact, DispatchTargetsLiveClient, SocketsOwnedOnce,
       KindsMatchOwners, CallbackClientIsLive, LiveClients, LiveServers, OpenSockets

\* A step that leaves the sockets alone, apart from what has arrived on them,
\* and only moves the thread on.
LEMMA ThreadMoves ==
    ASSUME IInv,
           UNCHANGED <<kind, mSocketMap, mPollFD, mNumToPoll, clients,
                       serverSocket, mServerSockets, current>>,
           nonblock' \in [SOCKETS -> BOOLEAN],
           input' \in [SOCKETS -> Inputs],
           revents' \in [Slots -> BOOLEAN],
           mServers' \in [SERVERS -> {INVALID_SOCKET, NULL}],
           mClientCallback' \in {"registered", NULL, Garbage},
           pc' \in PCs, next' \in Nat,
           result' \in Results,
           pc' \in InPass => mNumToPoll # Garbage
    PROVE  IInv'
<1>1. UNCHANGED <<clientSocket, mClients, mClientSockets>>
    BY DEF clients
<1>2. TypeOK'
    BY <1>1 DEF IInv, TypeOK, SocketsTypeOK, PlatformTypeOK
<1>3. RegistryInv' /\ OwnerInv' /\ CallbackClientIsLive'
    BY <1>1, OwnersUntouched DEF IInv
<1>4. PassInv'
    BY DEF PassInv, InPass
<1> QED BY <1>2, <1>3, <1>4 DEF IInv

\* A start that fails gives the descriptor back that it took, and deletes an
\* object that nobody knows yet.
LEMMA StartFailed ==
    ASSUME TypeOK, ClientStartFails \/ ServerStartFails
    PROVE  /\ kind' = kind
           /\ nonblock' \in [SOCKETS -> BOOLEAN]
           /\ input' \in [SOCKETS -> Inputs]
<1> USE DEF TypeOK, SocketsTypeOK
<1>1. CASE UNCHANGED sockets
    BY <1>1 DEF sockets
<1>2. ASSUME NEW fd \in SOCKETS, Lowest(fd), CloseSocket(fd)
      PROVE  /\ kind' = kind
             /\ nonblock' \in [SOCKETS -> BOOLEAN]
             /\ input' \in [SOCKETS -> Inputs]
    <2>1. kind[fd] = "closed"
        BY <1>2 DEF Lowest, OpenSockets
    <2> QED BY <1>2, <2>1 DEF CloseSocket, Inputs
<1> QED BY <1>1, <1>2 DEF ClientStartFails, ServerStartFails

LEMMA ServerStartFailed ==
    ASSUME IInv, NEW s \in SERVERS, StartServerFails(s)
    PROVE  /\ kind' = kind /\ serverSocket' = serverSocket
           /\ IInv'
<1>1. TypeOK /\ PassInv
    BY DEF IInv
<1>2. serverSocket' = serverSocket
    BY <1>1 DEF StartServerFails, deleteServer, LiveServers, TypeOK
<1>3. /\ kind' = kind
      /\ nonblock' \in [SOCKETS -> BOOLEAN]
      /\ input' \in [SOCKETS -> Inputs]
    BY <1>1, StartFailed DEF StartServerFails
<1> QED
    BY <1>1, <1>2, <1>3, ThreadMoves
    DEF StartServerFails, platform, registry, caller, TypeOK, SocketsTypeOK,
        PlatformTypeOK, PassInv

LEMMA ClientStartFailed ==
    ASSUME IInv, NEW c \in CLIENTS, StartClientFails(c)
    PROVE  /\ kind' = kind
           /\ UNCHANGED <<clientSocket, current>>
           /\ IInv'
<1>1. TypeOK /\ PassInv
    BY DEF IInv
<1>2. UNCHANGED <<clientSocket, current>>
    <2>1. c \notin LiveClients /\ deleteClient(c)
        BY DEF StartClientFails
    <2>2. current # c
        BY <2>1, NullIsNoObject DEF IInv, CallbackClientIsLive
    <2> QED BY <1>1, <2>1, <2>2 DEF deleteClient, LiveClients, TypeOK
<1>3. /\ kind' = kind
      /\ nonblock' \in [SOCKETS -> BOOLEAN]
      /\ input' \in [SOCKETS -> Inputs]
    BY <1>1, StartFailed DEF StartClientFails
<1> QED
    BY <1>1, <1>2, <1>3, ThreadMoves
    DEF StartClientFails, platform, registry, clients, servers, TypeOK, SocketsTypeOK,
        PlatformTypeOK, PassInv

\* A client event: the client handed to the program is the live owner.
LEMMA ClientCalled ==
    ASSUME IInv, NEW sd \in SOCKETS, handleClientEvent(sd)
    PROVE  IInv'
<1> USE DEF IInv, TypeOK, SocketsTypeOK, PlatformTypeOK
<1>1. /\ pc = "pass" /\ mSocketMap[sd] = "clientSocketCallback"
      /\ pc' \in {"undefined", "callback"}
      /\ current' = mClientSockets[sd] /\ mClientSockets[sd] # NULL
      /\ result' = NULL
      /\ UNCHANGED <<kind, nonblock, input, mSocketMap, mPollFD, mNumToPoll,
                     revents, next, clientSocket, mClients, mClientSockets,
                     serverSocket, mServers, mServerSockets, mClientCallback>>
    BY DEF handleClientEvent, Handles, Dispatching, sockets, registry, clients, servers
<1>2. /\ mClientSockets[sd] \in LiveClients
      /\ clientSocket[mClientSockets[sd]] = sd
      /\ mClients[mClientSockets[sd]] = sd
    BY <1>1 DEF OwnerInv, DispatchTargetsLiveClient
<1>3. kind[sd] \in {"connected", "refused"}
    BY <1>2 DEF OwnerInv, KindsMatchOwners
<1>4. CallbackClientIsLive'
    BY <1>1, <1>2, <1>3 DEF CallbackClientIsLive, LiveClients
<1>5. TypeOK'
    BY <1>1 DEF PCs, Results
<1>6. RegistryInv' /\ OwnerInv'
    BY <1>1, OwnersUntouched
<1>7. PassInv'
    BY <1>1 DEF PassInv, InPass
<1> QED BY <1>4, <1>5, <1>6, <1>7

\* HandleSocket, at once or after a sleep.
LEMMA ClientRead ==
    ASSUME IInv, pc \in {"callback", "reading"}, ReadClient
    PROVE  IInv'
<1> USE DEF IInv, TypeOK, SocketsTypeOK, PlatformTypeOK
<1>1. PICK res \in {"bytes", "none", "error"} :
         ReadSocket(clientSocket[current], res)
         /\ result' = IF res = "none" THEN "closed" ELSE res
    BY DEF ReadClient
<1>2. kind' = kind /\ nonblock' = nonblock /\ input' \in [SOCKETS -> Inputs]
    BY <1>1 DEF ReadSocket, Inputs
<1>3. /\ pc' = "callback"
      /\ UNCHANGED <<mSocketMap, mPollFD, mNumToPoll, revents, next, clients,
                     serverSocket, mServers, mServerSockets, mClientCallback,
                     current>>
    BY DEF ReadClient, registry, servers
<1> QED BY <1>1, <1>2, <1>3, ThreadMoves DEF PassInv, PCs, Results, InPass

\* The end of the callback.
LEMMA CallbackReturned ==
    ASSUME IInv, ReturnFromCallback
    PROVE  IInv'
<1> USE DEF IInv, TypeOK, SocketsTypeOK, PlatformTypeOK
<1>1. /\ pc = "callback" /\ pc' = "pass" /\ next' = next + 1
      /\ current' = NULL /\ result' = NULL
      /\ UNCHANGED <<kind, nonblock, input, mSocketMap, mPollFD, mNumToPoll,
                     revents, clientSocket, mClients, mClientSockets,
                     serverSocket, mServers, mServerSockets, mClientCallback>>
    BY DEF ReturnFromCallback, NextSlot, sockets, registry, clients, servers
<1>2. RegistryInv' /\ OwnerInv'
    BY <1>1, OwnersUntouched
<1>3. TypeOK' /\ PassInv' /\ CallbackClientIsLive'
    BY <1>1 DEF PCs, PassInv, InPass, CallbackClientIsLive, Results
<1> QED BY <1>2, <1>3

-----------------------------------------------------------------------------
(* The inductive invariant. *)

LEMMA IInvInitially == Init => IInv
<1> SUFFICES ASSUME Init PROVE IInv
    OBVIOUS
<1> USE DEF Init, SocketsInit, PlatformInit
<1>1. TypeOK
    BY DEF TypeOK, SocketsTypeOK, PlatformTypeOK, Kinds, Inputs, PCs, Results
<1>2. Registered(mSocketMap) = {} /\ LiveClients = {} /\ LiveServers = {}
      /\ OpenSockets = {}
    BY DEF Registered, LiveClients, LiveServers, OpenSockets
<1>3. PollArrayListsRegistry
    <2>1. Cardinality({}) = 0
        BY FS_EmptySet
    <2>2. << >> \in [1 .. 0 -> {}]
        OBVIOUS
    <2>3. << >> \in SortedListings({})
        BY <2>1, <2>2 DEF SortedListings
    <2>4. 0 <= MaxPoll /\ Len(<< >>) = 0
        BY ArrayHoldsAllSockets
    <2> QED BY <1>2, <2>3, <2>4 DEF PollArrayListsRegistry
<1>4. RegistryMatchesSockets
    BY DEF RegistryMatchesSockets
<1>5. OwnerInv
    BY <1>2, NullIsNoSocket
    DEF OwnerInv, ClientMapIsExact, DispatchTargetsLiveClient, SocketsOwnedOnce,
        KindsMatchOwners, Handlers
<1> QED BY <1>1, <1>3, <1>4, <1>5 DEF IInv, RegistryInv, CallbackClientIsLive, PassInv, InPass

LEMMA IInvPreserved == IInv /\ [Next]_vars => IInv'
<1> SUFFICES ASSUME IInv, [Next]_vars PROVE IInv'
    OBVIOUS
<1>0. TypeOK /\ PassInv
    BY DEF IInv
<1> USE DEF sockets, registry, platform, servers, caller
<1>1. CASE RegisterClientCallback
    BY <1>0, <1>1, ThreadMoves
    DEF RegisterClientCallback, TypeOK, SocketsTypeOK, PlatformTypeOK, PassInv
<1>2. ASSUME NEW s \in SERVERS, StartServerFails(s) PROVE IInv'
    BY <1>2, ServerStartFailed
<1>3. CASE HandleEvents
    <2>1. /\ kind' = kind /\ nonblock' = nonblock
          /\ input' \in [SOCKETS -> Inputs]
        BY <1>0, <1>3 DEF HandleEvents, CollectError, Inputs, TypeOK, SocketsTypeOK
    <2> QED
        BY <1>0, <1>3, <2>1, ThreadMoves
        DEF HandleEvents, TypeOK, SocketsTypeOK, PlatformTypeOK, PCs, InPass
<1>4. CASE HandleSocket
    BY <1>4, ClientRead DEF HandleSocket
<1>5. CASE ReadBlocks
    BY <1>0, <1>5, ThreadMoves
    DEF ReadBlocks, TypeOK, SocketsTypeOK, PlatformTypeOK, PCs, PassInv, InPass
<1>6. CASE PollReturns
    <2>1. revents' \in [Slots -> BOOLEAN]
        <3>1. ASSUME PollReports PROVE \A k \in Slots : revents'[k] \in BOOLEAN
            BY <1>0, <3>1 DEF PollReports, TypeOK, PlatformTypeOK, Readable
        <3>2. CASE PollReports
            BY <3>1, <3>2 DEF PollReports
        <3>3. CASE PollSleeps \/ PollTimesOut
            BY <1>0, <3>3 DEF PollSleeps, PollTimesOut, TypeOK, PlatformTypeOK
        <3> QED BY <1>6, <3>2, <3>3 DEF PollReturns
    <2> QED
        BY <1>0, <1>6, <2>1, ThreadMoves
        DEF PollReturns, PollSleeps, PollReports, PollTimesOut, TypeOK,
            SocketsTypeOK, PlatformTypeOK, PCs, InPass
<1>7. ASSUME NEW c \in CLIENTS, Send(c) PROVE IInv'
    <2>1. /\ kind' = kind /\ nonblock' = nonblock
          /\ input' \in [SOCKETS -> Inputs]
        BY <1>0, <1>7 DEF Send, CollectError, Inputs, TypeOK, SocketsTypeOK
    <2> QED
        BY <1>0, <1>7, <2>1, ThreadMoves
        DEF Send, TypeOK, SocketsTypeOK, PlatformTypeOK, PassInv, Results
<1>8. ASSUME WriteKills \/ WriteWakes \/ \E c \in CLIENTS : SendBlocks(c)
      PROVE  IInv'
    BY <1>0, <1>8, ThreadMoves
    DEF WriteKills, WriteWakes, InProgram, SendBlocks, TypeOK, SocketsTypeOK,
        PlatformTypeOK, PCs, PassInv, InPass, Results
<1>9. CASE PollBreaks
    BY <1>0, <1>9, ThreadMoves
    DEF PollBreaks, PollUninitialised, TypeOK, SocketsTypeOK, PlatformTypeOK, PCs,
        InPass
<1>10. CASE (SkipSlot \/ EndPass)
            /\ UNCHANGED <<sockets, clients, servers, mClientCallback, caller>>
    BY <1>0, <1>10, ThreadMoves
    DEF SkipSlot, EndPass, TypeOK, SocketsTypeOK, PlatformTypeOK, PCs, PassInv, InPass
<1>12. ASSUME NEW sd \in SOCKETS, AcceptFails(sd) \/ NobodyToCall(sd) PROVE IInv'
    BY <1>0, <1>12, ThreadMoves
    DEF AcceptFails, NobodyToCall, Handles, Dispatching, NextSlot,
        TypeOK, SocketsTypeOK, PlatformTypeOK, PCs, PassInv, InPass
<1>13. ASSUME NEW sd \in SOCKETS, AcceptBlocks(sd) PROVE IInv'
    BY <1>0, <1>13, ThreadMoves
    DEF AcceptBlocks, Handles, Dispatching,
        TypeOK, SocketsTypeOK, PlatformTypeOK, PCs, PassInv, InPass
<1>14. ASSUME NEW sd \in SOCKETS, NEW fd \in SOCKETS, NEW c \in CLIENTS,
              handleServerEvent(sd, fd, c) \/ AcceptWakes(sd, fd, c)
       PROVE  IInv'
    BY <1>14, ClientAccepted DEF handleServerEvent, AcceptWakes
<1>15. CASE ReadWakes
    BY <1>15, ClientRead DEF ReadWakes
<1>16. CASE Remote /\ ~WriteWakes
    <2>1. kind' = kind /\ nonblock' = nonblock /\ input' \in [SOCKETS -> Inputs]
        BY <1>0, <1>16
        DEF Remote, RemoteConnects, RemoteSends, RemoteCloses, RemoteResets,
            Arrives, Inputs, TypeOK, SocketsTypeOK
    <2> QED
        BY <1>0, <1>16, <2>1, ThreadMoves
        DEF Remote, TypeOK, SocketsTypeOK, PlatformTypeOK, PassInv
<1>17. CASE UNCHANGED vars
    BY <1>0, <1>17, ThreadMoves
    DEF vars, TypeOK, SocketsTypeOK, PlatformTypeOK, PassInv
<1>18. CASE Program
    BY <1>1, <1>2, <1>3, <1>4, <1>5, <1>7, <1>8, <1>18, ClientStarted,
       ClientStartFailed, ClientStopped, ServerStarted, ServerStopped,
       CallbackReturned DEF Program, Calls
<1>19. CASE Dispatch
    BY <1>10, <1>12, <1>13, <1>14, <1>15, <1>19, ClientCalled DEF Dispatch
<1> QED BY <1>6, <1>8, <1>9, <1>16, <1>17, <1>18, <1>19 DEF Next, PollLoop

LEMMA IInvariant == Spec => []IInv
BY IInvInitially, IInvPreserved, PTL DEF Spec

\* The state is well typed.
THEOREM TypeCorrect == Spec => []TypeOK
BY IInvariant, PTL DEF IInv

\* handleClientEvent hands the program the live client that owns the
\* descriptor, in spite of the entries StopClient leaves in mClientSockets.
THEOREM DispatchIsSafe == Spec => []DispatchTargetsLiveClient
BY IInvariant, PTL DEF IInv, OwnerInv

\* The client of a running callback stays alive and known to the manager until
\* the program itself stops it.
THEOREM CallbackIsSafe == Spec => []CallbackClientIsLive
BY IInvariant, PTL DEF IInv

\* Every open descriptor has exactly one owner.
THEOREM OneOwner == Spec => []SocketsOwnedOnce
BY IInvariant, PTL DEF IInv, OwnerInv

\* mClients has exactly the live clients.
THEOREM ClientMapExact == Spec => []ClientMapIsExact
BY IInvariant, PTL DEF IInv, OwnerInv

\* The poller polls exactly the open descriptors, each with its handler.
THEOREM RegistryIsExact == Spec => []RegistryMatchesSockets
BY IInvariant, PTL DEF IInv, RegistryInv

\* The poll array lists the registered descriptors within its bound at every
\* moment of a pass.
THEOREM PollArrayIsExact == Spec => []PollArrayListsRegistry
BY IInvariant, PTL DEF IInv, RegistryInv
=============================================================================

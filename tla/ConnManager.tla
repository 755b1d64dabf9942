----------------------------- MODULE ConnManager -----------------------------
(***************************************************************************)
(* The connection manager of src/src/ConnManager.cpp with the Client and   *)
(* Server objects it owns (src/src/Client.cpp, src/src/Server.cpp), on top *)
(* of the poller and of the sockets.  One thread; what interleaves are the *)
(* remote hosts, the iterations of PollSockets' loop and the calls that    *)
(* the program makes back into TorpClass from its client callback.         *)
(*                                                                         *)
(* The program is the most general one that uses the IConnManager          *)
(* interface, Client::Send, and Client::HandleSocket from the callback on  *)
(* the client it was called for.  CLIENTS and SERVERS are heap addresses:  *)
(* an address is used again after the object at it was deleted.            *)
(***************************************************************************)
EXTENDS Platform

CONSTANTS
    CLIENTS,    \* addresses for Client objects
    SERVERS     \* addresses for Server objects

ASSUME RoomForClients ==
    IsFiniteSet(CLIENTS) /\ Cardinality(CLIENTS) >= Cardinality(SOCKETS)

ASSUME NullIsNoObject == NULL \notin CLIENTS \cup SERVERS
ASSUME NullIsNoResult == NULL \notin {"bytes", "error", "closed", "sent"}

VARIABLES
    clientSocket,    \* mSocket of the Client at an address, NULL: no object
    serverSocket,    \* mSocket of the Server at an address, NULL: no object
    mClients,        \* map Client* -> SOCKET
    mClientSockets,  \* map SOCKET -> Client*
    mServers,        \* map Server* -> SOCKET
    mServerSockets,  \* map SOCKET -> Server*
    mClientCallback, \* "registered", NULL, or never set
    current,         \* the client whose callback runs, NULL: none, or stopped
    result           \* what came of the callback's last HandleSocket or Send

clients == <<clientSocket, mClients, mClientSockets>>
servers == <<serverSocket, mServers, mServerSockets>>
caller  == <<current, result>>
vars == <<sockets, platform, clients, servers, mClientCallback, caller>>

Results == {"bytes", "error", \* HandleSocket returned 0, with bytes or without
            "closed",         \* it returned -1
            "sent",           \* Send returned
            NULL}             \* neither was called yet

LiveClients == {c \in CLIENTS : clientSocket[c] # NULL}
LiveServers == {s \in SERVERS : serverSocket[s] # NULL}

TypeOK ==
    /\ SocketsTypeOK
    /\ PlatformTypeOK
    /\ clientSocket \in [CLIENTS -> SOCKETS \cup {NULL}]
    /\ serverSocket \in [SERVERS -> SOCKETS \cup {NULL}]
    /\ mClients \in [CLIENTS -> SOCKETS \cup {NULL}]
    /\ mClientSockets \in [SOCKETS -> CLIENTS \cup {NULL}]
    /\ mServers \in [SERVERS -> {INVALID_SOCKET, NULL}]
    /\ mServerSockets \in [SOCKETS -> SERVERS \cup {NULL}]
    /\ mClientCallback \in {"registered", NULL, Garbage}
    /\ current \in CLIENTS \cup {NULL}
    /\ result \in Results

Init ==
    /\ SocketsInit
    /\ PlatformInit
    /\ clientSocket = [c \in CLIENTS |-> NULL]
    /\ serverSocket = [s \in SERVERS |-> NULL]
    /\ mClients = [c \in CLIENTS |-> NULL]
    /\ mClientSockets = [s \in SOCKETS |-> NULL]
    /\ mServers = [s \in SERVERS |-> NULL]
    /\ mServerSockets = [s \in SOCKETS |-> NULL]
    /\ mClientCallback \in {NULL, Garbage}
    /\ current = NULL
    /\ result = NULL

-----------------------------------------------------------------------------
(* Calls of the program, from main or from inside its client callback.     *)
(* A call on an object that is not in mClients or mServers returns 1 and   *)
(* changes nothing.                                                        *)

InProgram == pc \in {"app", "callback"}

\* A write to a connection that was refused or that the peer has ended or
\* reset, perhaps behind data not read yet: once its error was reported, the
\* next Send, or Flush in HandleEvents, raises SIGPIPE.
WriteKills ==
    /\ InProgram /\ \E c \in LiveClients : Readable(clientSocket[c])
    /\ pc' = "killed"
    /\ UNCHANGED <<sockets, registry, revents, next, clients, servers,
                   mClientCallback, caller>>

\* Send returns 0 whatever became of the write.
Send(c) ==
    /\ InProgram /\ c \in LiveClients
    /\ CollectError({clientSocket[c]})
    /\ result' = IF pc = "callback" THEN "sent" ELSE result
    /\ UNCHANGED <<platform, clients, servers, mClientCallback, current>>

\* A write to a blocking connection sleeps until the peer reads.
SendBlocks(c) ==
    /\ InProgram /\ c \in LiveClients
    /\ ~nonblock[clientSocket[c]] /\ input[clientSocket[c]] # "reset"
    /\ pc' = IF pc = "callback" THEN "writing" ELSE "appWriting"
    /\ UNCHANGED <<sockets, registry, revents, next, clients, servers,
                   mClientCallback, caller>>

RegisterClientCallback ==
    /\ pc = "app"
    /\ mClientCallback' = "registered"
    /\ UNCHANGED <<sockets, platform, clients, servers, caller>>

\* Mutant: an entry of the reverse map is inserted, never replaced.
adoptClient_KeepsOldOwner(c, fd) ==
    /\ c \notin LiveClients
    /\ clientSocket' = [clientSocket EXCEPT ![c] = fd]
    /\ mClients' = [mClients EXCEPT ![c] = fd]
    /\ mClientSockets' = [mClientSockets EXCEPT ![fd] = IF @ = NULL THEN c ELSE @]
    /\ AddSocketForPolling(fd, "clientSocketCallback")

\* A Client object at c takes over the descriptor fd and is polled.
adoptClient(c, fd) ==
    /\ c \notin LiveClients
    /\ clientSocket' = [clientSocket EXCEPT ![c] = fd]
    /\ mClients' = [mClients EXCEPT ![c] = fd]
    /\ mClientSockets' = [mClientSockets EXCEPT ![fd] = c]
    /\ AddSocketForPolling(fd, "clientSocketCallback")

\* Client::Start, when it returns 0.
ClientStart(fd) ==
    \E nb \in BOOLEAN, k \in {"connected", "refused"} :
        /\ setupSocket(nb, 0)
        /\ ConnectSocket(k, nb)
        /\ openSocket(fd, k, nb, IF k = "refused" THEN "eof" ELSE "empty")

StartClient(c, fd) ==
    /\ InProgram
    /\ ClientStart(fd)
    /\ adoptClient(c, fd)
    /\ UNCHANGED <<revents, pc, next, servers, mClientCallback, caller>>

\* Mutant: error_cleanup leaves the socket open.
ClientStartFails_Leaks == \E fd \in SOCKETS : openSocket(fd, "connected", FALSE, "empty")

\* Client::Start, when it returns 1: no descriptor is left, or setupSocket or
\* ConnectSocket fails and error_cleanup closes the descriptor that was taken.
ClientStartFails ==
    \/ ~DescriptorsLeft /\ UNCHANGED sockets
    \/ \E fd \in SOCKETS : Lowest(fd) /\ CloseSocket(fd)

\* Mutant: the descriptor stays polled.
StopClient_StaysPolled(c) ==
    /\ InProgram /\ mClients[c] # NULL
    /\ CloseSocket(clientSocket[c])
    /\ mClients' = [mClients EXCEPT ![c] = NULL]
    /\ clientSocket' = [clientSocket EXCEPT ![c] = NULL]
    /\ current' = IF current = c THEN NULL ELSE current
    /\ UNCHANGED <<platform, mClientSockets, servers, mClientCallback, result>>

\* Mutant: the key stays in mClients.
StopClient_KeepsKey(c) ==
    /\ InProgram /\ c \in LiveClients
    /\ RemoveSocketFromPolling(clientSocket[c])
    /\ CloseSocket(clientSocket[c])
    /\ clientSocket' = [clientSocket EXCEPT ![c] = NULL]
    /\ current' = IF current = c THEN NULL ELSE current
    /\ UNCHANGED <<revents, pc, next, mClients, mClientSockets, servers,
                   mClientCallback, result>>

\* Client::Stop gives the descriptor back, and the destructor finds none left.
ClientStop(c) == CloseSocket(clientSocket[c])

deleteClient(c) ==
    /\ clientSocket' = [clientSocket EXCEPT ![c] = NULL]
    /\ current' = IF current = c THEN NULL ELSE current

\* A Client object at c is deleted again before a map or the poller has it.
StartClientFails(c) ==
    /\ InProgram /\ c \notin LiveClients
    /\ ClientStartFails
    /\ deleteClient(c)
    /\ UNCHANGED <<platform, mClients, mClientSockets, servers,
                   mClientCallback, result>>

\* mClientSockets keeps its entry for the descriptor.
StopClient(c) ==
    /\ InProgram /\ mClients[c] # NULL
    /\ RemoveSocketFromPolling(clientSocket[c])
    /\ ClientStop(c)
    /\ mClients' = [mClients EXCEPT ![c] = NULL]
    /\ deleteClient(c)
    /\ UNCHANGED <<revents, pc, next, mClientSockets, servers,
                   mClientCallback, result>>

\* Server::Start, when it returns 0.  It looks for a negative result of
\* setupSocket, and gets 1 for a failure: the socket may stay blocking.
ServerStart(fd) ==
    \E nb \in BOOLEAN, res \in {0, 1} :
        /\ setupSocket(nb, res) /\ res >= 0
        /\ openSocket(fd, "listening", nb, "empty")

StartServer(s, fd) ==
    /\ InProgram /\ s \notin LiveServers
    /\ ServerStart(fd)
    /\ serverSocket' = [serverSocket EXCEPT ![s] = fd]
    /\ mServers' = [mServers EXCEPT ![s] = INVALID_SOCKET]
    /\ mServerSockets' = [mServerSockets EXCEPT ![fd] = s]
    /\ AddSocketForPolling(fd, "serverSocketCallback")
    /\ UNCHANGED <<revents, pc, next, clients, mClientCallback, caller>>

\* Mutant: the descriptor stays polled.
StopServer_StaysPolled(s) ==
    /\ InProgram /\ s \in LiveServers /\ mServers[s] # NULL
    /\ CloseSocket(serverSocket[s])
    /\ mServers' = [mServers EXCEPT ![s] = NULL]
    /\ serverSocket' = [serverSocket EXCEPT ![s] = NULL]
    /\ UNCHANGED <<platform, clients, mServerSockets, mClientCallback, caller>>

\* Server::Stop and the destructor, as those of a Client.
ServerStop(s) == CloseSocket(serverSocket[s])

deleteServer(s) == serverSocket' = [serverSocket EXCEPT ![s] = NULL]

\* Mutant: error_cleanup leaves the socket open.
ServerStartFails_Leaks == \E fd \in SOCKETS : openSocket(fd, "listening", FALSE, "empty")

\* Server::Start, when it returns 1: no descriptor is left, or bind or listen
\* fails and error_cleanup closes the descriptor that was taken.
ServerStartFails ==
    \/ ~DescriptorsLeft /\ UNCHANGED sockets
    \/ \E fd \in SOCKETS : Lowest(fd) /\ CloseSocket(fd)

\* The object is deleted; the key inserted before Start stays in mServers.
StartServerFails(s) ==
    /\ InProgram /\ s \notin LiveServers
    /\ mServers' = [mServers EXCEPT ![s] = INVALID_SOCKET]
    /\ ServerStartFails
    /\ deleteServer(s)
    /\ UNCHANGED <<platform, clients, mServerSockets, mClientCallback, caller>>

\* The program has a pointer only to a server that was started.
StopServer(s) ==
    /\ InProgram /\ s \in LiveServers /\ mServers[s] # NULL
    /\ RemoveSocketFromPolling(serverSocket[s])
    /\ ServerStop(s)
    /\ mServers' = [mServers EXCEPT ![s] = NULL]
    /\ deleteServer(s)
    /\ UNCHANGED <<revents, pc, next, clients, mServerSockets,
                   mClientCallback, caller>>

\* Flush of the clients, which collects the error of a reset connection with
\* unsent bytes, and of the servers, which is empty; then PollSockets.
HandleEvents ==
    /\ pc = "app"
    /\ \E sds \in SUBSET {s \in SOCKETS : input[s] = "reset"} : CollectError(sds)
    /\ pc' = "polling"
    /\ UNCHANGED <<registry, revents, next, clients, servers,
                   mClientCallback, caller>>

-----------------------------------------------------------------------------
(* The loop of PollSockets calls back into the connection manager. *)

Handles(sd, handler) ==
    Dispatching /\ sd = mPollFD[next] /\ mSocketMap[sd] = handler

\* Client(mAddress) with setSocket, entered in the maps and polled.
AcceptClient(sd, fd, c) ==
    /\ AcceptSocket(sd, fd)
    /\ adoptClient(c, fd)
    /\ NextSlot
    /\ UNCHANGED <<revents, servers, mClientCallback, caller>>

handleServerEvent(sd, fd, c) ==
    Handles(sd, "serverSocketCallback") /\ AcceptClient(sd, fd, c)

\* accept(2) fails: nothing to accept, or no descriptor left.
AcceptFails(sd) ==
    /\ Handles(sd, "serverSocketCallback")
    /\ ~DescriptorsLeft \/ (input[sd] = "empty" /\ nonblock[sd])
    /\ NextSlot
    /\ UNCHANGED <<sockets, registry, revents, clients, servers,
                   mClientCallback, caller>>

\* A descriptor is reserved before accept(2) goes to sleep.
AcceptBlocks(sd) ==
    /\ Handles(sd, "serverSocketCallback")
    /\ DescriptorsLeft /\ WouldBlock(sd)
    /\ pc' = "accepting"
    /\ UNCHANGED <<sockets, registry, revents, next, clients, servers,
                   mClientCallback, caller>>

AcceptWakes(sd, fd, c) ==
    pc = "accepting" /\ sd = mPollFD[next] /\ AcceptClient(sd, fd, c)

\* No client has the descriptor, or the program registered no callback.
NobodyToCall(sd) ==
    /\ Handles(sd, "clientSocketCallback")
    /\ mClientSockets[sd] = NULL \/ mClientCallback = NULL
    /\ NextSlot
    /\ UNCHANGED <<sockets, registry, revents, clients, servers,
                   mClientCallback, caller>>

handleClientEvent(sd) ==
    /\ Handles(sd, "clientSocketCallback")
    /\ mClientSockets[sd] # NULL
    /\ mClientCallback # NULL
    /\ pc' = IF mClientCallback = Garbage THEN "undefined" ELSE "callback"
    /\ current' = mClientSockets[sd]
    /\ result' = NULL
    /\ UNCHANGED <<sockets, registry, revents, next, clients, servers,
                   mClientCallback>>

-----------------------------------------------------------------------------
(* The client callback of the program. *)

\* Client::HandleSocket: -1 when ReadSocket returned 0; an error is hidden.
ReadClient ==
    /\ \E res \in {"bytes", "none", "error"} :
          /\ ReadSocket(clientSocket[current], res)
          /\ result' = IF res = "none" THEN "closed" ELSE res
    /\ pc' = "callback"
    /\ UNCHANGED <<registry, revents, next, clients, servers,
                   mClientCallback, current>>

HandleSocket == pc = "callback" /\ current # NULL /\ ReadClient

ReadBlocks ==
    /\ pc = "callback" /\ current # NULL
    /\ WouldBlock(clientSocket[current])
    /\ pc' = "reading"
    /\ UNCHANGED <<sockets, registry, revents, next, clients, servers,
                   mClientCallback, caller>>

ReadWakes == pc = "reading" /\ ReadClient

ReturnFromCallback ==
    /\ pc = "callback"
    /\ NextSlot
    /\ current' = NULL
    /\ result' = NULL
    /\ UNCHANGED <<sockets, registry, revents, clients, servers,
                   mClientCallback>>

-----------------------------------------------------------------------------
\* What the program calls, from main and from its callback.
Calls ==
    \/ RegisterClientCallback
    \/ \E c \in CLIENTS :
          \/ StartClientFails(c)
          \/ StopClient(c)
          \/ Send(c)
          \/ SendBlocks(c)
          \/ \E fd \in SOCKETS : StartClient(c, fd)
    \/ WriteKills
    \/ \E s \in SERVERS :
          \/ StartServerFails(s)
          \/ StopServer(s)
          \/ \E fd \in SOCKETS : StartServer(s, fd)
    \/ HandleSocket
    \/ ReadBlocks
    \/ ReturnFromCallback

Program == Calls \/ HandleEvents

\* What TorpClass does between the call of HandleEvents and its return: the
\* wait in poll(2), then the loop over the slots.
PollReturns ==
    /\ PollSleeps \/ PollReports \/ PollTimesOut
    /\ UNCHANGED <<sockets, clients, servers, mClientCallback, caller>>

Dispatch ==
    \/ (SkipSlot \/ EndPass)
       /\ UNCHANGED <<sockets, clients, servers, mClientCallback, caller>>
    \/ \E sd \in SOCKETS :
          \/ AcceptFails(sd)
          \/ AcceptBlocks(sd)
          \/ NobodyToCall(sd)
          \/ handleClientEvent(sd)
          \/ \E fd \in SOCKETS, c \in CLIENTS :
                handleServerEvent(sd, fd, c) \/ AcceptWakes(sd, fd, c)
    \/ ReadWakes

PollBreaks ==
    /\ PollUninitialised
    /\ UNCHANGED <<sockets, clients, servers, mClientCallback, caller>>

PollLoop == PollReturns \/ PollBreaks \/ Dispatch

\* The peer of a sleeping write reads, ends or resets the connection.
WriteWakes ==
    /\ pc \in {"writing", "appWriting"}
    /\ pc' = IF pc = "writing" THEN "callback" ELSE "app"
    /\ result' = IF pc = "writing" THEN "sent" ELSE result
    /\ UNCHANGED <<sockets, registry, revents, next, clients, servers,
                   mClientCallback, current>>

Remote ==
    \/ /\ pc \notin Over
       /\ \E fd \in SOCKETS : \/ RemoteConnects(fd)
                              \/ RemoteSends(fd)
                              \/ RemoteCloses(fd)
                              \/ RemoteResets(fd)
       /\ UNCHANGED <<platform, clients, servers, mClientCallback, caller>>
    \/ WriteWakes

Next == Program \/ PollLoop \/ Remote

Spec == Init /\ [][Next]_vars

-----------------------------------------------------------------------------
(* Safety. *)

\* Whatever the order of starts, stops, accepts and reuses of descriptors and
\* addresses, a descriptor polled for a client leads to the one live client
\* that holds it, although StopClient leaves its entry in mClientSockets:
\* handleClientEvent never hands the program a deleted or a wrong client.
DispatchTargetsLiveClient ==
    \A sd \in SOCKETS : mSocketMap[sd] = "clientSocketCallback" =>
        LET c == mClientSockets[sd]
        IN  c \in LiveClients /\ clientSocket[c] = sd /\ mClients[c] = sd

\* The client of a callback in progress is alive, on an open descriptor, and
\* StopClient would find it: HandleSocket never reads a closed descriptor.
CallbackClientIsLive ==
    current # NULL =>
        /\ current \in LiveClients
        /\ mClients[current] = clientSocket[current]
        /\ kind[clientSocket[current]] \in {"connected", "refused"}

\* Every open descriptor belongs to exactly one live Client or Server, and
\* every live object has one: no start, failed start, stop or accept leaks a
\* descriptor or closes the descriptor of another object.
SocketsOwnedOnce ==
    /\ OpenSockets = {clientSocket[c] : c \in LiveClients}
                         \cup {serverSocket[s] : s \in LiveServers}
    /\ \A c, d \in LiveClients : clientSocket[c] = clientSocket[d] => c = d
    /\ \A s, t \in LiveServers : serverSocket[s] = serverSocket[t] => s = t
    /\ \A c \in LiveClients, s \in LiveServers : clientSocket[c] # serverSocket[s]

\* The poller polls exactly the open descriptors, each with the handler of
\* its kind: AddSocketForPolling never meets an old entry of a descriptor
\* that was closed and given out again.
RegistryMatchesSockets ==
    \A sd \in SOCKETS :
        mSocketMap[sd] = IF kind[sd] = "closed" THEN NULL
                         ELSE IF kind[sd] = "listening"
                              THEN "serverSocketCallback"
                              ELSE "clientSocketCallback"

\* The array handed to poll(2) lists the registered descriptors once each and
\* fits mPollFD, at every moment of a pass: the lookup of mPollFD[i].fd in
\* PollSockets' loop never inserts a null handler and calls it.
PollArrayListsRegistry ==
    IF mNumToPoll = Garbage
    THEN Registered(mSocketMap) = {}
    ELSE /\ mPollFD \in SortedListings(Registered(mSocketMap))
         /\ mNumToPoll = Len(mPollFD)
         /\ mNumToPoll <= MaxPoll

\* mClients has exactly the live clients: Flush and StopClient never follow a
\* pointer to a deleted one, and every live client is flushed.
ClientMapIsExact == \A c \in CLIENTS : mClients[c] = clientSocket[c]

-----------------------------------------------------------------------------
(* Refinement. *)

ServiceThread ==
    CASE pc \in {"app", "appWriting"} -> "program"
      [] pc \in {"polling", "pass", "accepting"} -> "events"
      [] pc \in {"callback", "reading", "writing"} -> "callback"
      [] OTHER -> "over"

Service == INSTANCE ConnService WITH
    Limit <- Cardinality(SOCKETS),
    connected <- LiveClients,
    listening <- LiveServers,
    inUse <- Cardinality(OpenSockets),
    thread <- ServiceThread,
    called <- IF pc \in Over THEN NULL ELSE current

\* The manager keeps what ConnService takes from its interface: it neither drops
\* nor invents a client, accepts only for a server that is running, calls the
\* program back only from HandleEvents and with a client the program has, a
\* start takes one descriptor, which the stop gives back, and a start that
\* fails takes none.
ImplementsConnService == Service!ServiceSpec
=============================================================================

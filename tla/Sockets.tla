------------------------------- MODULE Sockets -------------------------------
(***************************************************************************)
(* The process's socket descriptors and the remote hosts behind them, as   *)
(* src/src/SocketManager.cpp and src/src/Platform_Linux.cpp use them.  The *)
(* kernel is not part of the repository: what a system call answers is     *)
(* modelled from the way the code calls it and reads its result.           *)
(*                                                                         *)
(* Bytes are abstracted to what a read can tell apart: nothing there, some *)
(* data, the peer's end of stream, a reset connection.  On a listening     *)
(* socket "data" is a connection waiting to be accepted.                   *)
(***************************************************************************)
EXTENDS Integers, FiniteSets

CONSTANT SOCKETS        \* the descriptors this process may hold

ASSUME SocketsAreNumbers == SOCKETS \subseteq Nat /\ IsFiniteSet(SOCKETS)

INVALID_SOCKET == -1

VARIABLES
    kind,       \* what a descriptor is open on, "closed" when it is free
    nonblock,   \* TRUE iff O_NONBLOCK is set on it
    input       \* what a read (or an accept) of it would find

sockets == <<kind, nonblock, input>>

Kinds  == {"closed", "listening", "connected", "refused"}
Inputs == {"empty", "data", "eof", "reset"}

SocketsTypeOK ==
    /\ kind \in [SOCKETS -> Kinds]
    /\ nonblock \in [SOCKETS -> BOOLEAN]
    /\ input \in [SOCKETS -> Inputs]

SocketsInit ==
    /\ kind = [s \in SOCKETS |-> "closed"]
    /\ nonblock = [s \in SOCKETS |-> FALSE]
    /\ input = [s \in SOCKETS |-> "empty"]

OpenSockets == {s \in SOCKETS : kind[s] # "closed"}

\* socket(2) and accept(2) return the lowest descriptor that is free.
Lowest(fd) ==
    /\ fd \in SOCKETS \ OpenSockets
    /\ \A other \in SOCKETS \ OpenSockets : fd <= other

DescriptorsLeft == OpenSockets # SOCKETS

\* poll(2) reports POLLIN: on an ended or reset connection too.
Readable(fd) == fd \in OpenSockets /\ input[fd] # "empty"

\* read(2) or accept(2) sleeps until there is something to return.
WouldBlock(fd) == input[fd] = "empty" /\ ~nonblock[fd]

-----------------------------------------------------------------------------
(* The calls of the process. *)

\* A descriptor is allocated for a socket of the given kind.
openSocket(fd, k, nb, in) ==
    /\ Lowest(fd)
    /\ kind' = [kind EXCEPT ![fd] = k]
    /\ nonblock' = [nonblock EXCEPT ![fd] = nb]
    /\ input' = [input EXCEPT ![fd] = in]

\* What SetNonBlock returns: the 0 or -1 of F_SETFL, but 1 when it was F_GETFL
\* that failed.
SetNonBlock(nb, res) == (nb /\ res = 0) \/ (~nb /\ res \in {-1, 1})

\* setupSocket returns 1 when a call fails, as far as it sees: it looks for a
\* negative result of SetNonBlock.
setupSocket(nb, res) ==
    \/ ~nb /\ res = 1     \* SO_REUSEADDR could not be set
    \/ \E r \in {-1, 0, 1} : SetNonBlock(nb, r) /\ res = IF r < 0 THEN 1 ELSE 0

\* The kinds of socket ConnectSocket returns 0 for.  A non-blocking connect(2)
\* is waited for with poll(2), which reports POLLOUT for a connection that was
\* refused as well.
ConnectSocket(k, nb) == k = "connected" \/ (k = "refused" /\ nb)

CloseSocket(fd) ==
    /\ kind' = [kind EXCEPT ![fd] = "closed"]
    /\ nonblock' = [nonblock EXCEPT ![fd] = FALSE]
    /\ input' = [input EXCEPT ![fd] = "empty"]

\* Mutant: the new descriptor gets the mode of the listening socket.
AcceptSocket_InheritsMode(listener, fd) ==
    /\ input[listener] = "data"
    /\ Lowest(fd)
    /\ \E backlog \in {"empty", "data"} :
          input' = [input EXCEPT ![listener] = backlog, ![fd] = "empty"]
    /\ kind' = [kind EXCEPT ![fd] = "connected"]
    /\ nonblock' = [nonblock EXCEPT ![fd] = nonblock[listener]]

\* accept(2) takes one connection out of the backlog, which may hold more.
\* The new descriptor is blocking, whatever the listening socket is.
AcceptSocket(listener, fd) ==
    /\ input[listener] = "data"
    /\ Lowest(fd)
    /\ \E backlog \in {"empty", "data"} :
          input' = [input EXCEPT ![listener] = backlog, ![fd] = "empty"]
    /\ kind' = [kind EXCEPT ![fd] = "connected"]
    /\ nonblock' = [nonblock EXCEPT ![fd] = FALSE]

\* ReadSocket's result: "bytes" (some were read), "none" (it returned 0) or
\* "error" (it returned -1).  It returns 0 at the end of the stream, and also
\* after four tries of a non-blocking socket that had nothing to read.
ReadSocket(fd, res) ==
    /\ UNCHANGED <<kind, nonblock>>
    /\ \/ /\ input[fd] = "data" /\ res = "bytes"
          /\ \E rest \in {"empty", "data"} : input' = [input EXCEPT ![fd] = rest]
       \/ /\ input[fd] = "eof" /\ res = "none"
          /\ UNCHANGED input
       \/ /\ input[fd] = "reset" /\ res = "error"
          /\ input' = [input EXCEPT ![fd] = "eof"]
       \/ /\ input[fd] = "empty" /\ nonblock[fd] /\ res = "none"
          /\ UNCHANGED input

\* A write reports the error of a reset connection, as a read would.
CollectError(fds) ==
    /\ input' = [s \in SOCKETS |-> IF s \in fds /\ input[s] = "reset"
                                   THEN "eof" ELSE input[s]]
    /\ UNCHANGED <<kind, nonblock>>

-----------------------------------------------------------------------------
(* The remote hosts, at any moment. *)

Arrives(fd, what) ==
    /\ input[fd] = "empty"
    /\ input' = [input EXCEPT ![fd] = what]
    /\ UNCHANGED <<kind, nonblock>>

RemoteConnects(fd) == kind[fd] = "listening" /\ Arrives(fd, "data")
RemoteSends(fd)    == kind[fd] = "connected" /\ Arrives(fd, "data")
RemoteCloses(fd)   == kind[fd] = "connected" /\ Arrives(fd, "eof")
RemoteResets(fd)   == kind[fd] = "connected" /\ Arrives(fd, "reset")
=============================================================================

---------------------------- MODULE MCConnManager ----------------------------
(* Values of the constants of ConnManager for TLC. *)
EXTENDS ConnManager, TLC

CONSTANTS c1, c2, c3

ThreeSockets == 3 .. 5

\* ConnManager reads mServerSockets and result nowhere, and a process that is
\* over takes no step: TLC keeps one of the states that differ only there.
View ==
    IF pc \in Over THEN <<pc>>
    ELSE <<sockets, platform, clients, serverSocket, mServers,
           mClientCallback, current>>

Symmetry == Permutations(CLIENTS)
=============================================================================

----------------------------- MODULE ConnService ------------------------------
(***************************************************************************)
(* What src/src/IConnManager.h promises to a program: clients and servers  *)
(* are objects it starts and stops, a running server adds clients while    *)
(* the program waits in HandleEvents, and events are told by calling the   *)
(* program back with a client it has and has not stopped.  Nothing else    *)
(* starts or ends a client, and each holds one descriptor for as long as   *)
(* it lives.                                                               *)
(*                                                                         *)
(* Two sentences of the header are left out, because ConnManager.cpp does  *)
(* not keep them: that the code 0xDEADDEAD tells of a client that is dead  *)
(* (lines 30 and 31; the code is always 0), and that StartClient returns   *)
(* NULL on failure (line 52; it returns a client for a connection that was *)
(* refused, when connect(2) did not say so at once).                       *)
(***************************************************************************)
EXTENDS Integers

CONSTANTS
    CLIENTS, SERVERS,   \* the objects there may be
    Limit,              \* the descriptors the process may hold
    NULL                \* no client

VARIABLES
    connected,  \* the clients StartClient or HandleEvents has given
    listening,  \* the servers the program may use
    inUse,      \* how many descriptors the process holds
    thread,     \* who runs: "program", "events" (HandleEvents), "callback",
                \* or "over" when the process is
    called      \* the client of the callback, NULL when it was stopped

serviceVars == <<connected, listening, inUse, thread, called>>

ServiceInit ==
    /\ connected = {} /\ listening = {} /\ inUse = 0
    /\ thread = "program"
    /\ called = NULL

InProgram == thread \in {"program", "callback"}

Take == inUse < Limit /\ inUse' = inUse + 1
Give == inUse' = inUse - 1

-----------------------------------------------------------------------------
(* The program. *)

\* StartClient returns c, which need not be connected yet, or at all.
StartClient(c) ==
    /\ InProgram /\ Take /\ c \notin connected
    /\ connected' = connected \cup {c}
    /\ UNCHANGED <<listening, thread, called>>

StopClient(c) ==
    /\ InProgram /\ Give /\ c \in connected
    /\ connected' = connected \ {c}
    /\ called' = IF called = c THEN NULL ELSE called
    /\ UNCHANGED <<listening, thread>>

StartServer(s) ==
    /\ InProgram /\ Take /\ s \notin listening
    /\ listening' = listening \cup {s}
    /\ UNCHANGED <<connected, thread, called>>

StopServer(s) ==
    /\ InProgram /\ Give /\ s \in listening
    /\ listening' = listening \ {s}
    /\ UNCHANGED <<connected, thread, called>>

HandleEvents ==
    /\ thread = "program"
    /\ thread' = "events"
    /\ UNCHANGED <<connected, listening, inUse, called>>

CallbackReturns ==
    /\ thread = "callback"
    /\ thread' = "events" /\ called' = NULL
    /\ UNCHANGED <<connected, listening, inUse>>

-----------------------------------------------------------------------------
(* The service, while the program is in HandleEvents. *)

Accept(c) ==
    /\ thread = "events" /\ listening # {} /\ Take /\ c \notin connected
    /\ connected' = connected \cup {c}
    /\ UNCHANGED <<listening, thread, called>>

\* Something happened on c; the code does not say what.
Call(c) ==
    /\ thread = "events" /\ c \in connected
    /\ thread' = "callback" /\ called' = c
    /\ UNCHANGED <<connected, listening, inUse>>

HandleEventsReturns ==
    /\ thread = "events"
    /\ thread' = "program"
    /\ UNCHANGED <<connected, listening, inUse, called>>

\* A signal, or the use of what was never set, ends the process.
Dies ==
    /\ thread' = "over" /\ called' = NULL
    /\ UNCHANGED <<connected, listening, inUse>>

-----------------------------------------------------------------------------
ServiceNext ==
    \/ \E c \in CLIENTS : StartClient(c) \/ StopClient(c) \/ Accept(c) \/ Call(c)
    \/ \E s \in SERVERS : StartServer(s) \/ StopServer(s)
    \/ HandleEvents \/ CallbackReturns \/ HandleEventsReturns
    \/ Dies

ServiceSpec == ServiceInit /\ [][ServiceNext]_serviceVars
=============================================================================

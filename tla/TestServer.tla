----------------------------- MODULE TestServer ------------------------------
(***************************************************************************)
(* The program src/src/test_server.cpp on top of TorpClass: it starts one  *)
(* server and one timer and calls HandleEvents for ever.  Its callback     *)
(* reads the client once, stops it when the read says that the connection  *)
(* is closed, and answers when there were bytes.                           *)
(***************************************************************************)
EXTENDS TorpClass

VARIABLES
    main,   \* the next step of main; "loop" is its endless loop
    served  \* the descriptors called back in this pass (a history variable)

serverVars == <<torpVars, main, served>>

TestServerTypeOK ==
    /\ TorpTypeOK
    /\ main \in {"register", "start", "timers", "create", "loop"}
    /\ served \subseteq SOCKETS

TestServerInit == TorpInit /\ main = "register" /\ served = {}

-----------------------------------------------------------------------------
\* main ignores that StartServer may return NULL.
StartTheServer ==
    \E s \in SERVERS : \/ StartServerFails(s)
                       \/ \E fd \in SOCKETS : StartServer(s, fd)

\* Mutant: the timer manager is not started.
StartTimers_Forgotten == UNCHANGED torpVars

StartTimers == T!Start /\ UNCHANGED vars

CreateTheTimer ==
    /\ \E t \in TIMERS, msecs \in Delays : T!CreateTimer(t, msecs)
    /\ UNCHANGED vars

\* One call of HandleEvents, up to the first callback.
Loop ==
    \/ HandleTimers
    \/ CallTimer
    \/ HandleSockets
    \/ timerPc = "firing" /\ WriteKills /\ UNCHANGED timers

Main ==
    /\ pc = "app"
    /\ \/ main = "register" /\ RegisterClientCallback /\ UNCHANGED timers /\ main' = "start"
       \/ main = "start" /\ StartTheServer /\ UNCHANGED timers /\ main' = "timers"
       \/ main = "timers" /\ StartTimers /\ main' = "create"
       \/ main = "create" /\ CreateTheTimer /\ main' = "loop"
       \/ main = "loop" /\ Loop /\ main' = "loop"
    /\ served' = {}

\* Mutant: the callback enters the event loop again.
connCallback_PollsAgain ==
    /\ \/ result = NULL /\ (HandleSocket \/ ReadBlocks)
       \/ /\ result = "bytes" /\ pc = "callback"
          /\ pc' = "polling"
          /\ UNCHANGED <<sockets, registry, revents, next, clients, servers,
                         mClientCallback, caller>>
       \/ result = "closed" /\ \E c \in CLIENTS : c = current /\ StopClient(c)
       \/ current = NULL /\ ReturnFromCallback
    /\ UNCHANGED <<timers, main, served>>

connCallback ==
    /\ pc = "callback"
    /\ \/ result = NULL /\ (HandleSocket \/ ReadBlocks)
       \/ \E c \in CLIENTS : /\ c = current
                             /\ \/ result = "closed" /\ StopClient(c)
                                \/ result = "bytes" /\ (Send(c) \/ SendBlocks(c))
       \/ result = "bytes" /\ WriteKills
       \/ (result \in {"sent", "error"} \/ current = NULL) /\ ReturnFromCallback
    /\ UNCHANGED <<timers, main, served>>

PollAndDispatch ==
    /\ PollEnds \/ PollUndefined \/ (Dispatch /\ UNCHANGED timers)
    /\ served' = IF Dispatching THEN served \cup {mPollFD[next]} ELSE served
    /\ UNCHANGED main

\* One step of the one thread of the process.
ThreadStep == Main \/ connCallback \/ PollAndDispatch

Time == TimePasses /\ UNCHANGED <<main, served>>

TestServerNext == ThreadStep \/ Time \/ (TorpRemote /\ UNCHANGED <<main, served>>)

TestServerSpec == TestServerInit /\ [][TestServerNext]_serverVars

\* The same, with a poller in memory that is fresh from the kernel.
ZeroedSpec ==
    /\ TestServerInit /\ (\A k \in Slots : ~revents[k])
    /\ [][TestServerNext]_serverVars

\* The kernel keeps scheduling a thread that is not asleep, and time passes.
\* Nothing is assumed of the remote hosts.
FairTestServerSpec ==
    TestServerSpec /\ WF_serverVars(ThreadStep) /\ WF_serverVars(Time)

-----------------------------------------------------------------------------
(* Safety. *)

\* Every step of the program is one that the most general program of TorpClass
\* may take: what is shown of that one holds for this one.
ImplementsTorpClass == TorpSpec

\* One pass calls a descriptor back at most once, the listening one with a
\* backlog left, too, although accepting and stopping clients moves the others
\* to other slots while the loop runs.
NoDescriptorServedTwice ==
    [][Dispatching /\ Dispatch => mPollFD[next] \notin served]_serverVars

\* No client is stopped before its peer has ended or reset the connection,
\* although a callback may come with nothing to read and ReadSocket returns 0
\* for that as well: it does so on a non-blocking socket only, and an accepted
\* one sleeps instead.
HealthyClientsStay ==
    [][\A sd \in SOCKETS : kind[sd] = "connected" /\ kind'[sd] = "closed"
          => input[sd] = "eof"]_serverVars

\* The members that no constructor initialises are set before the poller uses
\* them, unless the server could not be started.
SetBeforeUsed == Ended => pc = "killed" \/ LiveServers = {}

-----------------------------------------------------------------------------
(* Liveness. *)

\* PollSockets' loop ends although its bound and its array change under it,
\* unless the thread falls asleep in one of its callbacks.
PassEnds == pc = "pass" ~> pc = "app" \/ Stuck

Quiet == <>[][LiveClients' \subseteq LiveClients]_serverVars

\* When no more clients are accepted from some moment on, a connection that
\* its peer has ended is closed, unless the thread sleeps in a callback.
EndedConnectionIsClosed ==
    Quiet => \A sd \in SOCKETS : PeerEnded(sd) ~> (kind[sd] = "closed" \/ Stuck)

\* The timer fires however busy the descriptors are, unless the thread sleeps
\* in a callback: every wait looks for expired timers, not only an idle one.
TimerFires ==
    \A t \in TIMERS : mActive[t] /\ due[t] <= MaxNow ~> calls[t] > 0 \/ Stuck

-----------------------------------------------------------------------------
(* What the comments of the code say, and the program does not do. *)

\* A client is called back because something happened on its descriptor
\* (Platform_Linux.cpp:123, "Something happened.. Call upper layer"): the one
\* read that its callback begins with finds something, and does not sleep.
ReadsWhatHappened == pc # "reading"

\* EndedConnectionIsClosed while clients keep coming: what happens on a
\* descriptor is told to the program (Platform_Linux.cpp:123, "Something
\* happened.. Call upper layer").
EndedConnectionIsClosedAnyway ==
    \A sd \in SOCKETS : PeerEnded(sd) ~> (kind[sd] = "closed" \/ Stuck)
=============================================================================

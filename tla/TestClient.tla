------------------------------ MODULE TestClient ------------------------------
(***************************************************************************)
(* The program src/src/test_client.cpp on top of TorpClass: it connects    *)
(* one client, sends a greeting and calls HandleEvents for ever.  Its      *)
(* callback is that of test_server.cpp.  It never starts the timer manager *)
(* and has no timer.                                                       *)
(***************************************************************************)
EXTENDS TorpClass

VARIABLE main   \* the next step of main; "loop" is its endless loop

clientVars == <<torpVars, main>>

Steps == {"register", "connect", "send", "loop", "exit"}

TestClientTypeOK == TorpTypeOK /\ main \in Steps

TestClientInit == TorpInit /\ main = "register"

-----------------------------------------------------------------------------
\* Mutant: the client is started behind the connection manager's back.
Connect_Bypasses ==
    /\ \E fd \in SOCKETS : ClientStart(fd)
    /\ UNCHANGED <<platform, clients, servers, mClientCallback, caller>>
    /\ main' = "send"

\* The connection is up, or taken for one that is; or main returns.
Connect ==
    \/ /\ \E c \in CLIENTS, fd \in SOCKETS : StartClient(c, fd)
       /\ main' = "send"
    \/ /\ \E c \in CLIENTS : StartClientFails(c)
       /\ main' = "exit"

Greet == \E c \in LiveClients : Send(c) \/ SendBlocks(c) \/ WriteKills

\* One call of HandleEvents, which flushes what was not written.
Loop ==
    \/ (HandleTimers \/ HandleSockets)
    \/ timerPc = "firing" /\ WriteKills /\ UNCHANGED timers

Main ==
    /\ pc = "app"
    /\ \/ main = "register" /\ RegisterClientCallback /\ UNCHANGED timers /\ main' = "connect"
       \/ main = "connect" /\ Connect /\ UNCHANGED timers
       \/ main = "send" /\ Greet /\ UNCHANGED timers /\ main' = "loop"
       \/ main = "loop" /\ Loop /\ main' = "loop"

\* Mutant: the callback reads until there is nothing left.
connCallback_ReadsAgain ==
    /\ pc = "callback"
    /\ \/ result \in {NULL, "bytes"} /\ (HandleSocket \/ ReadBlocks)
       \/ \E c \in CLIENTS : c = current /\ result = "closed" /\ StopClient(c)
       \/ (result = "error" \/ current = NULL) /\ ReturnFromCallback
    /\ UNCHANGED <<timers, main>>

\* Mutant: the callback returns without stopping the client.
connCallback_KeepsClient ==
    /\ pc = "callback"
    /\ \/ result = NULL /\ (HandleSocket \/ ReadBlocks)
       \/ result # NULL /\ ReturnFromCallback
    /\ UNCHANGED <<timers, main>>

connCallback ==
    /\ pc = "callback"
    /\ \/ result = NULL /\ (HandleSocket \/ ReadBlocks)
       \/ \E c \in CLIENTS : /\ c = current
                             /\ \/ result = "closed" /\ StopClient(c)
                                \/ result = "bytes" /\ (Send(c) \/ SendBlocks(c))
       \/ result = "bytes" /\ WriteKills
       \/ (result \in {"sent", "error"} \/ current = NULL) /\ ReturnFromCallback
    /\ UNCHANGED <<timers, main>>

PollAndDispatch ==
    /\ PollEnds \/ PollUndefined \/ (Dispatch /\ UNCHANGED timers)
    /\ UNCHANGED main

\* One step of the one thread of the process.
ThreadStep == Main \/ connCallback \/ PollAndDispatch

Outside == (TorpRemote \/ TimePasses) /\ main # "exit" /\ UNCHANGED main

TestClientNext == ThreadStep \/ Outside

TestClientSpec == TestClientInit /\ [][TestClientNext]_clientVars

\* The kernel keeps scheduling a thread that is not asleep.  Nothing is
\* assumed of the server.
FairTestClientSpec == TestClientSpec /\ WF_clientVars(ThreadStep)

-----------------------------------------------------------------------------
(* Safety. *)

\* Every step of the program is one that the most general program of TorpClass
\* may take.
ImplementsTorpClass == TorpSpec

\* With one connection no revents is ever stale, so that what poll(2) reported
\* is there when the callback reads: the read never sleeps, and says that the
\* connection is closed only when the server has ended or refused it.
ReadsFindWhatWasReported ==
    [][/\ result # "closed" /\ result' = "closed" => input[clientSocket[current]] = "eof"
       /\ pc' # "reading"]_clientVars

-----------------------------------------------------------------------------
(* Liveness. *)

\* The end of the connection is noticed, and so is, after the greeting, that a
\* connection ConnectSocket took for one that is up was refused: the client is
\* stopped, unless the thread sleeps in a write or is killed by one.
EndIsNoticed == \A sd \in SOCKETS : PeerEnded(sd) ~> (kind[sd] = "closed" \/ Stuck)
=============================================================================

--------------------------- MODULE PlatformWindows ----------------------------
(***************************************************************************)
(* The second poller, PollSockets, rebuildPollStruct and ReadSocket of     *)
(* src/src/Platform_Windows.cpp with the registry of src/src/Platform.cpp, *)
(* under a program that starts and stops sockets, from main and from the   *)
(* callbacks.  select takes its two sets as arguments and overwrites them  *)
(* with its answer; the loop runs over the map that the callbacks change.  *)
(*                                                                         *)
(* A handle that is open is registered, as in ConnManager; unlike on Linux *)
(* a new one may be any that is free.  Handles are non-blocking, accepted  *)
(* ones too: Winsock gives them the mode of the listening one.             *)
(***************************************************************************)
EXTENDS Integers, FiniteSets

CONSTANTS SOCKETS,  \* the handles, ordered as numbers, as std::map does
          Garbage   \* the content of a member no constructor initialises

ASSUME HandlesAreNumbers == SOCKETS \subseteq Nat \ {0} /\ IsFiniteSet(SOCKETS)
ASSUME GarbageIsNoNumber == Garbage \notin Nat

VARIABLES
    mSocketMap, \* the handles that have an entry
    mSetRead, mSetWrite, mNumToPoll,
    listening,  \* the handles of servers
    input,      \* what a recv or an accept would find
    pc,         \* "app", "selecting", "pass", "callback", "undefined"
    cursor,     \* the entry the loop's iterator is at, 0 before the first
    erased,     \* TRUE iff that entry was erased meanwhile
    result,     \* what ReadSocket returned in the callback, "unread" before
    served,     \* the handles called back in this pass (history)
    rebuilt     \* TRUE iff the sets were rebuilt in this pass (history)

polled == <<mSetRead, mSetWrite, mNumToPoll>>
loop   == <<cursor, erased, served>>
vars   == <<mSocketMap, polled, listening, input, pc, loop, result, rebuilt>>

Inputs == {"empty", "data", "eof", "reset"}

Readable == {sd \in mSocketMap : input[sd] # "empty"}

TypeOK ==
    /\ mSocketMap \subseteq SOCKETS
    /\ mSetRead \subseteq SOCKETS /\ mSetWrite \subseteq SOCKETS
    /\ mNumToPoll \in 0 .. Cardinality(SOCKETS) \cup {Garbage}
    /\ listening \subseteq mSocketMap
    /\ input \in [SOCKETS -> Inputs]
    /\ pc \in {"app", "selecting", "pass", "callback", "undefined"}
    /\ cursor \in SOCKETS \cup {0}
    /\ erased \in BOOLEAN
    /\ result \in {"unread", "bytes", "closed", "error"}
    /\ served \subseteq SOCKETS
    /\ rebuilt \in BOOLEAN

Init ==
    /\ mSocketMap = {} /\ listening = {} /\ input = [sd \in SOCKETS |-> "empty"]
    /\ mSetRead = {} /\ mSetWrite = {} /\ mNumToPoll \in {0, Garbage}
    /\ pc = "app"
    /\ cursor = 0 /\ erased = FALSE /\ served = {}
    /\ result = "unread" /\ rebuilt = FALSE

\* Mutant: every FD_SET is counted.
rebuildPollStruct_CountsBothSets ==
    /\ mSetRead' = mSocketMap'
    /\ mSetWrite' = mSocketMap'
    /\ mNumToPoll' = 2 * Cardinality(mSocketMap')

\* Mutant: only the difference to the registry is brought into the sets.
rebuildPollStruct_Difference ==
    /\ mSetRead' = (mSetRead \cap mSocketMap') \cup (mSocketMap' \ mSocketMap)
    /\ mSetWrite' = (mSetWrite \cap mSocketMap') \cup (mSocketMap' \ mSocketMap)
    /\ mNumToPoll' = Cardinality(mSocketMap')

rebuildPollStruct ==
    /\ mSetRead' = mSocketMap'
    /\ mSetWrite' = mSocketMap'
    /\ mNumToPoll' = Cardinality(mSocketMap')

AddSocketForPolling(sd) ==
    /\ sd \notin mSocketMap
    /\ mSocketMap' = mSocketMap \cup {sd}
    /\ rebuildPollStruct
    /\ rebuilt' = (pc # "app")

-----------------------------------------------------------------------------
(* The program, in main or in its callback. *)

InProgram == pc \in {"app", "callback"}

\* A client or a server is started.
Start(sd) ==
    /\ InProgram
    /\ AddSocketForPolling(sd)
    /\ listening' \in {listening, listening \cup {sd}}
    /\ UNCHANGED <<input, pc, loop, result>>

\* Mutant: the handle stays in the sets.
RemoveSocketFromPolling_NoRebuild(sd) ==
    /\ sd \in mSocketMap
    /\ mSocketMap' = mSocketMap \ {sd}
    /\ erased' = (erased \/ (pc = "callback" /\ sd = cursor))
    /\ UNCHANGED <<polled, rebuilt>>

RemoveSocketFromPolling(sd) ==
    /\ sd \in mSocketMap
    /\ mSocketMap' = mSocketMap \ {sd}
    /\ erased' = (erased \/ (pc = "callback" /\ sd = cursor))
    /\ rebuildPollStruct
    /\ rebuilt' = (pc # "app")

CloseSocket(sd) ==
    /\ input' = [input EXCEPT ![sd] = "empty"]
    /\ listening' = listening \ {sd}

\* A client or a server is stopped.
Stop(sd) ==
    /\ InProgram
    /\ RemoveSocketFromPolling(sd)
    /\ CloseSocket(sd)
    /\ UNCHANGED <<pc, cursor, served, result>>

\* A recv that fails is tried four times, and then ReadSocket returns 0, as at
\* the end of the stream; unless errno, which Winsock does not set, happens to
\* hold one of the four errors it looks for.
ReadSocket(sd, res) ==
    \/ /\ input[sd] = "data" /\ res = "bytes"
       /\ \E rest \in {"empty", "data"} : input' = [input EXCEPT ![sd] = rest]
    \/ /\ input[sd] = "eof" /\ res = "none"
       /\ UNCHANGED input
    \/ /\ input[sd] \in {"empty", "reset"} /\ res \in {"none", "error"}
       /\ UNCHANGED input

\* The callback reads once, as those of test_server and test_client, if at all.
HandleSocket ==
    /\ pc = "callback" /\ ~erased /\ result = "unread"
    /\ \E res \in {"bytes", "none", "error"} :
          ReadSocket(cursor, res) /\ result' = IF res = "none" THEN "closed" ELSE res
    /\ UNCHANGED <<mSocketMap, polled, listening, pc, loop, rebuilt>>

HandleEvents ==
    /\ pc = "app"
    /\ pc' = "selecting"
    /\ UNCHANGED <<mSocketMap, polled, listening, input, loop, result, rebuilt>>

-----------------------------------------------------------------------------
(* PollSockets *)

Return ==
    /\ pc' = "app" /\ cursor' = 0 /\ erased' = FALSE
    /\ served' = {} /\ rebuilt' = FALSE

NothingToPoll ==
    /\ pc = "selecting" /\ mNumToPoll = 0
    /\ Return
    /\ UNCHANGED <<mSocketMap, polled, listening, input, result>>

\* The sets were never built.
SelectUninitialised ==
    /\ pc = "selecting" /\ mNumToPoll = Garbage
    /\ pc' = "undefined"
    /\ UNCHANGED <<mSocketMap, polled, listening, input, loop, result, rebuilt>>

Selecting == pc = "selecting" /\ mNumToPoll \notin {0, Garbage}

\* Mutant: select works on copies, and the loop looks at the sets themselves.
SelectReports_InCopies ==
    /\ Selecting
    /\ mSetRead \cap Readable # {}
    /\ pc' = "pass"
    /\ UNCHANGED <<mSocketMap, polled, listening, input, loop, result, rebuilt>>

\* select keeps the handles that are ready.  A connection may be ready for
\* writing at any time.
SelectReports ==
    /\ Selecting
    /\ mSetRead' = mSetRead \cap Readable
    /\ mSetWrite' \in SUBSET mSetWrite
    /\ mSetRead' \cup mSetWrite' # {}
    /\ pc' = "pass"
    /\ UNCHANGED <<mSocketMap, mNumToPoll, listening, input, loop, result, rebuilt>>

\* After the timeout no handle is left in the sets.
SelectTimesOut ==
    /\ Selecting /\ mSetRead \cup mSetWrite # {} /\ mSetRead \cap Readable = {}
    /\ mSetRead' = {} /\ mSetWrite' = {}
    /\ Return
    /\ UNCHANGED <<mSocketMap, mNumToPoll, listening, input, result>>

\* select refuses two empty sets; the loop is entered with a negative result.
SelectFails ==
    /\ Selecting /\ mSetRead \cup mSetWrite = {}
    /\ pc' = "pass"
    /\ UNCHANGED <<mSocketMap, polled, listening, input, loop, result, rebuilt>>

After(sd) == {other \in mSocketMap : other > sd}

Reaches(sd) == pc = "pass" /\ sd \in After(cursor) /\ \A other \in After(cursor) : sd <= other

Skip(sd) ==
    /\ Reaches(sd) /\ sd \notin mSetRead
    /\ cursor' = sd
    /\ UNCHANGED <<mSocketMap, polled, listening, input, pc, erased, served, result, rebuilt>>

Call(sd) ==
    /\ Reaches(sd) /\ sd \in mSetRead
    /\ cursor' = sd
    /\ served' = served \cup {sd}
    /\ UNCHANGED erased

\* accept takes one of the connections that wait.
AcceptSocket(sd) ==
    /\ input[sd] = "data"
    /\ \E rest \in {"empty", "data"} : input' = [input EXCEPT ![sd] = rest]

\* handleServerEvent adds a client for the handle of the connection, or gets none.
CallServer(sd) ==
    /\ Call(sd) /\ sd \in listening
    /\ \/ AcceptSocket(sd) /\ \E new \in SOCKETS : AddSocketForPolling(new)
       \/ UNCHANGED <<mSocketMap, polled, input, rebuilt>>
    /\ UNCHANGED <<listening, pc, result>>

CallClient(sd) ==
    /\ Call(sd) /\ sd \notin listening
    /\ pc' = "callback"
    /\ UNCHANGED <<mSocketMap, polled, listening, input, result, rebuilt>>

\* Mutant: the loop starts again when the map has changed.
CallbackReturns_Restarts ==
    /\ pc = "callback"
    /\ pc' = IF erased THEN "undefined" ELSE "pass"
    /\ cursor' = IF mSocketMap = mSetRead THEN 0 ELSE cursor
    /\ result' = "unread"
    /\ UNCHANGED <<mSocketMap, polled, listening, input, erased, served, rebuilt>>

\* The iterator moves on from its entry, which must not have been erased.
CallbackReturns ==
    /\ pc = "callback"
    /\ pc' = IF erased THEN "undefined" ELSE "pass"
    /\ result' = "unread"
    /\ UNCHANGED <<mSocketMap, polled, listening, input, loop, rebuilt>>

EndPass ==
    /\ pc = "pass" /\ After(cursor) = {}
    /\ Return
    /\ UNCHANGED <<mSocketMap, polled, listening, input, result>>

\* The remote hosts.
Arrives(sd) ==
    /\ pc # "undefined" /\ sd \in mSocketMap \ Readable
    /\ \E what \in Inputs \ {"empty"} :
          /\ sd \in listening => what = "data"
          /\ input' = [input EXCEPT ![sd] = what]
    /\ UNCHANGED <<mSocketMap, polled, listening, pc, loop, result, rebuilt>>

-----------------------------------------------------------------------------
PollSockets ==
    \/ NothingToPoll \/ SelectUninitialised
    \/ SelectReports \/ SelectTimesOut \/ SelectFails
    \/ \E sd \in SOCKETS : Skip(sd) \/ CallServer(sd) \/ CallClient(sd)
    \/ EndPass

Next ==
    \/ \E sd \in SOCKETS : Start(sd) \/ Stop(sd) \/ Arrives(sd)
    \/ HandleSocket
    \/ HandleEvents
    \/ CallbackReturns
    \/ PollSockets

Spec == Init /\ [][Next]_vars

\* The program calls HandleEvents for ever and its callbacks return; the
\* thread is scheduled.
FairSpec ==
    Spec /\ WF_vars(HandleEvents) /\ WF_vars(CallbackReturns) /\ WF_vars(PollSockets)

-----------------------------------------------------------------------------
(* Safety. *)

\* select is never given a handle that was closed, which would make it fail at
\* every call, and never a count that does not fit the registry, although the
\* callbacks rebuild the sets in the middle of a pass.
PollsOpenHandlesOnly ==
    /\ mSetRead \cup mSetWrite \subseteq mSocketMap
    /\ mNumToPoll = Cardinality(mSocketMap) \/ (mNumToPoll = Garbage /\ mSocketMap = {})

\* A pass never comes back to a handle that it has called, although the map
\* changes under the iterator and a rebuild puts handles back into mSetRead.
NoHandleServedTwice == [][cursor' \notin {0, cursor} => cursor' \notin served]_vars

\* ReadSocket, which returns 0 for a handle with nothing to read as well, is
\* not taken in: unless the sets were rebuilt earlier in the pass, the loop calls
\* only handles that select has found readable and nobody has read since, and
\* "closed" means that the peer has ended or reset the connection.
ClosedMeansEnded ==
    result = "closed" /\ ~erased /\ ~rebuilt => input[cursor] \in {"eof", "reset"}

-----------------------------------------------------------------------------
(* Liveness. *)

Answered(sd) == sd \in served \/ sd \notin mSocketMap \/ pc = "undefined"

Churn == []<><<mSocketMap' # mSocketMap>>_vars

\* As long as sockets keep being started or stopped, a handle with something to
\* read is called back: every rebuild makes the poller listen to all of them.
HeardUnderChurn == Churn => \A sd \in SOCKETS : sd \in Readable ~> Answered(sd)

-----------------------------------------------------------------------------
(* What the comments of the code say, and the code does not do. *)

\* HeardUnderChurn without the churn (Platform_Windows.cpp:83-84, "Socket
\* activity! Something happened.. Call upper layer"): a handle that was not
\* ready in one call of select is not asked for in the next.
ReadableIsCalled == \A sd \in SOCKETS : sd \in Readable ~> Answered(sd)
=============================================================================

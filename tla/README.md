# TorpClass in TLA+

TorpClass (`src/`) is a small C++ library for event-driven network programs: one
thread, one event loop, TCP clients and servers behind callbacks, and timers.
This directory models its core, checks it with TLC and proves the main results
with TLAPS. Paths below are relative to `src/src/`.

## 1. The system

| Component | State | Operations | Talks to |
|---|---|---|---|
| `SocketManager` | none (a forwarder) | open, setup, accept, close a socket; add, remove, poll | `Platform`, the kernel |
| `Platform` on Linux | `mSocketMap` (descriptor -> handler), the array `mPollFD` with `mNumToPoll`, `mTimeoutCallback` | `AddSocketForPolling`, `RemoveSocketFromPolling`, `PollSockets`, `ReadSocket`, `WriteSocket`, `ConnectSocket`, `GetTime` | calls the timer manager, then the handlers of readable descriptors |
| `Platform` on Windows | the same map, two `fd_set`s | the same, over `select` | the same |
| `ConnManager` | `mClients`, `mClientSockets`, `mServers`, `mServerSockets`, `mClientCallback` | start and stop clients and servers, `HandleEvents`, handlers for both kinds of descriptor | owns `Client` and `Server` objects; calls the program's client callback, which calls back into it |
| `Client` | `mSocket`, a read buffer and a write buffer with positions | `Start`, `Stop`, `HandleSocket`, `Send`, `Flush` | `Platform` |
| `Server` | `mSocket` | `Start`, `Stop` (`Flush` is empty) | `SocketManager` |
| `TimerManager`, `Timer` | `mTimers` (by time), `mFiredTimers`; `mActive`, `mFireTime` | `Start`, `CreateTimer`, `DeleteTimer`, `HandleEvents`, `checkExpired` | called back by `PollSockets`; calls the timers' callbacks |
| `TorpClass` | none | `Init`, `HandleEvents` (timers first, then sockets) | all managers |
| `test_server`, `test_client` | none | `main`, `connCallback` | the library |
| `Address`, `Trace`, `StackTrace` | an address; the trace level; none | parse; print; a SIGSEGV handler | - |

There is one thread and no lock. What makes the code hard is that

* the poll loop re-reads an array which the callbacks it makes rewrite: they
  accept, start and stop clients, while `revents` stays where it was;
* descriptors and heap addresses are given out again at once, and
  `mClientSockets` keeps entries of deleted clients;
* the remote hosts act at any moment, a read, an accept or a write of a blocking
  descriptor puts the whole loop to sleep, and `ReadSocket` answers 0 for two
  different things;
* several members are never initialised;
* the kernel takes any part of a write;
* timers live in two maps that callbacks and loops change in turn, on a clock
  that may be set and may wrap, and they share the thread with the sockets;
* on Windows `select` overwrites the sets it is given, and the loop runs over the
  map that its callbacks erase from.

What makes each component correct: the poller polls exactly the open
descriptors, each with the right handler; an event reaches the one live client
that owns the descriptor; a descriptor has exactly one owner, also after a start
that failed halfway; a pass ends, serves no descriptor twice and starves none;
each buffer of a client is a piece of its stream; each timer fires once, not
early, and is never lost.
`PROJECT.json` lists the hazards line by line with the property that covers each.

## 2. Modules

| Module | Models | How it corresponds |
|---|---|---|
| `Sockets` | the descriptors and the remote hosts as the code uses them | `kind`, `nonblock`, `input` of a descriptor; operators named after the functions of `SocketManager` and `Platform` that return something the callers tell apart |
| `Platform` (extends `Sockets`) | `Platform.cpp`, the poller of `Platform_Linux.cpp` | `mSocketMap`, `mPollFD` (its fd fields), `revents` (kept apart, as `rebuildPollStruct` does not touch them), `mNumToPoll`; `pc` and `next` are the control point of `PollSockets` |
| `ConnService` | what `IConnManager.h` promises, but for two sentences | abstract: the clients and servers a program may use, how many descriptors they take, who runs, and the client of the callback. Left out are the status code `0xDEADDEAD` (lines 30-31: the code passed is always 0) and NULL on failure (line 52: `StartClient` returns a client for a connection that was refused later), which `ConnManager.cpp` does not keep |
| `ConnManager` (extends `Platform`) | `ConnManager.cpp` with the life cycles of `Client` and `Server` | one action per operation; an operation that calls back into the program is split where the callback starts and ends, and one that may sleep where it sleeps. `ClientStop`, `deleteClient`, `ServerStop` and `deleteServer` are the parts that `StopClient` and `StopServer` call; `ClientStartFails` and `ServerStartFails` are the `error_cleanup` of `Client::Start` and `Server::Start`, which close what was opened, and `StartClientFails` and `StartServerFails` add what the manager undoes |
| `TimerService` | what `TimerManager.h` promises | abstract: a timer is free, armed or fired, and may fire in the last millisecond of its timeout or later |
| `TimerManager` | `TimerManager.cpp`, `Timer.cpp`, `GetTime` | both maps, the loop over the fired timers with a cursor, the conversion of the clock. Time goes in ticks, `TicksPerMs` of them in a millisecond; `gained` and `overdue` are history (section 3, Time) |
| `TorpClass` (extends `ConnManager`, instantiates `TimerManager`) | `TorpClass.cpp`: both managers in one `HandleEvents` | `pc` is where the thread is for the sockets, `timerPc` where it is for the timers; `PollEnds` is the end of `poll(2)` together with the search for expired timers that `PollSockets` makes before its loop |
| `TestServer`, `TestClient` (extend `TorpClass`) | `test_server.cpp`, `test_client.cpp` | `main` is the next statement of the function of that name; `main` and `connCallback` choose among the actions of `TorpClass` |
| `ByteStream` | what a connection promises of the bytes of one direction | abstract: how many bytes were put in, and which have come out |
| `ClientStream` | the buffers of `Client.cpp`, `WriteSocket` | the bytes of each direction are numbered from 1, so that a buffer shows which bytes it holds; `wire` is what the kernel has taken, also in a write that then failed, `consumed` what the program took from the read buffer, any number of bytes at a time; `overlaid` says that a read was put over bytes left there |
| `PlatformWindows` | the poller, `ReadSocket`, `AcceptSocket` and `CloseSocket` of `Platform_Windows.cpp` | the two `fd_set`s, `mNumToPoll`, the iterator over `mSocketMap` (`cursor`, `erased`), and what `ReadSocket` returned in the callback (`result`) |
| `MCConnManager`, `MCTorpClass`, `MCTestServer`, `MCTestClient` | - | values of the constants, symmetry, views |
| `ConnManagerProofs`, `ConnServiceProofs`, `TorpClassProofs`, `TestServerProofs`, `TestClientProofs`, `TimerManagerProofs`, `ClientStreamProofs`, `PlatformWindowsProofs` | - | theorems |

How they build on each other:

    Sockets <- Platform <- ConnManager <- TorpClass <- TestServer
                                             |    \--- TestClient
                       TimerService <- TimerManager (instantiated)

Three abstract specifications say what a component promises and are shown to be
implemented: `ConnService` by `ConnManager`, `TimerService` by `TimerManager`, and
`ByteStream`, twice, by `ClientStream`.

`ConnManager` and `TorpClass` have the most general program: in any order, from
`main`, from inside the client callback and from inside a timer's callback, it
starts and stops any client or server, sends, creates and deletes timers, and
reads the client it was called for. `TestServer` and `TestClient` are two such
programs, which is both checked (`ImplementsTorpClass`) and proved; `TorpClass`
in turn implements `ConnManager` and `TimerManager`, and `ConnManager` implements
`ConnService`, which is checked and proved as well. So what is shown of a manager
alone holds for both programs.

A definition whose name has a suffix (`StopClient_StaysPolled`) is a mutant of
the definition that follows: a bug somebody could write. No specification uses
it; each property is checked to fail when the mutant takes the place of its
original.

### Assumptions

* The program calls `Client::HandleSocket` in the callback only, on the client it
  was called for; it does not enter `HandleEvents` from a callback, and it does
  not call the public `Client::Start`, `Client::Stop` or `Client::setSocket`.
  Both programs of the repository keep to this.
* `new` gives an address that no live object has. A program holds pointers to
  servers that were started and not stopped. `RoomForClients`: an address is left
  for each descriptor.
* Every system call is one step, except that a sleep in `read(2)`, `accept(2)`
  or `write(2)` is a state of its own (`reading`, `accepting`, `writing`,
  `appWriting`), which the peer ends. `WriteKills` stands for SIGPIPE: it may
  happen in any write to a connection whose peer has ended, refused or reset it,
  which is more often than the kernel does it.
* A descriptor fits the array: `ArrayHoldsAllSockets`. The code has 1024 slots
  and does not check.
* `Send` is called with room in the buffer (`FitsWriteBuffer`); it does not check.
* In `ConnManager` a read has room in the buffer. The test programs empty it after
  every read; a read with no room left would return 0, a closed connection. In
  `ClientStream` a program that leaves bytes moves them to the start of the buffer,
  as `getReadBuffer` offers no other place, and sets the position to their number.
* `PlatformWindows`: handles are non-blocking, those that `accept` returns as well,
  which on Winsock have the mode of the listening one; and a connection may be
  accepted. (`handleServerEvent` passes an address length of 0, with which Winsock
  is documented to refuse; that outcome is in the model, too.)
* A use of an uninitialised member ends in the state `undefined`, in which nothing
  more is claimed. In `PlatformWindows` so does the step of an iterator whose
  entry was erased.
* `TimerManager`: a `Timer` is never freed, so that its address is used once.

## 3. Runs

Runs that pass (states and minutes with two workers are those of a laptop-sized
machine):

| Run | Shows | Bounds and why they are enough |
|---|---|---|
| `MCConnManager.cfg` | type invariant; `DispatchTargetsLiveClient`, `CallbackClientIsLive`, `SocketsOwnedOnce`, `RegistryMatchesSockets`, `PollArrayListsRegistry`, `ClientMapIsExact`; refinement of `ConnService` | 3 descriptors: a slot before, at and after the one in use; 3 client addresses and 1 server address, so that both are used again. No bound on the length of a run. The clients are symmetric, as no code orders them; `View` leaves out `mServerSockets` and `result`, which no action reads. 1.5 million states, 2 minutes |
| `MCTorpClass.cfg` | `ImplementsConnManager`, `ImplementsTimerManager`, `TimersAreKept`, `FiredBeforePolling` | 2 descriptors, 2 clients, 1 server, 1 timer, which is created, fired or deleted between any two steps of the sockets. The clock starts at 7 and may be set to 8, where a 4-bit long turns negative: `GetTime` wraps. 1.3 million states, 3 minutes. Symmetric clients; `View` leaves out history other than `overdue`, and what no step depends on |
| `MCTestServer.cfg` | `ImplementsTorpClass`, `NoDescriptorServedTwice`, `HealthyClientsStay`, `SetBeforeUsed`, `PassEnds`, `EndedConnectionIsClosed`, `TimerFires` | 3 descriptors: the listening socket and two clients, so that a stop moves another client to the slot just left and an accept takes its descriptor again; 1 timer. No symmetry, which would be unsound for liveness |
| `MCTestClient.cfg` | `ImplementsTorpClass`, `ReadsFindWhatWasReported`, `EndIsNoticed` | 2 descriptors, of which the program can use one |
| `TimerManager.cfg` | `NoTimerIsLost`, `FiresAtMostOnce`, `NeverEarly`, refinement of `TimerService`, `EveryTimerFires` | 3 timers with a timeout of 1 millisecond, 2 ticks in a millisecond, created in its middle or at its start; at any moment the clock is set back to 0 or forward to 3, by 3 ticks (`MaxGained`) in all: equal times, times in the past, timers created while others fire. 1.3 million states, 2 minutes |
| `ClientStream.cfg` | both buffer invariants, `SendsInOrder` and `ReadsInOrder` (refinements of `ByteStream`), `UnsentIsFlushed` | buffers of 3 bytes and streams of 5 (`MaxSent`, `MaxReceived`), so that every position is reached again after a move, and a read over bytes left is followed by a read into an empty buffer. 0.3 million states, 1 minute |
| `PlatformWindows.cfg` | `PollsOpenHandlesOnly`, `ClosedMeansEnded`, `NoHandleServedTwice`, `HeardUnderChurn` | 3 handles: one before, at and after the iterator; a new handle may be any that is free, so that it may lie ahead of the iterator or behind it |

The widths `LongMod` and `U64Mod` are the powers of two for a `long` and a
`uint64_t`, taken so small that they matter. Deadlock is not checked: a thread
asleep in a system call, a program that has stopped in `undefined` or `killed`,
a `main` that has returned, and the end of a bounded run are legitimate stops.

Runs that TLC must find violated, each for one statement of a comment or an
interface of the repository that the code does not keep:

| Run | Violated | In short |
|---|---|---|
| `TestServer_BlockedLoop.cfg` | `ReadsWhatHappened` | a `revents` left behind by a client that was stopped calls back the one that was accepted since, and the read of its blocking socket sleeps. `ZeroedSpec` starts with an array of zeros, so that the `revents` is one that `poll(2)` wrote for the stopped connection |
| `TestServer_Starvation.cfg` | `EndedConnectionIsClosedAnyway` | a descriptor that moves to the slot just left is skipped, again and again |
| `TimerManager_Deleted.cfg` | `DeletedTimerStaysQuiet` | `DeleteTimer` is empty |
| `ClientStream_Killed.cfg` | `NeverKilled` | a write to a broken connection raises SIGPIPE before it can return EPIPE |
| `PlatformWindows_Deaf.cfg` | `ReadableIsCalled` | `select` clears the handles that were not ready, and only a rebuild sets them again |

The models also contain the following, which no run is about:

* four tries of a non-blocking read with no data count as a closed connection;
  `ReadsFindWhatWasReported` shows that `test_client.cpp` never meets it, because
  with one descriptor no `revents` is stale, and `HealthyClientsStay` that
  `test_server.cpp` does not either, because its accepted connections are blocking;
* on Windows every handle is non-blocking, and a handle that a rebuild in the middle
  of a pass put back into `mSetRead` is called with nothing to read: both test
  programs would take it for closed. `ClosedMeansEnded` shows that this is the only
  way to it (`rebuilt`);
* a `WriteSocket` that fails does not say what it had written before; `SendsInOrder`
  shows that no byte goes out twice for that, because the connection is gone by then;
* `HandleSocket` reads to the start of the buffer, over what the program left there
  (Client.cpp:103), and counts both. `ReadBufferIsUnreadStream` and `ReadsInOrder`
  state what that leaves: the position counts the unread bytes at all times; the
  bytes are those of the stream until a read finds some left (`overlaid`), and again
  from the moment the program has emptied the buffer. What it takes in between is
  garbled. Both test programs empty the buffer after every read;
* `StopClient` leaves its client in `mClientSockets`: harmless, by
  `DispatchTargetsLiveClient`;
* `mServers` holds -1 for every server and keeps the key of one whose `Start`
  failed; `Server::Start` does not see that `setupSocket` failed;
* `StartClient` returns a client whose connection was refused, POLLOUT being taken
  for success: by `EndIsNoticed` the next pass tells the program;
* `mNumToPoll` and `mTimeoutCallback` are used uninitialised when `HandleEvents`
  comes before the first socket or without `TimerManager::Start`. By
  `SetBeforeUsed` this cannot happen to `test_server.cpp` unless `StartServer`
  failed, which its `main` ignores; `test_client.cpp` never starts the timer
  manager, and its `mTimeoutCallback` is whatever the memory held.

### Time

The timers follow the wall clock. `now` is the time that has passed and `clock`
what the clock shows, in ticks; an administrator or NTP sets the clock at any
moment (`ClockSettings`), `gained` is by how much it was set forward in all.
`GetTime` cuts the clock to milliseconds and wraps as the code's `long` does. So

* a timer created late in a millisecond is called up to a millisecond early, and
  earlier still when the clock was set forward meanwhile: `NeverEarly` and
  `TimerService` allow just that, less than one millisecond beyond what was gained;
* a clock that is set back makes timers late, by as much: `EveryTimerFires` says
  that a timer is called when its time has come on the clock, and no more;
* a wrap makes a timer late or early by its whole range; the theorems about time
  have the hypothesis that it does not come (`LongIsWide`), and `MCTorpClass.cfg`
  checks with a clock that wraps that no timer is lost or repeated for it.

`overdue` is the set of timers whose time had come at the last search, whatever the
code found. `FiredBeforePolling` compares it with the callbacks made.

### Fairness

* `TestServer`: weak fairness of the thread's next step and of time. The one
  thread of the process runs unless it is asleep in a system call, and `main` is
  an endless loop. Nothing is assumed of the remote hosts.
  `EndedConnectionIsClosed` holds under `Quiet` (from some moment on no client is
  added) and unless the thread is asleep; `TestServer_Starvation.cfg` and
  `TestServer_BlockedLoop.cfg` show that neither condition can be dropped.
* `TestClient`: weak fairness of the thread's next step.
* `TimerManager`: weak fairness of `HandleEvents` and of the steps inside it. The
  programs call `HandleEvents` in an endless loop with a timeout of 10
  milliseconds. Time itself need not pass: the property starts when the clock has
  come to the timer's time.
* `ClientStream`: strong fairness of a `Flush` of which the kernel takes
  something, the loop flushing at every turn and the peer reading as long as the
  link is up.
* `PlatformWindows`: weak fairness of `HandleEvents`, of the return of a callback
  and of the steps of `PollSockets`. `HeardUnderChurn` has the hypothesis that
  sockets keep being started or stopped; `PlatformWindows_Deaf.cfg` shows that it
  cannot be dropped.

## 4. Proofs

All theorems are proved by TLAPS without assumptions beyond the named `ASSUME`s
of the modules and, where stated, the hypotheses below.

* `ConnManagerProofs`: `TypeCorrect`, `DispatchIsSafe`, `CallbackIsSafe`,
  `OneOwner`, `ClientMapExact`, `RegistryIsExact` and `PollArrayIsExact`, that is
  every property of `MCConnManager.cfg`, for any finite set of descriptors and any
  sets of objects. None is inductive alone. That an event reaches the right client
  depends on the registry holding open descriptors only (else the entry of a
  deleted client would be used), that depends on a stopped client owning the
  descriptor it closes, and that depends on the maps. The inductive invariant
  `IInv` joins them with `KindsMatchOwners` (a client's descriptor is connected or
  refused, a server's listens) and `PassInv` (a pass runs over an array that was
  built). The lemmas treat first the array (`Rebuilt`, `Added`, `Removed`), then
  what a step does to the maps (`Adopted`, `ClientStopped`, `ServerStarted`,
  `ServerStopped`, and the undo in `ClientStartFailed` and `ServerStartFailed`), then each group of actions; `IInvPreserved` has one step per
  action.
* `ConnServiceProofs`: `ConnManagerImplementsService`, for any finite set of
  descriptors and any sets of objects. There is one lemma per action of the manager
  that the service sees, and one for those it does not; they rest on `IInv`, as an
  object that is started or stopped has to have exactly one descriptor for the
  count of descriptors to go up or down by one (`OneMore`, `OneLess`). One fact is
  new: a thread asleep in `accept` is so for a server that is still running
  (`AcceptingOnServer`), so that the client it wakes up with is one the service
  may add.
* `TorpClassProofs`: `ConnManagerComposed` and `TimerManagerComposed`, the two
  refinements; by them `ComposedDispatchIsSafe` and `ComposedTimersAreSafe` carry
  the results of each manager over to the composition. `TimersComeFirst` is new
  there: a timer that was overdue at the last search is still among the fired ones
  or has been called (`OverdueInv`, of `TimerManagerProofs`), and while the thread
  waits there are no fired ones left. `TorpTypeCorrect` adds that the two control points
  agree (`Linked`).
* `TestServerProofs`: `test_server.cpp` implements `TorpClass`
  (`TestServerImplements`), so that its dispatch is safe. `EachDescriptorOnce`
  proves `NoDescriptorServedTwice` for any number of descriptors. Its invariant
  `ServedInv` says that the slots ahead of the loop list descriptors above those
  served. The array is ascending (`Ascending`); when the client of the current
  slot is stopped, what moves into its slot was above it, which needs a counting
  argument (`HigherMoveDown`: there are not enough lower descriptors to fill the
  slots before it); and when a client is accepted the listening socket, which was
  opened first and so is the lowest, is in the first slot (`LowestFirst`,
  `ListenerComesFirst`), so that nothing is displaced in front of the loop. The
  theorem is about every step that serves a slot, an accept that succeeds too.
  `HealthyClientsAreKept` proves `HealthyClientsStay`. Its invariant `HealthyInv` says
  that a client's descriptor is an accepted one, hence blocking, and that the
  callback holds the result "closed" only for a descriptor at its end: the end of a
  stream, once there, stays (`EndStaysSeen`).
  `NothingUsedUnset` proves `SetBeforeUsed`: `main` sets both callbacks before its
  loop, and a count that was never set means that nothing is registered.
* `TestClientProofs`: `test_client.cpp` implements `TorpClass`; and
  `ReadsFindSomething` proves `ReadsFindWhatWasReported`. At most one descriptor is
  ever open (`OneConnection`), so that a pass serves the first slot or none
  (`ServesOneSlot`) and no `revents` describes another descriptor.
* `TimerManagerProofs`: `TypeCorrect`, `NoTimerLost`, `AtMostOnce` hold however
  the clock moves, from an invariant (`MapsInv`) on where the timers are and on
  which of them the loop has fired. `TimersAreNotEarly` and `RefinesTimerService`
  hold however the clock is set, back or forward, under `LongIsWide`: what it shows
  stays in the positive half of a long. `TimeInv` says that the end of a timer's last
  millisecond is at least as far away on the clock as the timer's due time is in
  the time passed and gained; that `GetTime` cuts is in `TicksOfSum`.
* `ClientStreamProofs`: the buffers, for every size. `WriteBufferIsCorrect` rests
  on one lemma, `AdjustKeepsStream`, for the code that `Send` and `Flush` share.
  `ReadBufferIsCorrect` is for a program that takes any number of bytes at a time.
  `SendsAreAStream` and `ReadsAreAStream` prove the two refinements of `ByteStream`.
  `WireInv` says that `wire` is a prefix of the stream, and of which length: the
  bytes reported as taken, and possibly more once the link is broken, which is why
  nothing may be written after that. For `ReadsAreAStream`, `ConsumedInv` says that
  each byte taken is in its place unless it was taken from an overlaid buffer.
* `PlatformWindowsProofs`: `TypeCorrect`, `OnlyOpenHandles`, `ClosedIsTrue` and
  `EachHandleOnce`, for any finite set of handles. The iterator only moves up, and
  what was served lies behind it (`ServedInv`); what it has still to call and
  `mSetRead` holds was reported by `select` and read by nobody since
  (`DueAreReadable`), as long as the sets were not rebuilt.

Only model-checked: all liveness (`PassEnds`, `EndedConnectionIsClosed`,
`TimerFires`, `EndIsNoticed`, `EveryTimerFires`, `UnsentIsFlushed`,
`HeardUnderChurn`), which is beyond the prover. Every other property of a passing
run is a theorem. The type invariants of the two programs are proved
(`TestServerTypeCorrect`, `TestClientTypeCorrect`) and in no run: what they say of the
library follows from `ImplementsTorpClass` and `TorpTypeOK`.

## 5. Not modelled, and what is next

* The rest of `Platform_Windows.cpp`. `WriteSocket`, as `ReadSocket`, looks at
  `errno`, which Winsock does not set (lines 162-208); `ConnectSocket` selects on a
  set it has just emptied (lines 219-227); a failure of `SetNonBlock`; and `GetTime`
  has no return statement (lines 241-245), so that timers on Windows are undefined.
* `Address` (one call of `inet_pton`: a bad address is refused before any state
  changes), `Trace` and `StackTrace`: pure, or output only.
* `Server::HandleSocket`, `Server::getReadBuffer` and `RegisterServerCallback`'s
  pointer, which no code calls or reads.
* A program that calls the public `Client::Stop`, which closes the descriptor and
  leaves it polled, or that enters `HandleEvents` again from a callback.
* The length of the sleep in `PollSockets`, the memory of `Timer` objects (never
  freed).

Further work, in this order: `ClientStream` and `ConnManager` joined, so that a
read with a full buffer is part of the event loop; a program that uses
`Client::Stop`; a timer's callback that enters `HandleEvents` again.

Checking: `tlc -config X.cfg M` and `tlapm M.tla` in this directory.

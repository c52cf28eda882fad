# A TLA+ model of the unified HDCP daemon and SDK

This directory holds TLA+ modules, TLC configurations and TLAPS proofs for
`daemon/`, `sdk/` and `common/`. The modules are translated from the code; the
documentation and the comments are only used as statements to check the code
against. `PROJECT.json` maps every definition to the lines it stands for.

## 1. Inventory

An application links the SDK. The SDK talks to the daemon over a local stream
socket per session, and receives events over one callback socket per process.
The daemon drives the HDCP properties of the DRM connectors and keeps the list of
revoked devices (the SRM).

| part | state it keeps | operations |
|---|---|---|
| port manager (`portmanager.cpp`, `port.cpp`) | per port: cached connection, cached content type, applications using it, two mutexes | EnablePort, DisablePort, EnumeratePorts, RemoveAppFromPorts (main thread); CheckIntegrity (thread, every 500 ms); ProcessHotPlug (thread, per uevent); GetStatus, GetKsvList, SendSRMData; DisableAllPorts (SIGTERM); construction, destruction |
| daemon (`daemon.cpp`) | callback list and its mutex | MessageResponseLoop, DispatchCommand and its handlers, ReportStatus |
| server socket (`servsock.cpp`, `gensock.cpp`) | descriptor array, scan index, kill flag | PollForEvent, ProcessNewConnections, GetTask, SendResponse, SendKsvListData, GetSrmData |
| SDK session manager (`sessionmanager.cpp`) | session list, destroy queue, number of iterating threads, callback thread | CreateSession, GetInstance, PutInstance, DestroySession, CallBackManager, DestroyCallback |
| SDK session (`session.cpp`, `clientsock.cpp`) | active references, condition variable, socket and its mutex | constructor, destructor, one method per request |
| SDK API (`hdcpapi.cpp`) | none | HDCPCreate, HDCPDestroy, HDCPEnumerateDisplay, HDCPSetProtectionLevel, ... |
| SRM store (`srm.cpp`) | SRM table and version in memory, the SRM file and the kernel's copy | SrmInit, StoreSrm, RetrieveSrmFromBuffer, SrmConfig, GetSrmVersion, SrmRelease |
| start and stop (`main.cpp`) | pid file, directory, signal handlers | main, the two SIGTERM handlers |

**How they interact.** `GetTask` gives the daemon a request and the number of the
descriptor it came from; that number is the application id in the port manager. A
connection that sends CREATE_CALLBACK leaves the session array and joins the
callback list. CheckIntegrity and ProcessHotPlug call ReportStatus, inside a
port's mutex, which takes the callback mutex and sends to every callback socket.
In the SDK the callback thread walks the session list and calls the application,
which may call the SDK again on that thread. GetKsvList and SendSRMData take several
messages each; which one comes next is known only from the ones before.

**What is hard.** Three daemon threads share the ports, EnablePort decides from
an unlocked read, and a signal handler runs DisablePort on top of any of it. DRM
calls fail half-way through an operation. Descriptor numbers are reused. The SDK
walks a list without a lock and defers deletion with two counters. Either process
may end during a call. Files are overwritten in place. `hazards` in `PROJECT.json`
lists each place.

**What makes each part correct.**
- port manager: the cache never promises more than the kernel was asked for; a
  success means the level asked for; protection is not dropped under a user, and
  a loss is reported; every request ends; a signal leaves no port protected;
- server socket: no descriptor leaks or is shared, the references of one client
  do not pass to the next user of its number, every client is served (each with
  the exceptions of section 3);
- protocol: a call returns the answer to its own request, a failure leaves nothing
  behind in the streams, a success lasts, every call returns;
- session manager: no freed session is touched, reference counts are exact, queued
  sessions are deleted in the end, every call returns;
- SRM store: one signed SRM is in memory, the version in use never goes back, what
  was acknowledged is stored, also over failures and restarts;
- start and stop: the threads never use ports that are not there; start and stop
  come to an end.

## 2. Modules

| module | what it is |
|---|---|
| `PortManager` | the port manager, the daemon code that calls it, the kernel behind DRM |
| `PortManagerHistory` | the same with a history variable: for which ports LINK_LOST was sent |
| `PortManagerSignal` | the same with the SIGTERM handler that runs on the main thread |
| `Lifecycle` | start, threads, barrier, handlers and tear-down of the daemon |
| `ServerSocket` | server socket, request loop and callback list of the daemon |
| `SessionProtocol` | the messages of a session: SDK threads, two streams, the daemon's handlers |
| `SessionService` | the abstract specification `SessionProtocol` implements |
| `SessionManager` | session manager, sessions and API of the SDK in one application |
| `SrmStore` | the SRM table, the parser, the two files, failures and restarts |
| `PortManagerProofs`, `PortManagerHistoryProofs`, `PortManagerSignalProofs`, `LifecycleProofs`, `ServerSocketProofs`, `SessionProtocolProofs`, `SessionManagerProofs`, `SrmStoreProofs` | theorems |
| `PortManagerHistoryMC`, `SessionManagerMC`, `SessionProtocolMC`, `SrmStoreMC` | symmetry sets and sample data for TLC |

### PortManager

A step is the stretch of one thread between two lock operations, DRM calls, or
unlocked reads of a field that another thread writes. The main thread's
program counter `mpc` follows EnablePort (`enable`, `cached`, `hit`, `setType`,
`setDesired`, `enableLock`, `enableCheck`), DisablePort (`disable`, `setOff`,
`disableLock`, `disableCheck`), EnumeratePorts (`enumLock`, `enumRead`) and the
registration of callbacks (`cbLock`, `cbAdd`); `caller` tells whether DisablePort
was called by the loop or by RemoveAppFromPorts for each port in turn. The other
threads have `ipc` and `upc`. The content protection values keep their numbers.

The kernel is external: it authenticates a desired port, or does not; it loses
links; connectors are plugged and unplugged, with a uevent each. Any DRM call may
fail, at most `MaxFaults` times. The kernel may still protect ports when the daemon
starts, for an earlier instance.

Abstractions: the descriptors of an application's session and callback socket are
one identifier (`ServerSocket` treats the numbers themselves); delays are not
modelled, only their order; the retries of a property write end in
one outcome. The daemon checks links every 500 ms
(`INTEGRITY_CHECK_DELAY_MS`), README.md:149 says 200 ms.

`PortManagerSignal` composes this with the handler: from `SigCatcher` on the main
thread is stopped where it was and `hpc` follows DisableAllPorts port by port, while
the two other threads and the kernel go on; `exited` is the end of the process.

### Lifecycle

`mpc` follows main through the constructors, the barrier, the request loop and the
destructors; `ipc` and `upc` are the life of the two threads, from the barrier to
the end. Any call of the start may fail. `handler` is what SIGTERM does at the
moment: the default, the flag of LocalServerSocket, or the catcher of PortManager
that replaces it. The catcher disables the ports (`disable`) and exits, unless it
has interrupted a request inside a port's mutex (`CaughtAt`): then it waits for
itself (`stuck`). What it does port by port is in `PortManagerSignal`. Joining a
thread that was never created is undefined and may crash.

### ServerSocket

One entry of the array is examined per step, so clients connect, send any number
of messages and close in between; a request is dispatched in one step and answered
in another. `accept` gives the lowest free number. What the port manager keeps per
application is abstracted to one port, `connected` or not as far as the daemon
knows, and `users`: which client the reference under a number belongs to. `kept`
records the numbers whose application went while the port was disconnected (see
`portmanager.cpp:829` below), `destroyed` the clients whose own DESTROY was read.
The SDK sends no DESTROY, but the protocol and the daemon have it; `Destroyers`
are the clients that use it, `CallBacks` the connections that InitCallBack makes.
`ReportStatus` finds broken callback sockets, closes them and drops them.

### SessionProtocol and SessionService

A stream is a sequence of units, a message `MessageSize` of them, so a reader that
expects something else than was sent reads parts of two messages and stays out of
step. Several threads share the session; `mutex` is m_SocketMutex. The calls are
reduced to the four shapes their transactions have. `request` differs from `call`
in the LEVEL0 transaction that follows a failed SetProtectionLevel. Any thread may
set any of the `Levels`. `EnumerateDisplay` may turn a good answer into an error
(`Outcomes`). Two histories: `protected`, that a success was returned for a level
above 0 and no level 0 was served after its grant, and `overtaken`, the threads
whose grant was followed by a level 0 before it was returned. Either process may
end at any time. `Faulty` names the sends that may fail on a live connection.

`SessionService` promises that the daemon serves a call at most once and that the
call returns what was answered to it, or that the transaction failed. The refinement
mapping hides streams, mutex and the daemon's position: a call is answered when its
thread has left its last transaction.

### SessionManager

Per thread, `pc` is the place in the code, `op` the API call, `stage` the manager
call, `cur` the session, `work` the sessions still to be deleted with the mutex
held. `iteratorMutex` names a thread only where the mutex is held across steps:
while sessions are deleted. InitCallBack may go on without a callback thread
(`InitCallBackDone`): pthread_create does not set errno. The list is a set of
handles: only membership and the sessions the callback loop has still to visit
(`visit`) matter. A transaction with the daemon is one step that succeeds or
fails; every API call other than HDCPCreate and HDCPDestroy has the shape of
`HDCPUse`. The application is external: `RacingDestroy` says whether it may
destroy a session that another call is using; it destroys a session once.
`SpuriousWakeups` lets `pthread_cond_wait` return without a signal, as POSIX
allows; the runs leave it off (see below).

### SrmStore

A buffer or a file is a sequence with one entry per byte that says which SRM the
byte is from, so a short write, an overlay of two SRMs and a torn write are all
visible, and a signature verifies only over bytes of one message. The parser has
one step per list. The lengths are parameters; the tests on them are the code's
own, with the two length bytes of later generations counted twice. `WellFormed` is
the format itself, for any number of generations, and does not repeat that
mistake. A stop of the daemon may come between any two steps and in the middle of
a write.

## 3. Runs

| run | instance | shows |
|---|---|---|
| `ports_safety` | 1 port (connected, disconnected or unknown), 2 applications, 1 fault, 1 plug change or link loss | types, the cached type, the level granted, no port switched off or cleared under a user, LINK_LOST for a port the daemon itself switched off only while nobody uses it |
| `ports_live` | 1 port, 1 application, no faults | requests end, losses and plug changes are noticed |
| `ports_signal` | 1 port, 1 application, 1 fault, 1 event, SIGTERM at any time | the daemon exits with the port off, unless main was stopped inside a mutex |
| `lifecycle` | 3 failing calls, SIGTERM at any time | no thread uses ports that are not there; start and stop end, outside three hangs: at the barrier, in the catcher, in the receive of the uevent thread |
| `server` | 3 clients (1 callback, 1 that may send DESTROY), any number of requests, 3 entries, 1 interrupted accept, 1 port plugged in and out | which descriptors leak and which references outlive their client is just what the properties name; requests, hangups and connections are handled unless one client keeps the scan to itself |
| `protocol` | 2 threads that both set levels 0 and 1, messages of 2 units, lists of up to 3, 2 failing sends, both processes may end | streams in step, the service is implemented, a success holds until a level 0 is served, calls return |
| `sdk_safety` | 2 threads and the callback thread, 2 sessions, 1 report, 1 stop of the daemon, destruction of sessions in use | no use after free and no removal under an iterating thread until the daemon stops; exact counts and no stranded session throughout |
| `sdk_live` | 1 thread and the callback thread, 2 sessions, 1 report, no destruction of a session in use | calls return and rounds of callbacks end |
| `srm_safety` | 13 SRMs, 1 fault, 2 restarts | the table, the version and both files are right; an SRM is refused only for its faults or a newer one, or for having several lists |

**Why the bounds are enough.** `ports_safety` is about a port with two users, which
is what the reference list is for, and one environment event against every point of
every operation; the loops over ports are covered for any number of ports by the
proofs. `lifecycle` has no bound but the number of failures, and no path of the
start meets more than three. In `server` two entries remain beside the listener for
three clients, so that the array fills, is emptied, and numbers are reused; two
sessions are enough for one to starve the other.
`protocol` has a second thread to come between the parts of a call and between a
failure and its LEVEL0, a count at which the eight bits (here five values) wrap, and
SRM sizes at and above the limit.
`sdk_safety` has the three actors that a deferred deletion needs: the one that
destroys, one that iterates, one that holds a reference. `sdk_live` leaves out the
sessions destroyed while in use: what follows then is the subject of
`daemon_stop_hang`. The SRMs of `srm_safety`
meet every test of the parser, and the two restarts allow an overlay of an
overlay. Symmetry is used in safety runs only. Deadlock is not checked where the
system may stop: with bounded clients the daemon waits in poll for ever, processes
end, and destroying a session in use does block (see below).

**Fairness.** Each thread's steps are weakly fair: threads run. Taking a mutex is
strongly fair: its holders release it after a bounded number of steps, and sleep
or wait for input between two uses, so a waiting thread gets it. For m_SocketMutex
this is part of strong fairness of the thread as a whole. Nothing is assumed
of applications, of the kernel, of uevents, of signals, of clients, or of the daemon
as seen by the SDK.

### Where the code and its documentation disagree

Each of these runs is expected to find its property violated.

| run | shows |
|---|---|
| `daemon_stop_hang` | DestroyCallback deletes sessions with m_IteratorMutex held; the destructor waits for a user that needs this mutex in PutInstance. HDCPDestroy of a session that another thread is using ends the same way |
| `signal_destroys` | a SIGTERM that stops main inside a port's mutex has the handler wait for it for ever; the ports after that one stay enabled |
| `srm_valid` | a shorter SRM written over a longer one keeps the longer one's tail; the next start cannot read it, and goes on with an empty table that IsValid calls valid |

Modelling showed further differences that no run is spent on:
- `portmanager.cpp:695`: EnumeratePorts updates the cached connection without
  reporting; the uevent that follows finds no change, and PLUG_OUT is never sent.
- `portmanager.cpp:739`: EnablePort reads the cached type without the mutex. If the
  integrity thread clears it in between, the application is granted a port that has
  just been reported lost, and hears nothing (README.md:149).
- `portmanager.cpp:829`: DisablePort returns early for a port cached as
  disconnected, so an application that exits while its port is unplugged stays
  counted on it (README.md:157), the port is not switched off when its later
  users leave, and the next client whose descriptor has that number inherits the
  reference. `ReferencesFollowClients` names it as its exception.
- `portmanager.cpp:854`: DisablePort writes CP_OFF before it takes the port's
  mutex, and CheckIntegrity in between reports LINK_LOST for it.
- `portmanager.cpp:1220`: after a failed property write DRM master is kept.
- `portmanager.cpp:226`: an interrupted recv continues the loop before the exit flag
  is tested, so the signal that ExitThread describes (`portmanager.cpp:93`) does not
  end the uevent thread; the destructor waits for the next uevent.
- `portmanager.cpp:520`: if the uevent thread cannot be created, the destructor joins
  an integrity thread that waits at the barrier for ever. If neither was created, it
  joins threads that do not exist.
- `main.cpp:83`: closing the pid file drops the lock that AlreadyRunning has taken.
- `session.cpp:222`: the LEVEL0 request that follows a failed SetProtectionLevel is a
  transaction of its own. If another thread's level is granted before the daemon
  serves it, it takes that level away again, and the other thread keeps its
  SUCCESSFUL. `SuccessHolds` therefore promises a success only until a level 0 is
  served.
- `session.cpp:229`: SetProtectionLevel returns SUCCESSFUL for LEVEL0 whatever
  happened.
- `session.cpp:80`: a callback that destroys a session another thread is using waits
  with m_IteratorMutex held, as HDCPDestroy does (see `daemon_stop_hang`), and its
  round never ends. `RoundFinishes` is about applications that do not do this.
- `sessionmanager.cpp:155`: InitCallBack returns errno when pthread_create has failed,
  which does not set it. If errno is 0, CreateSession succeeds without a callback
  thread, and later sessions do not try again.
- `daemon.cpp:493` and `daemon.cpp:257`: if the send of a KSV list or of a final
  response fails while the connection lives, the application waits for data that
  does not come, or takes the response that follows for the list. WriteData on a
  local socket hardly fails in that way; the theorems name the assumption.
- `srm.cpp:715`: the length of a list of a later generation is tested with its two
  length bytes counted twice, so the last list of an SRM of two or more generations
  never fits and such an SRM is always refused as SRM_INVALID. `hdcpapi.h:319` has
  that status for a signature that does not verify, and the comments of the parser
  mean to accept such SRMs. `RefusalJustified` names the exception.
- `srm.cpp:445`: ContainsKsv returns SUCCESS, which is false, also when the KSV is
  in the list. CheckSrmRevoke has no caller; the kernel checks its own copy.
- `session.cpp:78`: the destructor tests its condition with `if`; a spurious wakeup
  frees a session in use (set `SpuriousWakeups` to see it).
- `sessionmanager.cpp:225`: sessions are added while threads iterate, and
  `sessionmanager.cpp:254` appends to the destroy queue while GetInstance reads
  it; `sessionmanager.h:143` and the comment at `sessionmanager.cpp:294` exclude both.
- `sessionmanager.cpp:241`: a second HDCPDestroy of a queued session queues it
  again, and it is deleted twice.
- `sessionmanager.cpp:200`: after the daemon was restarted no callback thread is
  started again.
- `servsock.cpp:391`: the scan starts at the entry that was served last, so a client
  that has its next request ready at every poll starves the others; the comment
  at `servsock.cpp:389` says round robin. `RequestAnswered`, `HangupNoticed` and
  `ConnectAnswered` name such a client (`Monopolises`) as their only exception.
- `servsock.cpp:378`: a DESTROY that a client sends frees its entry without closing the
  descriptor, which nothing closes later; and the client's references go, although it
  is still connected. The SDK never sends one. `DescriptorsAccounted` names the
  exception.
- `servsock.cpp:188`: after an interrupted accept the loop ends instead of trying
  again; the connection waits for the next poll.
- `servsock.cpp:218`: a full array makes ProcessNewConnections fail as if the
  listener were broken.

## 4. Proofs

Nothing is assumed but the named `ASSUME`s of the modules and what a theorem states.

| module | theorem | statement |
|---|---|---|
| `PortManagerProofs` | `TypeCorrect`, `SwitchOffCorrect`, `CachedTypeCorrect`, `OwnershipCorrect` | `Spec => []TypeOK`, `[]SwitchOffReportedUnused`, `[]CachedTypeNotOverstated`, `[]OwnedUnlessFaulted` |
| | `LevelCorrect`, `OffCorrect` | `Spec => LevelHonoured`, `OffOnlyWhenUnused` |
| `PortManagerHistoryProofs` | `NoSilentLossCorrect` | `HistorySpec => NoSilentLoss` |
| `PortManagerSignalProofs` | `SignalCorrect` | `SignalSpec => []OffAtExit` |
| `LifecycleProofs` | `ThreadsCorrect` | `Spec => []ThreadsUseLivePorts` |
| `ServerSocketProofs` | `TypeCorrect`, `DescriptorsCorrect`, `ReferencesCorrect` | `Spec => []TypeOK`, `[]DescriptorsAccounted`, `[]ReferencesFollowClients` |
| `SrmStoreProofs` | `TypeCorrect`, `TableCorrect` | `Spec => []TypeOK`, `[]TableIsOneSrm` |
| | `VersionCorrect`, `AcknowledgementCorrect`, `RefusalCorrect`, `StartCorrect` | `Spec => VersionNeverRollsBack`, `AcknowledgedIsStored`, `RefusalJustified`, `StartLoadsExactFile` |
| `SessionProtocolProofs` | `TypeCorrect`, `StreamsCorrect`, `ServiceImplemented` | if `Recovers`: `Spec => []TypeOK`, `[]StreamsInStep`, `ImplementsService` |
| | `SuccessCorrect` | if `Recovers`: `Spec => []SuccessHolds` |
| `SessionManagerProofs` | `TypeCorrect`, `ReferencesCorrect`, `GarbageCorrect`, `RemovalCorrect` | `Spec => []TypeOK`, `[]ReferencesCounted`, `[]GarbageNotStranded`, `NoRemovalWhileIterating` |
| | `NoUseAfterFreeCorrect` | if not both `SpuriousWakeups` and `RacingDestroy`: `Spec => []NoUseAfterFree` |
| | `DestructorsCorrect` | if not `RacingDestroy`: until the daemon stops no destructor waits |

**PortManager**, for any number of ports, any set of applications, any ports with a
content type and any bounds. The inductive invariant has three parts, each proved
with one step per action.
- `TypeInv`: the types, and that the main thread's port and application are real
  ones wherever it uses them (`MainArgs`); `mport` may be any number before the
  port was looked up.
- `LockInv`: the thread inside a section owns its mutex.
- `ValueInv`: `CachedTypeNotOverstated` is not inductive because EnablePort writes
  the kernel's type without the mutex. `EnableInv` adds what holds in between:
  where it writes the type the cache does not hold type 1 (another thread can only
  have cleared it), and afterwards the kernel's type is at least the level asked
  for. `DisableInv` adds that a port being switched off has no users and, after
  the write, is off. `OwnedUnlessFaulted` closes it.

`SwitchOffReportedUnused` needs two more: `SwitchedOffInv`, where a port can be off
while its type is still cached, and `ReportInv`, what the integrity thread knows when
it is about to send.

**PortManagerSignal**: `HandlerInv` says that every port the handler has passed is off
or was found disconnected. It holds because main, the only writer of the property,
is stopped, and the kernel never leaves CP_OFF by itself.

**PortManagerHistory**: `ReportedInv` says that between the report and the drop of a
type the report is on record. EnablePort, which takes it off the record, cannot
succeed in between because it would be in a section of the same mutex (`LockInv`).
The only other place that clears a type is DisablePort, for a port without users
(`ValueInv`).

**Lifecycle**, for any number of failing calls. `LifeInv` says that main reaches the
barrier only with the port manager published, that a thread past the barrier was
let go with all three there, and that a joined thread is absent. The barrier is
counted with the cardinality of the set of those that arrived.

**ServerSocket**, for any finite set of clients and any array of more than one
entry. `DescriptorsAccounted` counts and is not inductive; `PlaceInv` says the
same without counting: a client has a number if and only if the number is in one
of the three places, in one only, and no two clients or entries share one; a
client whose DESTROY was served has its number and is in no place. `BacklogInv`
keeps clients in the backlog apart from accepted ones, `TaskInv` ties the task to
the place where it is dispatched. `ClientInv` is what `ReferencesFollowClients`
needs: a client has one message under way at a time, and one that registers a
callback never has references. That accept finds a free number is a counting
argument over the numbers in use (`FreeFd`).

**SrmStore**, for any set of messages, any lengths and any number of failures and
restarts. The loop accepts the well-formed SRMs of one list (`Sound`) and no
others (`SoundIsWellFormed` relates the two). `ParseInv` is what the parser knows
in its loop: the first list was accepted as it was signed, and a later list ends
at least two bytes before the buffer does, so the loop never ends after one.
`SourceInv` says where the bytes come from, `StoreInv` that only accepted,
complete SRMs reach the files; with it every byte of the daemon's file is from a
well-formed SRM, whatever was torn.

**SessionProtocol**, for any number of threads and any sizes. `ThreadInv` says
what each thread has of its call and that exactly the owner of the mutex is in a
transaction. `StreamInv` lists the ten situations a transaction can be in, with
the contents of both streams, the daemon's position and what was served in each;
every step leads from one to another or ends the transaction with both streams
empty. The refinement follows from it step by step: `Serves` is the abstract
Serve, leaving the last transaction the abstract Answer. `HeldInv` adds, for any
number of threads that set levels, what stands for a reference: a grant that is
not returned and not overtaken, or a success that no level 0 followed. The
assumption `Recovers` says that of the sends only those the code recovers from may
fail on a live connection: a request and the first of two answers; with the others
the statements are false (see above). Both processes may end at any time.

**SessionManager**, for any finite set of threads and any number of sessions, reports
and stops of the daemon. `SessionInv` is inductive without any further assumption:
- `PlaceInv`: which manager call and which API call a thread can be in at each
  place, and that the callback thread has sessions to visit only in its round;
- `MutexInv`: the one thread that deletes owns m_IteratorMutex, has something to
  delete, and m_IteratorReference is zero unless it is DestroyCallback;
- `IteratorInv`: m_IteratorReference is the number of threads in the list, plus one
  during a round of callbacks, in which the same thread may be in the list again;
- `ReferenceInv`: m_ActiveReferences is the number of users of a session that exists,
  and at least that for one that was freed, whose users give nothing back;
- `FreshInv`: a handle that was not given out is unknown to everybody, and a session
  that is not inserted is known to its creator only;
- `ListInv`: the list holds what exists, and at most the one that is being unlinked;
- `ClaimInv`: the right to destroy a session is in one place: its creator, the
  application, one HDCPDestroy or the queue; so nothing is queued twice;
- `GarbageInv`: somebody who will empty the queue is in the list or deletes.

`LinkInv` adds that DestroyCallback does not run before the daemon stops; with it
`RemovalCorrect` follows from `MutexInv`. `NoUseAfterFree` needs `QuietInv`, which
holds until then: every session that a thread may reach exists. A session is freed
when its count is zero, so nobody holds it (`ReferenceInv`), and while nobody is in
the list, so nobody can find it (`MutexInv`, `IteratorInv`); what is left to delete
is other sessions (`ClaimInv`). The step that breaks it is a destructor that goes on
after a wakeup without a signal: `session.cpp:78` tests the count once. With
spurious wakeups the theorem therefore asks that the application does not destroy a
session that it is using. Then users and destruction exclude each other
(`GivenInv`, `PoliteInv`, `WorkInv`), no destructor waits (`NoWaitInv`), and there is
nothing to wake up.

Lemmas that many steps use: `Moves` and its lemmas reduce every action to where its
one thread goes, so that an invariant is looked at for the thread that moves and
carried over for the others; `HolderMoves` and `InsideMoves` do the same for the
cardinalities; `DeleterAlone` and `InsideSafe` are the exclusion between deleting
and walking.

Only model-checked: the liveness properties `RequestServed`, `LossNoticed`,
`PlugNoticed`, `SignalEndsDaemon`, `StartSettles`, `TermEndsDaemon`, `RequestAnswered`,
`HangupNoticed`, `ConnectAnswered`, `CallReturns` and `RoundFinishes`, since fairness
and ENABLED are outside what TLAPS 1.4.5 handles. Every safety property that a run
checks has a theorem.

## 5. Not modelled

- The pid file, the fork and the directory are one step of `Lifecycle`.
- A callback socket whose buffer is full: sends succeed or fail, and never block.
- The tests of parameters in `hdcpapi.cpp`; the contents of port lists and statuses.
- CheckSrmRevoke: it has no caller.
- The Wayland (IAS) and Android back ends of SetPortProperty hand the value to
  another process and keep no state.
- Formats, logging; SRM signature checks are OpenSSL calls.

## 6. Plan

Done: all modules above with their runs, and the proofs of section 4. Next:

1. Composition of the SDK's callback thread, callback sockets with bounded buffers
   and ReportStatus: can the application and the daemon wait for each other.
2. `PortProtection`, an abstract specification of one port, and `PortManager` shown
   to implement it.

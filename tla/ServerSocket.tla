---------------------------- MODULE ServerSocket ----------------------------
(***************************************************************************)
(* The daemon's server socket (common/servsock.cpp) with the loop of       *)
(* daemon.cpp that drives it: poll, accept, the scan for a task, dispatch  *)
(* and response, and the list of callback sockets.                         *)
(*                                                                         *)
(* m_SessionFdArray has SlotCount entries; entry 0 is the listener.  The   *)
(* id of an application is the number of its file descriptor, and accept   *)
(* hands out the lowest free number again.  What the port manager keeps    *)
(* per application is abstracted to one port: whether it is connected as   *)
(* far as the daemon knows, and users, who may own a reference to it under *)
(* which number.                                                           *)
(*                                                                         *)
(* A client connects, sends one message at a time as the SDK does, as many *)
(* as it likes, and may close its end at any time.  The kernel's sockets   *)
(* are the environment.                                                    *)
(***************************************************************************)
EXTENDS Integers, Sequences, FiniteSets

CONSTANTS
    Clients,        \* connections; each is made at most once
    CallBacks,      \* the ones InitCallBack makes; the others are sessions
    Destroyers,     \* sessions that may send a DESTROY; the SDK's do not
    NoClient,       \* not a client
    SlotCount,      \* SESSION_COUNT_MAX
    MaxInterrupts   \* bound: times accept is interrupted

ASSUME SlotCountAssumption == SlotCount \in Nat /\ SlotCount > 1
ASSUME ClientsAssumption ==
    /\ IsFiniteSet(Clients) /\ NoClient \notin Clients
    /\ CallBacks \subseteq Clients /\ Destroyers \subseteq Clients \ CallBacks
ASSUME LoadAssumption == MaxInterrupts \in Nat

Slots == 0 .. SlotCount - 1
Listener == 0
Fds == 1 .. Cardinality(Clients)
NoFd == -1

\* Commands as the loop tells them apart.
Commands == {"none", "request", "create_callback", "destroy"}

VARIABLES
    slots,          \* m_SessionFdArray[i].fd
    revents,        \* m_SessionFdArray[i].revents: an event, or none
    fdIndex,        \* m_FdIndex
    index,          \* i of GetTask
    emptyIndex,     \* emptyIndex of ProcessNewConnections
    pc,             \* where the main thread is
    task,           \* the request and appId that GetTask returned
    callBackList,   \* m_CallBackList
    users,          \* per fd number: whose port reference it stands for
    connected,      \* DrmObject::m_Connection of the port
    kept,           \* history: numbers whose application went while the port
                    \* was disconnected, and with it the exit was ignored
    backlog,        \* kernel: connections to accept, oldest first
    conn,           \* per client: how far its connection is
    fdOf,           \* per client: the daemon's descriptor of it
    closed,         \* clients that closed their end
    inbox,          \* per client: the message to read
    waiting,        \* clients that wait for a response, or expect none
    destroyed,      \* history: clients whose own DESTROY was read
    interrupts      \* number of interrupted accepts

scanVars == <<slots, revents, fdIndex, index, emptyIndex, pc, task>>
portVars == <<users, connected, kept>>
daemonVars == <<callBackList, portVars>>
kernelVars == <<backlog, conn, fdOf, closed, inbox, waiting, destroyed,
                interrupts>>
vars == <<scanVars, daemonVars, kernelVars>>

NoTask == [fd |-> NoFd, command |-> "none"]

\* After Listen.
Init ==
    /\ slots = [i \in Slots |-> NoFd]
    /\ revents = [i \in Slots |-> FALSE]
    /\ fdIndex = 0
    /\ index = 0
    /\ emptyIndex = 0
    /\ pc = "poll"
    /\ task = NoTask
    /\ callBackList = {}
    /\ users = [f \in Fds |-> NoClient]
    /\ connected \in BOOLEAN
    /\ kept = {}
    /\ backlog = <<>>
    /\ conn = [c \in Clients |-> "new"]
    /\ fdOf = [c \in Clients |-> NoFd]
    /\ closed = {}
    /\ inbox = [c \in Clients |-> "none"]
    /\ waiting = {}
    /\ destroyed = {}
    /\ interrupts = 0

OpenFds == {fdOf[c] : c \in Clients} \ {NoFd}
Peer(f) == CHOOSE c \in Clients : fdOf[c] = f

-----------------------------------------------------------------------------
(***************************************************************************)
(* Clients.                                                                *)
(***************************************************************************)

\* LocalClientSocket::Connect: it then waits for the response of accept.
ClientConnects(c) ==
    /\ conn[c] = "new"
    /\ conn' = [conn EXCEPT ![c] = "queued"]
    /\ backlog' = Append(backlog, c)
    /\ UNCHANGED <<scanVars, daemonVars, fdOf, closed, inbox, waiting, destroyed, interrupts>>

\* Connect has got its response, and the connection has none outstanding.
MaySend(c) == conn[c] = "open" /\ c \notin closed \cup waiting

Send(c, command) ==
    /\ MaySend(c)
    /\ inbox' = [inbox EXCEPT ![c] = command]
    /\ waiting' = waiting \cup {c}
    /\ UNCHANGED <<scanVars, daemonVars, backlog, conn, fdOf, closed, destroyed,
                   interrupts>>

\* PerformMessageTransaction, any number of times.
ClientRequests(c) == c \notin CallBacks /\ Send(c, "request")

\* InitCallBack: no response comes, and nothing else is ever sent.
ClientCreatesCallBack(c) == c \in CallBacks /\ Send(c, "create_callback")

\* The protocol has a DESTROY, which the daemon serves and does not answer.
\* The SDK closes its socket instead.
ClientDestroys(c) == c \in Destroyers /\ Send(c, "destroy")

ClientCloses(c) ==
    /\ conn[c] \in {"queued", "open"} /\ c \notin closed
    /\ closed' = closed \cup {c} /\ waiting' = waiting \ {c}
    /\ UNCHANGED <<scanVars, daemonVars, backlog, conn, fdOf, inbox, destroyed,
                   interrupts>>

-----------------------------------------------------------------------------
(***************************************************************************)
(* PollForEvent and the scan of GetTask.                                   *)
(***************************************************************************)

\* GetTask polls again or returns.  Its locals are gone, and the events it has
\* found mean nothing: poll writes them all.
PassEnds ==
    /\ revents' = [i \in Slots |-> FALSE]
    /\ index' = 0 /\ emptyIndex' = 0

\* What poll reports for an entry.
Ready(i) ==
    IF i = Listener
    THEN backlog # <<>>
    ELSE /\ slots[i] # NoFd
         /\ \/ inbox[Peer(slots[i])] # "none"
            \/ Peer(slots[i]) \in closed

PollForEvent ==
    /\ pc = "poll"
    /\ \E i \in Slots : Ready(i)
    /\ revents' = [i \in Slots |-> Ready(i)]
    /\ index' = fdIndex
    /\ pc' = "scan"
    /\ UNCHANGED <<slots, fdIndex, emptyIndex, task, daemonVars, kernelVars>>

\* Mutant: the index does not wrap.
NextSlotNoWrap(i) == i + 1

NextSlot(i) == (i + 1) % SlotCount

\* The loop ends one entry before the one it started from.
StopSlot == (fdIndex + (SlotCount - 1)) % SlotCount

ScanSkip ==
    /\ pc = "scan" /\ index # StopSlot
    /\ ~revents[index]
    /\ index' = NextSlot(index)
    /\ UNCHANGED <<slots, revents, fdIndex, emptyIndex, pc, task, daemonVars,
                   kernelVars>>

\* Mutant: m_FdIndex moves only when a task was found.
ScanEndStays ==
    /\ pc = "scan" /\ index = StopSlot
    /\ pc' = "poll" /\ PassEnds
    /\ UNCHANGED <<slots, fdIndex, task, daemonVars, kernelVars>>

\* No task was found: poll again, from the entry that was left out.
ScanEnd ==
    /\ pc = "scan" /\ index = StopSlot
    /\ fdIndex' = index
    /\ pc' = "poll" /\ PassEnds
    /\ UNCHANGED <<slots, task, daemonVars, kernelVars>>

ScanListener ==
    /\ pc = "scan" /\ index # StopSlot
    /\ revents[index] /\ index = Listener
    /\ pc' = "accept"
    /\ UNCHANGED <<slots, revents, fdIndex, index, emptyIndex, task, daemonVars,
                   kernelVars>>

\* m_FdIndex after a task was found at entry i.
IndexAfterTask(i) == i

\* Mutant: a callback socket stays in the array.
FreesOnDestroy(command) == command = "destroy"

\* CREATE_CALLBACK and DESTROY free the entry; neither closes the descriptor.
FreesEntry(command) == command \in {"create_callback", "destroy"}

\* The entry has a message: GetRequest reads it.
ScanRequest ==
    /\ pc = "scan" /\ index # StopSlot
    /\ revents[index] /\ index # Listener
    /\ LET c == Peer(slots[index])
       IN /\ inbox[c] # "none"
          /\ task' = [fd |-> slots[index], command |-> inbox[c]]
          /\ slots' = IF FreesEntry(inbox[c])
                      THEN [slots EXCEPT ![index] = NoFd] ELSE slots
          /\ inbox' = [inbox EXCEPT ![c] = "none"]
          /\ destroyed' = IF inbox[c] = "destroy" THEN destroyed \cup {c}
                          ELSE destroyed
    /\ fdIndex' = IndexAfterTask(index)
    /\ pc' = "dispatch" /\ PassEnds
    /\ UNCHANGED <<daemonVars, backlog, conn, fdOf, closed, waiting,
                   interrupts>>

\* The peer has gone: GetRequest fails, the descriptor is closed, the entry is
\* freed and the task becomes a DESTROY of that number.
ScanHangup ==
    /\ pc = "scan" /\ index # StopSlot
    /\ revents[index] /\ index # Listener
    /\ LET c == Peer(slots[index])
       IN /\ inbox[c] = "none" /\ c \in closed
          /\ task' = [fd |-> slots[index], command |-> "destroy"]
          /\ fdOf' = [fdOf EXCEPT ![c] = NoFd]
    /\ slots' = [slots EXCEPT ![index] = NoFd]
    /\ fdIndex' = IndexAfterTask(index)
    /\ pc' = "dispatch" /\ PassEnds
    /\ UNCHANGED <<daemonVars, backlog, conn, closed, inbox, waiting, destroyed, interrupts>>

-----------------------------------------------------------------------------
(***************************************************************************)
(* ProcessNewConnections.                                                  *)
(***************************************************************************)

EmptySlots == {i \in Slots \ {Listener} : i >= emptyIndex /\ slots[i] = NoFd}

FirstOf(S) == CHOOSE i \in S : \A j \in S : i <= j

\* accept returns the lowest free descriptor; the connection takes the first
\* free entry and the client gets its "success" response.
AcceptOne ==
    /\ pc = "accept" /\ backlog # <<>> /\ EmptySlots # {}
    /\ LET f == FirstOf(Fds \ OpenFds)
           i == FirstOf(EmptySlots)
       IN /\ slots' = [slots EXCEPT ![i] = f]
          /\ revents' = [revents EXCEPT ![i] = FALSE]
          /\ emptyIndex' = i
          /\ fdOf' = [fdOf EXCEPT ![Head(backlog)] = f]
    /\ conn' = [conn EXCEPT ![Head(backlog)] = "open"]
    /\ backlog' = Tail(backlog)
    /\ UNCHANGED <<fdIndex, index, pc, task, daemonVars, closed, inbox,
                   waiting, destroyed, interrupts>>

\* No entry is free: the connection is closed, and ret still is EINVAL, so that
\* GetTask gives up this scan as if the listener had failed.
AcceptRefuse ==
    /\ pc = "accept" /\ backlog # <<>> /\ EmptySlots = {}
    /\ conn' = [conn EXCEPT ![Head(backlog)] = "refused"]
    /\ backlog' = Tail(backlog)
    /\ pc' = "poll" /\ PassEnds
    /\ UNCHANGED <<slots, fdIndex, task, daemonVars, fdOf, closed, inbox, waiting,
                   destroyed, interrupts>>

\* accept fails with EINTR or ECONNABORTED: continue tests incomingFd, which is
\* -1, and the loop ends with that error, as it does after any other error.
AcceptInterrupted ==
    /\ pc = "accept" /\ interrupts < MaxInterrupts
    /\ interrupts' = interrupts + 1
    /\ pc' = "poll" /\ PassEnds
    /\ UNCHANGED <<slots, fdIndex, task, daemonVars, backlog, conn, fdOf, closed,
                   inbox, waiting, destroyed>>

\* EWOULDBLOCK: every queued connection was taken, and the scan goes on.
AcceptDone ==
    /\ pc = "accept" /\ backlog = <<>>
    /\ index' = NextSlot(index) /\ emptyIndex' = 0
    /\ pc' = "scan"
    /\ UNCHANGED <<slots, revents, fdIndex, task, daemonVars, kernelVars>>

-----------------------------------------------------------------------------
(***************************************************************************)
(* MessageResponseLoop: DispatchCommand and SendResponse.                  *)
(***************************************************************************)

\* Mutant: the exit of an application releases nothing.
ReleasedNothing(f) == users

\* RemoveAppFromPorts(appId): DisablePort drops the reference, unless the port
\* is disconnected, when it returns before that.
Released(f) == IF connected THEN [users EXCEPT ![f] = NoClient] ELSE users

\* PortManagerHandleAppExit(appId).
HandleAppExit(f) ==
    /\ users' = Released(f)
    /\ kept' = IF connected \/ users[f] = NoClient THEN kept \ {f}
               ELSE kept \cup {f}

\* A request of a session: on a connected port it may add the reference of its
\* number or, with level 0, drop it.
DispatchRequest ==
    /\ pc = "dispatch" /\ task.command = "request"
    /\ \/ UNCHANGED <<users, kept>>
       \/ /\ connected
          /\ \E u \in {Peer(task.fd), NoClient} :
                users' = [users EXCEPT ![task.fd] = u]
          /\ kept' = kept \ {task.fd}
    /\ pc' = "respond"
    /\ UNCHANGED <<slots, revents, fdIndex, index, emptyIndex, task,
                   callBackList, connected, kernelVars>>

\* When the response cannot be sent the application is treated as gone, but
\* its entry stays until poll reports the hangup.
SendResponse ==
    /\ pc = "respond"
    /\ LET c == Peer(task.fd)
       IN \/ /\ c \in closed
             /\ HandleAppExit(task.fd)
             /\ UNCHANGED waiting
          \/ /\ c \notin closed
             /\ waiting' = waiting \ {c}
             /\ UNCHANGED <<users, kept>>
    /\ task' = NoTask
    /\ pc' = "poll"
    /\ UNCHANGED <<slots, revents, fdIndex, index, emptyIndex, callBackList,
                   connected, backlog, conn, fdOf, closed, inbox, destroyed, interrupts>>

DispatchDestroy ==
    /\ pc = "dispatch" /\ task.command = "destroy"
    /\ HandleAppExit(task.fd)
    /\ task' = NoTask
    /\ pc' = "poll"
    /\ UNCHANGED <<slots, revents, fdIndex, index, emptyIndex, callBackList,
                   connected, kernelVars>>

DispatchCreateCallBack ==
    /\ pc = "dispatch" /\ task.command = "create_callback"
    /\ callBackList' = callBackList \cup {task.fd}
    /\ task' = NoTask
    /\ pc' = "poll"
    /\ UNCHANGED <<slots, revents, fdIndex, index, emptyIndex, portVars,
                   kernelVars>>

-----------------------------------------------------------------------------
(***************************************************************************)
(* ReportStatus, from the integrity or the uevent thread, in one section   *)
(* of m_CallBackListMutex: a socket whose peer has gone is closed and      *)
(* leaves the list.                                                        *)
(***************************************************************************)

BrokenCallBacks == {f \in callBackList : Peer(f) \in closed}

ReportStatus ==
    /\ BrokenCallBacks # {}
    /\ callBackList' = callBackList \ BrokenCallBacks
    /\ fdOf' = [c \in Clients |->
                  IF fdOf[c] \in BrokenCallBacks THEN NoFd ELSE fdOf[c]]
    /\ UNCHANGED <<scanVars, portVars, backlog, conn, closed, inbox, waiting,
                   destroyed, interrupts>>

\* The uevent thread or an enumeration finds the display plugged in or out.
SetConnection ==
    /\ connected' = ~connected
    /\ UNCHANGED <<scanVars, callBackList, users, kept, kernelVars>>

-----------------------------------------------------------------------------
(***************************************************************************)
(* Specification.                                                          *)
(***************************************************************************)

Client(c) ==
    \/ ClientConnects(c) \/ ClientRequests(c) \/ ClientCreatesCallBack(c)
    \/ ClientDestroys(c) \/ ClientCloses(c)

Main ==
    \/ PollForEvent
    \/ ScanSkip \/ ScanEnd \/ ScanListener \/ ScanRequest \/ ScanHangup
    \/ AcceptOne \/ AcceptRefuse \/ AcceptInterrupted \/ AcceptDone
    \/ DispatchRequest \/ DispatchDestroy \/ DispatchCreateCallBack
    \/ SendResponse

Next == Main \/ ReportStatus \/ SetConnection \/ \E c \in Clients : Client(c)

Spec == Init /\ [][Next]_vars

\* The main thread runs whenever it can.  Clients need do nothing, and no
\* status need ever be reported.
FairSpec == Spec /\ WF_vars(Main)

-----------------------------------------------------------------------------
(***************************************************************************)
(* Properties.                                                             *)
(***************************************************************************)

\* Type invariant: indices stay inside the session array (the "should never
\* happen" test of GetTask) and every other variable is of its kind.
TypeOK ==
    /\ slots \in [Slots -> Fds \cup {NoFd}]
    /\ revents \in [Slots -> BOOLEAN]
    /\ fdIndex \in Slots /\ index \in Slots /\ emptyIndex \in Slots
    /\ pc \in {"poll", "scan", "accept", "dispatch", "respond"}
    /\ task \in [fd : Fds \cup {NoFd}, command : Commands]
    /\ callBackList \subseteq Fds
    /\ users \in [Fds -> Clients \cup {NoClient}]
    /\ connected \in BOOLEAN /\ kept \subseteq Fds
    /\ backlog \in Seq(Clients)
    /\ conn \in [Clients -> {"new", "queued", "open", "refused"}]
    /\ fdOf \in [Clients -> Fds \cup {NoFd}]
    /\ closed \subseteq Clients /\ waiting \subseteq Clients
    /\ inbox \in [Clients -> Commands]
    /\ destroyed \subseteq Clients
    /\ interrupts \in 0 .. MaxInterrupts

\* The descriptor is the task GetTask has just taken out of the array.
InTransit(f) ==
    pc = "dispatch" /\ task.fd = f /\ task.command = "create_callback"

\* Every descriptor the daemon has open is in exactly one place: an entry of the
\* session array, the callback list, or the callback registration under way.
\* None leaks when sessions turn into callbacks or peers go, and none is
\* polled by the main thread while another thread may close it.  The one leak:
\* the descriptor of a client that sent DESTROY itself is in no place, and no
\* thread will ever close it.
DescriptorsAccounted ==
    /\ \A f \in Fds :
        Cardinality({i \in Slots : slots[i] = f})
            + (IF f \in callBackList THEN 1 ELSE 0)
            + (IF InTransit(f) THEN 1 ELSE 0)
          = Cardinality({c \in Clients \ destroyed : fdOf[c] = f})
    /\ \A c, d \in Clients : fdOf[c] = fdOf[d] /\ fdOf[c] # NoFd => c = d

\* A port reference is held under a descriptor number only while that number
\* still is the descriptor of the client that asked for it, or the DESTROY that
\* will release it is being dispatched.  The one exception: the exit of its
\* client was handled while the port was disconnected, and then the next client
\* with that number inherits the reference.
ReferencesFollowClients ==
    \A f \in Fds : users[f] # NoClient =>
        \/ fdOf[users[f]] = f
        \/ pc = "dispatch" /\ task = [fd |-> f, command |-> "destroy"]
        \/ f \in kept

\* In the end the daemon serves requests of d and no other task: the scan
\* starts from the entry served last, and d's is always ready again.
Monopolises(d) ==
    /\ []<>(pc = "respond")
    /\ <>[](pc = "dispatch" => task = [fd |-> fdOf[d], command |-> "request"])

\* A request that was sent is read, although the scan leaves out one entry in
\* each pass and clients send as often as they like: only next to a client
\* whose requests are the only ones the daemon serves may one wait for ever.
RequestAnswered ==
    \A c \in Clients :
        <>[](inbox[c] = "request") => \E d \in Clients \ {c} : Monopolises(d)

\* c has an entry of the array, or a reference that its exit did not leave behind.
Remains(c) ==
    \/ fdOf[c] # NoFd /\ \E i \in Slots : slots[i] = fdOf[c]
    \/ \E f \in Fds \ kept : users[f] = c

\* A hangup is noticed: the entry of a client that closed its session is freed
\* and its references are released, unless one client has the daemon to itself.
HangupNoticed ==
    \A c \in Clients :
        <>[](c \in closed /\ Remains(c)) =>
            \E d \in Clients \ {c} : Monopolises(d)

\* A connection in the backlog is accepted or refused, with the same exception.
ConnectAnswered ==
    \A c \in Clients :
        <>[](conn[c] = "queued") => \E d \in Clients \ {c} : Monopolises(d)

=============================================================================

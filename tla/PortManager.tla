----------------------------- MODULE PortManager -----------------------------
(***************************************************************************)
(* The port manager of the HDCP daemon (daemon/portmanager.cpp, port.cpp)  *)
(* with the parts of daemon.cpp that call it or that it calls.             *)
(*                                                                         *)
(* Three threads share the list of ports:                                  *)
(*   main       the request loop: EnablePort, DisablePort, EnumeratePorts, *)
(*              RemoveAppFromPorts and the registration of callbacks;      *)
(*   integrity  CheckIntegrity every 500 ms;                               *)
(*   uevent     ProcessHotPlug for every hotplug uevent.                   *)
(* Each port has one mutex for its cached connection, one for its cached   *)
(* content type; the daemon has one for the list of callback sockets.  A   *)
(* step of a thread is a stretch of code between two lock operations, DRM  *)
(* calls or unlocked reads of a field that another thread writes.          *)
(*                                                                         *)
(* The kernel (external) is the state behind the DRM calls: the connector  *)
(* status and the "Content Protection" and "HDCP Content Type" properties. *)
(***************************************************************************)
EXTENDS Integers, FiniteSets

CONSTANTS
    NumPorts,       \* connectors with a protection property, in list order
    Apps,           \* applications: one SDK process each; the descriptors of
                    \* its session and of its callback socket count as one id
    Type1Ports,     \* the ports that have the "HDCP Content Type" property
    Connectors,     \* connector states the kernel reports
    MaxFaults,      \* bound: failing DRM calls in a behaviour
    MaxEvents       \* bound: plug changes and link losses in a behaviour

Ports == 0 .. NumPorts - 1

ASSUME NumPortsAssumption == NumPorts \in Nat \ {0}
ASSUME Type1Assumption == Type1Ports \subseteq Ports
ASSUME ConnectorsAssumption ==
    Connectors \subseteq {"connected", "disconnected", "unknown"}
ASSUME BoundsAssumption == MaxFaults \in Nat /\ MaxEvents \in Nat

\* KMD values of "Content Protection" and "HDCP Content Type" (portmanager.h).
CP_OFF == 0
CP_DESIRED == 1
CP_ENABLED == 2
CP_TYPE_0 == 0
CP_TYPE_1 == 1
CP_TYPE_INVALID == 255

\* Protection levels a client may ask for; 3 stands for any unsupported one.
Levels == 0 .. 3

\* The application id before GetTask returns one.
NoApp == -1

\* What m_Connection holds before the first EnumeratePorts or hotplug pass.
Unset == "unset"

Free == "free"
Threads == {"main", "integrity", "uevent"}

VARIABLES
    connection,     \* DrmObject::m_Connection, per port
    cpType,         \* DrmObject::m_CpType, per port
    appIds,         \* DrmObject::m_AppIds, per port (the list has no duplicates)
    connMutex,      \* m_ConnectionMutex: its owner, per port
    cpTypeMutex,    \* m_CpTypeMutex: its owner, per port
    callbacks,      \* HdcpDaemon::m_CallBackList, by application
    callBackMutex   \* m_CallBackListMutex: its owner

VARIABLES
    mpc, mapp, mport, mlevel, mret,     \* main: request being served
    caller,     \* main: who called DisablePort, the loop or RemoveAppFromPorts
    ipc, iport,                         \* integrity thread
    upc, uport, uconn                   \* uevent thread and its connector

VARIABLES
    kConn, kValue, kType,   \* kernel: connector state, protection, type
    uevents,                \* kernel: hotplug uevents not yet received
    master,                 \* DRM master: "dropped", "kept", "dropFailed"
    faults, kEvents         \* bounded counters

portVars == <<connection, cpType, appIds>>
mutexVars == <<connMutex, cpTypeMutex, callBackMutex>>
mainVars == <<mpc, mapp, mport, mlevel, mret, caller>>
integrityVars == <<ipc, iport>>
ueventVars == <<upc, uport, uconn>>
kernelVars == <<kConn, kValue, kType, uevents, master>>
boundVars == <<faults, kEvents>>

vars == <<portVars, mutexVars, callbacks, mainVars, integrityVars, ueventVars,
          kernelVars, boundVars>>

Returns == {"SUCCESS", "ENOENT", "EINVAL", "EBUSY", "INVALID_PARAMETER"}

MainPcs == {"idle", "enable", "cached", "hit", "setType", "setDesired",
            "enableLock", "enableCheck", "disable", "setOff", "disableLock",
            "disableCheck", "enumLock", "enumRead", "cbLock", "cbAdd",
            "respond"}
IntegrityPcs == {"sleep", "lock", "check", "report", "send", "commit"}
UEventPcs == {"recv", "lock", "check", "report", "send", "commit"}

TypeOK ==
    /\ connection \in [Ports -> Connectors \cup {Unset}]
    /\ cpType \in [Ports -> {CP_TYPE_0, CP_TYPE_1, CP_TYPE_INVALID}]
    /\ appIds \in [Ports -> SUBSET Apps]
    /\ connMutex \in [Ports -> Threads \cup {Free}]
    /\ cpTypeMutex \in [Ports -> Threads \cup {Free}]
    /\ callbacks \in SUBSET Apps
    /\ callBackMutex \in Threads \cup {Free}
    /\ mpc \in MainPcs
    /\ mapp \in Apps \cup {NoApp} /\ mport \in 0 .. NumPorts /\ mlevel \in Levels
    /\ mret \in Returns /\ caller \in {"loop", "exit"}
    /\ ipc \in IntegrityPcs /\ iport \in Ports
    /\ upc \in UEventPcs /\ uport \in Ports
    /\ uconn \in Connectors \cup {Unset}
    /\ kConn \in [Ports -> Connectors]
    /\ kValue \in [Ports -> {CP_OFF, CP_DESIRED, CP_ENABLED}]
    /\ kType \in [Ports -> {CP_TYPE_0, CP_TYPE_1}]
    /\ uevents \in Nat
    /\ master \in {"dropped", "kept", "dropFailed"}
    /\ faults \in Nat /\ kEvents \in Nat

(***************************************************************************)
(* The daemon starts with nothing cached.  The kernel may still protect    *)
(* ports for an earlier instance of the daemon.                            *)
(***************************************************************************)
Init ==
    /\ connection = [p \in Ports |-> Unset]
    /\ cpType = [p \in Ports |-> CP_TYPE_INVALID]
    /\ appIds = [p \in Ports |-> {}]
    /\ connMutex = [p \in Ports |-> Free]
    /\ cpTypeMutex = [p \in Ports |-> Free]
    /\ callbacks = {} /\ callBackMutex = Free
    /\ mpc = "idle" /\ mapp = NoApp /\ mport = 0 /\ mlevel = 0
    /\ mret = "SUCCESS" /\ caller = "loop"
    /\ ipc = "sleep" /\ iport = 0
    /\ upc = "recv" /\ uport = 0 /\ uconn = Unset
    /\ kConn \in [Ports -> Connectors]
    /\ kValue \in [Ports -> {CP_OFF, CP_DESIRED, CP_ENABLED}]
    /\ kType \in [Ports -> {CP_TYPE_0, CP_TYPE_1}]
    /\ \A p \in Ports \ Type1Ports : kType[p] = CP_TYPE_0
    /\ uevents = 0 /\ master = "dropped" /\ faults = 0 /\ kEvents = 0

-----------------------------------------------------------------------------
(***************************************************************************)
(* Locks and cached fields                                                 *)
(***************************************************************************)

\* pthread_mutex_lock on a mutex with the given owner returns.
CanLock(owner) == owner = Free

\* Mutant: the cached type is not reset.
TypeNotCleared(p) == cpType

\* SetCpType(CP_TYPE_INVALID) on port p.
TypeCleared(p) == [cpType EXCEPT ![p] = CP_TYPE_INVALID]

\* Mutant: any enabled port serves any level.
EnabledAtAnyLevel(p, l) == cpType[p] # CP_TYPE_INVALID

\* Mutant: only the very type serves a level, so level 1 rewrites a type 1 port.
EnabledAtSameLevel(p, l) == cpType[p] # CP_TYPE_INVALID /\ l - 1 = cpType[p]

\* EnablePort: the port is protected at level l already.  Type 0 or 1 serves
\* level 1, only type 1 serves level 2.
AlreadyEnabled(p, l) == cpType[p] # CP_TYPE_INVALID /\ l - 1 <= cpType[p]

\* Mutant: off by one.
UsedByTwo(ids) == Cardinality(ids) > 1

\* DisablePort: GetRefAppCount() >= 1 after the caller's reference is removed.
StillUsed(ids) == ids # {}

-----------------------------------------------------------------------------
(***************************************************************************)
(* DRM calls                                                               *)
(***************************************************************************)

\* A DRM call fails (a property write: every time it is retried).
Fault == faults < MaxFaults /\ faults' = faults + 1

\* The result of GetProtectionInfo on a port whose protection is enabled: the
\* kernel's type, or TYPE_0 when the connector has no type property.
EnabledType(p) == IF p \in Type1Ports THEN kType[p] ELSE CP_TYPE_0

\* SetPortProperty on port p, the kernel's properties becoming value and type:
\* take DRM master, write (at most AUTH_NUM_RETRY times), drop master.  The
\* error paths leave the caller with EBUSY: no master; the last write failed,
\* and the function returns without dropping master; master could not be
\* dropped, although the write took effect.
SetPortOk(p, value, type) ==
    /\ kValue' = [kValue EXCEPT ![p] = value]
    /\ kType' = [kType EXCEPT ![p] = type]
    /\ master' = "dropped"
    /\ UNCHANGED faults

SetPortError(p, value, type) ==
    \/ /\ master = "dropped" /\ Fault
       /\ UNCHANGED <<kValue, kType, master>>
    \/ /\ Fault
       /\ master' = "kept"
       /\ UNCHANGED <<kValue, kType>>
    \/ /\ Fault
       /\ master' = "dropFailed"
       /\ kValue' = [kValue EXCEPT ![p] = value]
       /\ kType' = [kType EXCEPT ![p] = type]

-----------------------------------------------------------------------------
(***************************************************************************)
(* main: MessageResponseLoop and DispatchCommand                           *)
(***************************************************************************)

\* A request of application a for port p arrives.
Request(a, p, l, pc) ==
    /\ mpc = "idle"
    /\ mapp' = a /\ mport' = p /\ mlevel' = l /\ mpc' = pc
    /\ UNCHANGED <<portVars, mutexVars, callbacks, integrityVars, ueventVars,
                   kernelVars, boundVars>>

\* SetProtectionLevel; port id NumPorts is one the daemon does not know.
SetProtectionLevel(a, p, l) ==
    CASE l = 0 -> /\ Request(a, p, l, "disable")
                  /\ mret' = mret /\ caller' = "loop"
      [] l \in 1 .. 2 -> /\ Request(a, p, l, "enable")
                         /\ mret' = mret /\ caller' = "loop"
      [] OTHER -> /\ Request(a, p, l, "respond")
                  /\ mret' = "INVALID_PARAMETER" /\ caller' = "loop"

EnumerateRequest(a) ==
    /\ Request(a, 0, 0, "enumLock")
    /\ UNCHANGED <<mret, caller>>

CreateCallback(a) ==
    /\ Request(a, 0, 0, "cbLock")
    /\ UNCHANGED <<mret, caller>>

\* HDCP_API_DESTROY, from the client or because its connection broke:
\* PortManagerHandleAppExit calls RemoveAppFromPorts, no response follows.
HandleAppExit(a) ==
    /\ Request(a, 0, 0, "disable")
    /\ caller' = "exit"
    /\ UNCHANGED mret

\* Back to GetTask: the request's SocketData goes out of scope.
NextRequest ==
    /\ mpc' = "idle" /\ mapp' = NoApp /\ mport' = 0 /\ mlevel' = 0
    /\ mret' = "SUCCESS" /\ caller' = "loop"

\* Mutant: RemoveAppFromPorts starts over at the end of the list.
ReturnWraps(ret) ==
    IF caller = "exit"
    THEN /\ mpc' = "disable" /\ mport' = (mport + 1) % NumPorts
         /\ UNCHANGED <<mapp, mlevel, mret, caller>>
    ELSE /\ mpc' = "respond" /\ mret' = ret
         /\ UNCHANGED <<mapp, mport, mlevel, caller>>

\* A function returns: into the loop of RemoveAppFromPorts, which ignores the
\* result, or to the request loop, which sends the response.
Return(ret) ==
    IF caller = "exit"
    THEN IF mport + 1 < NumPorts
         THEN /\ mpc' = "disable" /\ mport' = mport + 1
              /\ UNCHANGED <<mapp, mlevel, mret, caller>>
         ELSE NextRequest
    ELSE /\ mpc' = "respond" /\ mret' = ret
         /\ UNCHANGED <<mapp, mport, mlevel, caller>>

Goto(pc) ==
    /\ mpc' = pc
    /\ UNCHANGED <<mapp, mport, mlevel, mret, caller>>

\* SendResponse; when it fails the daemon treats the application as gone.
Respond ==
    /\ mpc = "respond"
    /\ \/ NextRequest
       \/ /\ mpc' = "disable" /\ mport' = 0 /\ caller' = "exit"
          /\ mlevel' = 0 /\ mret' = "SUCCESS"
          /\ UNCHANGED mapp
    /\ UNCHANGED <<portVars, mutexVars, callbacks, integrityVars, ueventVars,
                   kernelVars, boundVars>>

\* CREATE_CALLBACK: replace the application's entry in m_CallBackList.
CallBackLock ==
    /\ mpc = "cbLock" /\ CanLock(callBackMutex)
    /\ callBackMutex' = "main"
    /\ Goto("cbAdd")
    /\ UNCHANGED <<portVars, connMutex, cpTypeMutex, callbacks, integrityVars,
                   ueventVars, kernelVars, boundVars>>

CallBackAdd ==
    /\ mpc = "cbAdd"
    /\ callbacks' = callbacks \cup {mapp}
    /\ callBackMutex' = Free
    /\ NextRequest
    /\ UNCHANGED <<portVars, connMutex, cpTypeMutex, integrityVars, ueventVars,
                   kernelVars, boundVars>>

-----------------------------------------------------------------------------
(***************************************************************************)
(* main: EnablePort                                                        *)
(***************************************************************************)
EnableUnchanged == UNCHANGED <<connection, connMutex, callBackMutex, callbacks,
    integrityVars, ueventVars, kConn, uevents, kEvents>>

\* Entry: an unknown or disconnected port, or a level the port cannot have.
EnableEntry ==
    /\ mpc = "enable"
    /\ IF mport = NumPorts THEN Return("ENOENT")
       ELSE IF connection[mport] = "disconnected" THEN Return("ENOENT")
       ELSE IF mport \notin Type1Ports /\ mlevel = 2 THEN Return("EINVAL")
       ELSE Goto("cached")
    /\ EnableUnchanged
    /\ UNCHANGED <<cpType, appIds, cpTypeMutex, kValue, kType, master, faults>>

\* The unlocked read of m_CpType: is the port enabled at that level already?
EnableCached ==
    /\ mpc = "cached"
    /\ Goto(IF AlreadyEnabled(mport, mlevel)
            THEN "hit"
            ELSE IF mport \in Type1Ports THEN "setType" ELSE "setDesired")
    /\ EnableUnchanged
    /\ UNCHANGED <<cpType, appIds, cpTypeMutex, kValue, kType, master, faults>>

\* It is: count the application in and succeed.
EnableHit ==
    /\ mpc = "hit"
    /\ appIds' = [appIds EXCEPT ![mport] = @ \cup {mapp}]
    /\ Return("SUCCESS")
    /\ EnableUnchanged
    /\ UNCHANGED <<cpType, cpTypeMutex, kValue, kType, master, faults>>

\* Set the content type, which is the level less one.
EnableSetType ==
    /\ mpc = "setType"
    /\ \/ /\ SetPortOk(mport, kValue[mport], mlevel - 1)
          /\ Goto("setDesired")
       \/ /\ SetPortError(mport, kValue[mport], mlevel - 1)
          /\ Return("EBUSY")
    /\ EnableUnchanged
    /\ UNCHANGED <<cpType, appIds, cpTypeMutex>>

\* Ask for protection; the wait of AUTH_CHECK_DELAY_MS follows.
EnableSetDesired ==
    /\ mpc = "setDesired"
    /\ \/ /\ SetPortOk(mport, CP_DESIRED, kType[mport])
          /\ Goto("enableLock")
       \/ /\ SetPortError(mport, CP_DESIRED, kType[mport])
          /\ Return("EBUSY")
    /\ EnableUnchanged
    /\ UNCHANGED <<cpType, appIds, cpTypeMutex>>

EnableLock ==
    /\ mpc = "enableLock" /\ CanLock(cpTypeMutex[mport])
    /\ cpTypeMutex' = [cpTypeMutex EXCEPT ![mport] = "main"]
    /\ Goto("enableCheck")
    /\ EnableUnchanged
    /\ UNCHANGED <<cpType, appIds, kValue, kType, master, faults>>

\* Read the properties back; only CP_ENABLED is a success.
EnableCheck ==
    /\ mpc = "enableCheck"
    /\ cpTypeMutex' = [cpTypeMutex EXCEPT ![mport] = Free]
    /\ \/ /\ kValue[mport] = CP_ENABLED
          /\ cpType' = [cpType EXCEPT ![mport] = EnabledType(mport)]
          /\ appIds' = [appIds EXCEPT ![mport] = @ \cup {mapp}]
          /\ UNCHANGED faults
          /\ Return("SUCCESS")
       \/ /\ \/ kValue[mport] # CP_ENABLED /\ UNCHANGED faults
             \/ Fault
          /\ UNCHANGED <<cpType, appIds>>
          /\ Return("EBUSY")
    /\ EnableUnchanged
    /\ UNCHANGED <<kValue, kType, master>>

-----------------------------------------------------------------------------
(***************************************************************************)
(* main: DisablePort                                                       *)
(***************************************************************************)

\* Entry: a disconnected port is left as it is, reference included; a port
\* that other applications use only loses the caller's reference.
DisableEntry ==
    /\ mpc = "disable"
    /\ IF mport = NumPorts
       THEN UNCHANGED appIds /\ Return("SUCCESS")
       ELSE IF connection[mport] = "disconnected"
       THEN UNCHANGED appIds /\ Return("SUCCESS")
       ELSE /\ appIds' = [appIds EXCEPT ![mport] = @ \ {mapp}]
            /\ IF StillUsed(appIds'[mport])
               THEN Return("SUCCESS") ELSE Goto("setOff")
    /\ EnableUnchanged
    /\ UNCHANGED <<cpType, cpTypeMutex, kValue, kType, master, faults>>

\* The write of CP_OFF, tried once and not under the port's mutex.
DisableSetOff ==
    /\ mpc = "setOff"
    /\ \/ /\ SetPortOk(mport, CP_OFF, kType[mport])
          /\ Goto("disableLock")
       \/ /\ SetPortError(mport, CP_OFF, kType[mport])
          /\ Return("EBUSY")
    /\ EnableUnchanged
    /\ UNCHANGED <<cpType, appIds, cpTypeMutex>>

DisableLock ==
    /\ mpc = "disableLock" /\ CanLock(cpTypeMutex[mport])
    /\ cpTypeMutex' = [cpTypeMutex EXCEPT ![mport] = "main"]
    /\ Goto("disableCheck")
    /\ EnableUnchanged
    /\ UNCHANGED <<cpType, appIds, kValue, kType, master, faults>>

\* Read the property back; only CP_OFF clears the cached type.
DisableCheck ==
    /\ mpc = "disableCheck"
    /\ cpTypeMutex' = [cpTypeMutex EXCEPT ![mport] = Free]
    /\ \/ /\ kValue[mport] = CP_OFF
          /\ cpType' = TypeCleared(mport)
          /\ UNCHANGED faults
          /\ Return("SUCCESS")
       \/ /\ \/ kValue[mport] # CP_OFF /\ UNCHANGED faults
             \/ Fault
          /\ UNCHANGED cpType
          /\ Return("EBUSY")
    /\ EnableUnchanged
    /\ UNCHANGED <<appIds, kValue, kType, master>>

-----------------------------------------------------------------------------
(***************************************************************************)
(* main: EnumeratePorts                                                    *)
(***************************************************************************)
EnumerateUnchanged == UNCHANGED <<cpType, appIds, cpTypeMutex, callBackMutex,
    callbacks, integrityVars, ueventVars, kernelVars, kEvents>>

EnumerateLock ==
    /\ mpc = "enumLock" /\ CanLock(connMutex[mport])
    /\ connMutex' = [connMutex EXCEPT ![mport] = "main"]
    /\ Goto("enumRead")
    /\ EnumerateUnchanged
    /\ UNCHANGED <<connection, faults>>

\* Cache what the kernel says of the connector; the first failure ends it.
EnumerateRead ==
    /\ mpc = "enumRead"
    /\ connMutex' = [connMutex EXCEPT ![mport] = Free]
    /\ \/ /\ connection' = [connection EXCEPT ![mport] = kConn[mport]]
          /\ UNCHANGED faults
          /\ IF mport + 1 < NumPorts
             THEN /\ mpc' = "enumLock" /\ mport' = mport + 1
                  /\ UNCHANGED <<mapp, mlevel, mret, caller>>
             ELSE Return("SUCCESS")
       \/ /\ Fault
          /\ UNCHANGED connection
          /\ Return("ENOENT")
    /\ EnumerateUnchanged

-----------------------------------------------------------------------------
(***************************************************************************)
(* HdcpDaemon::ReportStatus, on the integrity and the uevent thread        *)
(***************************************************************************)

\* Send an event to every callback socket; the sockets in gone have failed and
\* are closed and erased.
SendToAll(gone) ==
    /\ callBackMutex' = Free
    /\ callbacks' = callbacks \ gone

-----------------------------------------------------------------------------
(***************************************************************************)
(* integrity: CheckIntegrity                                               *)
(***************************************************************************)
IntegrityUnchanged == UNCHANGED <<connection, appIds, connMutex, mainVars,
    ueventVars, kernelVars, kEvents>>

\* Mutant: one port too far.
IntegrityOnePortTooFar ==
    IF iport + 1 <= NumPorts
    THEN ipc' = "lock" /\ iport' = iport + 1
    ELSE ipc' = "sleep" /\ iport' = 0

\* On to the next port of the list, or to sleep.
IntegrityNextPort ==
    IF iport + 1 < NumPorts
    THEN ipc' = "lock" /\ iport' = iport + 1
    ELSE ipc' = "sleep" /\ iport' = 0

\* Leave a port whose link is not lost, or could not be checked.
IntegritySkip ==
    /\ cpTypeMutex' = [cpTypeMutex EXCEPT ![iport] = Free]
    /\ IntegrityNextPort

IntegrityWake ==
    /\ ipc = "sleep"
    /\ ipc' = "lock"
    /\ IntegrityUnchanged
    /\ UNCHANGED <<iport, cpType, cpTypeMutex, callBackMutex, callbacks,
                   faults>>

IntegrityLock ==
    /\ ipc = "lock" /\ CanLock(cpTypeMutex[iport])
    /\ cpTypeMutex' = [cpTypeMutex EXCEPT ![iport] = "integrity"]
    /\ ipc' = "check"
    /\ IntegrityUnchanged
    /\ UNCHANGED <<iport, cpType, callBackMutex, callbacks, faults>>

\* An enabled port whose protection is no longer CP_ENABLED has lost its link.
IntegrityCheck ==
    /\ ipc = "check"
    /\ \/ /\ cpType[iport] # CP_TYPE_INVALID /\ kValue[iport] # CP_ENABLED
          /\ ipc' = "report"
          /\ UNCHANGED <<iport, cpTypeMutex, faults>>
       \/ /\ \/ /\ cpType[iport] = CP_TYPE_INVALID \/ kValue[iport] = CP_ENABLED
                /\ UNCHANGED faults
             \/ cpType[iport] # CP_TYPE_INVALID /\ Fault
          /\ IntegritySkip
    /\ IntegrityUnchanged
    /\ UNCHANGED <<cpType, callBackMutex, callbacks>>

IntegrityReportLock ==
    /\ ipc = "report" /\ CanLock(callBackMutex)
    /\ callBackMutex' = "integrity"
    /\ ipc' = "send"
    /\ IntegrityUnchanged
    /\ UNCHANGED <<iport, cpType, cpTypeMutex, callbacks, faults>>

\* LINK_LOST reaches the registered applications.
IntegritySend(gone) ==
    /\ ipc = "send"
    /\ SendToAll(gone)
    /\ ipc' = "commit"
    /\ IntegrityUnchanged
    /\ UNCHANGED <<iport, cpType, cpTypeMutex, faults>>

IntegrityCommit ==
    /\ ipc = "commit"
    /\ cpType' = TypeCleared(iport)
    /\ cpTypeMutex' = [cpTypeMutex EXCEPT ![iport] = Free]
    /\ IntegrityNextPort
    /\ IntegrityUnchanged
    /\ UNCHANGED <<callBackMutex, callbacks, faults>>

-----------------------------------------------------------------------------
(***************************************************************************)
(* uevent: InitUEventHandler and ProcessHotPlug                            *)
(***************************************************************************)
UEventUnchanged == UNCHANGED <<cpType, appIds, cpTypeMutex, mainVars,
    integrityVars, kConn, kValue, kType, master, kEvents>>

UEventNextPort ==
    IF uport + 1 < NumPorts
    THEN upc' = "lock" /\ uport' = uport + 1
    ELSE upc' = "recv" /\ uport' = 0

\* A hotplug uevent is received.
UEventReceive ==
    /\ upc = "recv" /\ uevents > 0
    /\ uevents' = uevents - 1
    /\ upc' = "lock"
    /\ UEventUnchanged
    /\ UNCHANGED <<connection, connMutex, callBackMutex, callbacks, uport,
                   uconn, faults>>

UEventLock ==
    /\ upc = "lock" /\ CanLock(connMutex[uport])
    /\ connMutex' = [connMutex EXCEPT ![uport] = "uevent"]
    /\ upc' = "check"
    /\ UEventUnchanged
    /\ UNCHANGED <<connection, callBackMutex, callbacks, uport, uconn, uevents,
                   faults>>

\* Compare the connector with the cached connection.
UEventCheck ==
    /\ upc = "check"
    /\ \/ /\ kConn[uport] # connection[uport]
          /\ uconn' = kConn[uport]
          /\ upc' = IF kConn[uport] = "unknown" THEN "commit" ELSE "report"
          /\ UNCHANGED <<uport, connMutex, faults>>
       \/ /\ \/ kConn[uport] = connection[uport] /\ UNCHANGED faults
             \/ Fault
          /\ connMutex' = [connMutex EXCEPT ![uport] = Free]
          /\ UNCHANGED uconn
          /\ UEventNextPort
    /\ UEventUnchanged
    /\ UNCHANGED <<connection, callBackMutex, callbacks, uevents>>

UEventReportLock ==
    /\ upc = "report" /\ CanLock(callBackMutex)
    /\ callBackMutex' = "uevent"
    /\ upc' = "send"
    /\ UEventUnchanged
    /\ UNCHANGED <<connection, connMutex, callbacks, uport, uconn, uevents,
                   faults>>

UEventSend(gone) ==
    /\ upc = "send"
    /\ SendToAll(gone)
    /\ upc' = "commit"
    /\ UEventUnchanged
    /\ UNCHANGED <<connection, connMutex, uport, uconn, uevents, faults>>

\* Mutant: the event is reported and the connection is not cached.
UEventCommitNothing ==
    /\ upc = "commit"
    /\ connMutex' = [connMutex EXCEPT ![uport] = Free]
    /\ uconn' = Unset
    /\ UEventNextPort
    /\ UEventUnchanged
    /\ UNCHANGED <<connection, callBackMutex, callbacks, uevents, faults>>

UEventCommit ==
    /\ upc = "commit"
    /\ connection' = [connection EXCEPT ![uport] = uconn]
    /\ connMutex' = [connMutex EXCEPT ![uport] = Free]
    /\ uconn' = Unset
    /\ UEventNextPort
    /\ UEventUnchanged
    /\ UNCHANGED <<callBackMutex, callbacks, uevents, faults>>

-----------------------------------------------------------------------------
(***************************************************************************)
(* The kernel (external)                                                   *)
(***************************************************************************)
KernelUnchanged == UNCHANGED <<portVars, mutexVars, callbacks, mainVars,
    integrityVars, ueventVars, kType, master, faults>>

\* Authentication with the display completes.
KernelAuthenticate(p) ==
    /\ kValue[p] = CP_DESIRED /\ kConn[p] # "disconnected"
    /\ kValue' = [kValue EXCEPT ![p] = CP_ENABLED]
    /\ KernelUnchanged
    /\ UNCHANGED <<kConn, uevents, kEvents>>

\* A link check fails: the kernel goes back to desired.
KernelLinkLoss(p) ==
    /\ kValue[p] = CP_ENABLED /\ kEvents < MaxEvents
    /\ kValue' = [kValue EXCEPT ![p] = CP_DESIRED]
    /\ kEvents' = kEvents + 1
    /\ KernelUnchanged
    /\ UNCHANGED <<kConn, uevents>>

\* A display is plugged in or out; the link of an unplugged one is lost.
KernelPlug(p, c) ==
    /\ kConn[p] # c /\ kEvents < MaxEvents
    /\ kConn' = [kConn EXCEPT ![p] = c]
    /\ kValue' = [kValue EXCEPT ![p] =
           IF c = "disconnected" /\ @ = CP_ENABLED THEN CP_DESIRED ELSE @]
    /\ uevents' = uevents + 1
    /\ kEvents' = kEvents + 1
    /\ KernelUnchanged

-----------------------------------------------------------------------------
Requests ==
    \E a \in Apps :
        \/ \E p \in 0 .. NumPorts, l \in Levels : SetProtectionLevel(a, p, l)
        \/ EnumerateRequest(a)
        \/ CreateCallback(a)
        \/ HandleAppExit(a)

\* The steps with which main finishes the request it serves.
Main ==
    \/ Respond \/ CallBackAdd
    \/ EnableEntry \/ EnableCached \/ EnableHit \/ EnableSetType
    \/ EnableSetDesired \/ EnableCheck
    \/ DisableEntry \/ DisableSetOff \/ DisableCheck
    \/ EnumerateRead

MainLock == CallBackLock \/ EnableLock \/ DisableLock \/ EnumerateLock

Integrity ==
    \/ IntegrityWake \/ IntegrityCheck \/ IntegrityCommit
    \/ \E gone \in SUBSET callbacks : IntegritySend(gone)

UEvent ==
    \/ UEventReceive \/ UEventCheck \/ UEventCommit
    \/ \E gone \in SUBSET callbacks : UEventSend(gone)

Kernel ==
    \E p \in Ports :
        \/ KernelAuthenticate(p)
        \/ KernelLinkLoss(p)
        \/ \E c \in Connectors : KernelPlug(p, c)

Next ==
    \/ Requests \/ Main \/ MainLock
    \/ Integrity \/ IntegrityLock \/ IntegrityReportLock
    \/ UEvent \/ UEventLock \/ UEventReportLock
    \/ Kernel

Spec == Init /\ [][Next]_vars

(***************************************************************************)
(* The threads keep running, and a thread that waits for a mutex that is   *)
(* released again and again gets it in the end: every holder releases it   *)
(* after a bounded number of steps, and the other users of a port's mutex  *)
(* sleep between two uses (500 ms, 1 s) or wait for a request or a uevent. *)
(* Nothing is assumed of the applications or of the kernel.                *)
(***************************************************************************)
Fairness ==
    /\ WF_vars(Main) /\ SF_vars(MainLock)
    /\ WF_vars(Integrity) /\ SF_vars(IntegrityLock)
    /\ SF_vars(IntegrityReportLock)
    /\ WF_vars(UEvent) /\ SF_vars(UEventLock) /\ SF_vars(UEventReportLock)

FairSpec == Spec /\ Fairness

-----------------------------------------------------------------------------
(***************************************************************************)
(* Properties                                                              *)
(***************************************************************************)

\* A port cached as type 1 is type 1 in the kernel.  EnablePort decides from
\* the cache, read without the mutex while the integrity thread may clear it,
\* whether to rewrite the kernel's content type; the cache must never promise
\* more than the kernel was asked for.
CachedTypeNotOverstated ==
    \A p \in Ports : cpType[p] = CP_TYPE_1 => kType[p] = CP_TYPE_1

\* EnablePort never reports success at a level above the kernel's content type,
\* on the cached path (a stale read) as on the path that authenticates.
LevelHonoured ==
    [][/\ mpc \in {"hit", "enableCheck"}
       /\ mpc' = "respond" /\ mret' = "SUCCESS"
       => mlevel - 1 <= kType[mport]]_vars

\* The daemon never switches protection off under an application: the kernel
\* value becomes CP_OFF only while no application is counted on the port.
OffOnlyWhenUnused ==
    [][\A p \in Ports :
          kValue[p] # CP_OFF /\ kValue'[p] = CP_OFF => appIds[p] = {}]_vars

\* A port that the daemon takes to be protected has a user, or is being
\* disabled, unless a DRM call failed: DisablePort removes the reference
\* before it switches off, and a failure leaves the port on without an owner.
OwnedUnlessFaulted ==
    \A p \in Ports : cpType[p] # CP_TYPE_INVALID /\ appIds[p] = {} =>
        \/ mport = p /\ mpc \in {"setOff", "disableLock", "disableCheck"}
        \/ faults > 0

\* The integrity thread reports LINK_LOST for a port that the daemon has switched
\* off itself only while the DisablePort that did so waits for the port's mutex,
\* and then no application is counted on the port any more; unless a DRM call
\* failed.
SwitchOffReportedUnused ==
    ipc = "send" /\ kValue[iport] = CP_OFF =>
        \/ mport = iport /\ mpc = "disableLock" /\ appIds[iport] = {}
        \/ faults > 0

\* Every request is served to its end: no mutex is held forever and no two
\* threads wait for each other.
RequestServed == mpc # "idle" ~> mpc = "idle"

\* A port that lost its protection does not stay cached as protected: the
\* integrity thread notices, whatever the other threads do (README.md,
\* step 4).
LossNoticed ==
    \A p \in Ports :
        cpType[p] # CP_TYPE_INVALID /\ kValue[p] # CP_ENABLED
            ~> cpType[p] = CP_TYPE_INVALID \/ kValue[p] = CP_ENABLED

\* Once the kernel stops changing and no connector query fails, the cached
\* connection of a port follows every plug change.
PlugNoticed ==
    \A p \in Ports :
        connection[p] # Unset /\ connection[p] # kConn[p]
            ~> connection[p] = kConn[p] \/ faults > 0

=============================================================================

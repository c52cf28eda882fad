----------------------- MODULE PortManagerSignalProofs -----------------------
(***************************************************************************)
(* OffAtExit for any number of ports: the loop of DisableAllPorts leaves   *)
(* the ports behind it off, because main is stopped and the kernel never   *)
(* leaves CP_OFF by itself.                                                *)
(***************************************************************************)
EXTENDS PortManagerSignal, PortManagerProofs

\* The handler is through with port q.
Passed(q) == \/ q < hport
             \/ q = hport /\ hpc \in {"lock", "check", "exited"}

HandlerInv ==
    /\ hpc \in HandlerPcs /\ hport \in Ports
    /\ hpc = "exited" => hport = NumPorts - 1
    /\ hpc # "none" /\ faults = 0 =>
          \A q \in Ports : Passed(q) => kValue[q] = CP_OFF \/ q \in skipped
    /\ hpc = "none" => hport = 0

SignalInv == TypeInv /\ HandlerInv

\* The handler is not running when the daemon starts.
LEMMA SignalInvInit == SignalInit => SignalInv
<1> SUFFICES ASSUME SignalInit PROVE SignalInv
  OBVIOUS
<1>1. TypeInv
  BY TypeInit DEF SignalInit
<1>2. HandlerInv
  BY NumPortsAssumption DEF SignalInit, HandlerInv, HandlerPcs, Ports
<1> QED BY <1>1, <1>2 DEF SignalInv

\* The steps of the threads: types as in PortManager; the integrity and the
\* uevent thread do not write the property, and the kernel never leaves CP_OFF.
LEMMA ThreadsStep ==
    ASSUME SignalInv, Next, UNCHANGED handlerVars,
           hpc # "none" => Integrity \/ IntegrityLock \/ IntegrityReportLock
                           \/ UEvent \/ UEventLock \/ UEventReportLock \/ Kernel
    PROVE  SignalInv'
<1>1. TypeInv'
  BY TypeStep DEF SignalInv
<1>2. HandlerInv'
  <2>1. hpc' = hpc /\ hport' = hport /\ skipped' = skipped
    BY DEF handlerVars
  <2>2. ASSUME hpc # "none", faults' = 0, NEW q \in Ports, kValue[q] = CP_OFF
        PROVE  kValue'[q] = CP_OFF
    <3>1. CASE Integrity \/ IntegrityLock \/ IntegrityReportLock
      BY <2>2, <3>1 DEF Integrity, IntegrityWake, IntegrityCheck, IntegrityCommit,
         IntegritySend, IntegrityLock, IntegrityReportLock, IntegrityUnchanged,
         kernelVars
    <3>2. CASE UEvent \/ UEventLock \/ UEventReportLock
      BY <2>2, <3>2 DEF UEvent, UEventReceive, UEventCheck, UEventCommit, UEventSend,
         UEventLock, UEventReportLock, UEventUnchanged
    <3>3. CASE Kernel
      BY <2>2, <3>3 DEF SignalInv, TypeInv, TypeOK, Kernel, KernelAuthenticate,
         KernelLinkLoss, KernelPlug, CP_OFF, CP_DESIRED, CP_ENABLED
    <3> QED BY <2>2, <3>1, <3>2, <3>3
  <2>3. ASSUME hpc # "none", faults' = 0
        PROVE  faults = 0
    <3>1. faults \in Nat /\ (faults' = faults \/ faults' = faults + 1)
      BY <2>3 DEF SignalInv, TypeInv, TypeOK, Fault, Integrity, IntegrityWake,
         IntegrityCheck, IntegrityCommit, IntegritySend, IntegrityLock,
         IntegrityReportLock, UEvent, UEventReceive, UEventCheck, UEventCommit,
         UEventSend, UEventLock, UEventReportLock, Kernel, KernelAuthenticate,
         KernelLinkLoss, KernelPlug, KernelUnchanged
    <3> QED BY <2>3, <3>1
  <2> QED BY <2>1, <2>2, <2>3 DEF SignalInv, HandlerInv, Passed
<1> QED BY <1>1, <1>2 DEF SignalInv

\* Going on to the next port, or to the exit.
LEMMA NextPortStep ==
    ASSUME SignalInv, HandlerNextPort, hpc # "none",
           faults' \in Nat, faults' = 0 => faults = 0,
           skipped \subseteq skipped',
           \A q \in Ports : kValue[q] = CP_OFF => kValue'[q] = CP_OFF,
           faults' = 0 => kValue'[hport] = CP_OFF \/ hport \in skipped'
    PROVE  HandlerInv'
<1>1. hport \in Ports /\ hport \in Nat /\ NumPorts \in Nat
  BY NumPortsAssumption DEF SignalInv, HandlerInv, Ports
<1>2. CASE hport + 1 < NumPorts
  <2>1. hpc' = "entry" /\ hport' = hport + 1 /\ hport' \in Ports
    BY <1>1, <1>2 DEF HandlerNextPort, Ports
  <2>2. ASSUME NEW q \in Ports, Passed(q)'
        PROVE  Passed(q) \/ q = hport
    BY <1>1, <2>1, <2>2 DEF Passed, Ports
  <2> QED BY <2>1, <2>2 DEF SignalInv, HandlerInv, HandlerPcs
<1>3. CASE ~(hport + 1 < NumPorts)
  <2>1. hpc' = "exited" /\ hport' = hport /\ hport = NumPorts - 1
    <3>1. hport <= NumPorts - 1
      BY <1>1 DEF Ports
    <3>2. hport = NumPorts - 1
      BY <1>1, <1>3, <3>1
    <3> QED BY <1>3, <3>2 DEF HandlerNextPort
  <2>2. ASSUME NEW q \in Ports, Passed(q)'
        PROVE  Passed(q) \/ q = hport
    BY <1>1, <2>1, <2>2 DEF Passed, Ports
  <2> QED BY <1>1, <2>1, <2>2 DEF SignalInv, HandlerInv, HandlerPcs
<1> QED BY <1>2, <1>3

\* The handler's steps keep the types: main's locals do not change.
LEMMA HandlerTypes ==
    ASSUME SignalInv, SigCatcher \/ Handler \/ HandlerLock
    PROVE  TypeInv'
<1>1. hport \in Ports
  BY DEF SignalInv, HandlerInv
<1>2. CASE SigCatcher
  BY <1>2, TypeStep DEF SigCatcher, SignalInv
<1>3. ASSUME Handler \/ HandlerLock
      PROVE  TypeInv'
  <2>1. /\ UNCHANGED <<connection, connMutex, callBackMutex, callbacks>>
        /\ UNCHANGED <<mpc, mapp, mport, mlevel, mret, caller>>
        /\ UNCHANGED <<ipc, iport, upc, uport, uconn, kConn, uevents, kEvents>>
    BY <1>3 DEF Handler, HandlerEntry, HandlerSetOff, HandlerCheck, HandlerLock,
       HandlerUnchanged, mainVars, integrityVars, ueventVars
  <2>2. MainArgs'
    BY <2>1 DEF SignalInv, TypeInv, MainArgs
  <2>3. /\ appIds' \in [Ports -> SUBSET Apps]
        /\ cpTypeMutex' \in [Ports -> Threads \cup {Free}]
        /\ cpType' \in [Ports -> {CP_TYPE_0, CP_TYPE_1, CP_TYPE_INVALID}]
        /\ faults' \in Nat
    BY <1>3 DEF SignalInv, TypeInv, TypeOK, Handler, HandlerEntry, HandlerSetOff,
       HandlerCheck, HandlerLock, UsersCleared, TypeCleared, SetPortOk, SetPortError,
       Fault, Threads
  <2>4. /\ kValue' \in [Ports -> {CP_OFF, CP_DESIRED, CP_ENABLED}]
        /\ kType' \in [Ports -> {CP_TYPE_0, CP_TYPE_1}]
        /\ master' \in {"dropped", "kept", "dropFailed"}
    <3>1. CASE HandlerSetOff
      BY <1>1, <3>1 DEF SignalInv, TypeInv, TypeOK, HandlerSetOff, SetPortOk,
         SetPortError
    <3>2. CASE HandlerEntry \/ HandlerCheck \/ HandlerLock
      BY <3>2 DEF SignalInv, TypeInv, TypeOK, HandlerEntry, HandlerCheck, HandlerLock
    <3> QED BY <1>3, <3>1, <3>2 DEF Handler
  <2>5. TypeOK'
    BY <2>1, <2>3, <2>4 DEF SignalInv, TypeInv, TypeOK
  <2> QED BY <2>2, <2>5 DEF TypeInv
<1> QED BY <1>2, <1>3

\* The handler's own steps.
LEMMA HandlerStep ==
    ASSUME SignalInv, SigCatcher \/ Handler \/ HandlerLock
    PROVE  SignalInv'
<1>0. /\ hport \in Ports /\ hport \in Nat /\ faults \in Nat
      /\ kValue \in [Ports -> {CP_OFF, CP_DESIRED, CP_ENABLED}]
  BY NumPortsAssumption DEF SignalInv, HandlerInv, TypeInv, TypeOK, Ports
<1>1. TypeInv'
  BY HandlerTypes
<1>2. CASE SigCatcher
  <2>1. hpc = "none" /\ hport = 0 /\ hpc' = "entry" /\ hport' = 0
    BY <1>2 DEF SigCatcher, SignalInv, HandlerInv
  <2>2. ASSUME NEW q \in Ports
        PROVE  ~Passed(q)'
    BY <2>1 DEF Passed, Ports
  <2> QED BY <1>0, <1>1, <2>1, <2>2 DEF SignalInv, HandlerInv, HandlerPcs
<1>3. CASE HandlerEntry
  <2>1. /\ hpc = "entry" /\ kValue' = kValue /\ faults' = faults
        /\ skipped \subseteq skipped'
    BY <1>3 DEF HandlerEntry
  <2>2. CASE connection[hport] = "disconnected"
    <3>1. HandlerNextPort /\ hport \in skipped'
      BY <1>3, <2>2 DEF HandlerEntry
    <3> QED BY <1>0, <1>1, <2>1, <3>1, NextPortStep DEF SignalInv
  <2>3. CASE connection[hport] # "disconnected"
    <3>1. hpc' = "setOff" /\ hport' = hport /\ skipped' = skipped
      <4>1. appIds'[hport] = {}
        BY <1>0, <1>3 DEF HandlerEntry, UsersCleared, SignalInv, TypeInv, TypeOK
      <4> QED BY <1>3, <2>3, <4>1 DEF HandlerEntry, StillUsed
    <3>2. ASSUME NEW q \in Ports, Passed(q)'
          PROVE  Passed(q)
      BY <2>1, <3>1, <3>2 DEF Passed
    <3> QED BY <1>0, <1>1, <2>1, <3>1, <3>2 DEF SignalInv, HandlerInv, HandlerPcs
  <2> QED BY <2>2, <2>3
<1>4. CASE HandlerSetOff
  <2>0. hpc = "setOff" /\ skipped' = skipped
    BY <1>4 DEF HandlerSetOff
  <2>1. CASE SetPortOk(hport, CP_OFF, kType[hport]) /\ hpc' = "lock" /\ hport' = hport
    <3>0. faults' = faults /\ kValue' = [kValue EXCEPT ![hport] = CP_OFF]
      BY <2>1 DEF SetPortOk
    <3>1. /\ kValue'[hport] = CP_OFF
          /\ \A q \in Ports : kValue[q] = CP_OFF => kValue'[q] = CP_OFF
      BY <1>0, <3>0
    <3>2. ASSUME NEW q \in Ports, Passed(q)'
          PROVE  Passed(q) \/ q = hport
      BY <2>0, <2>1, <3>2 DEF Passed
    <3> QED BY <1>0, <1>1, <2>0, <2>1, <3>0, <3>1, <3>2 DEF SignalInv, HandlerInv, HandlerPcs
  <2>2. CASE SetPortError(hport, CP_OFF, kType[hport]) /\ HandlerNextPort
    <3>1. /\ faults' = faults + 1
          /\ \A q \in Ports : kValue[q] = CP_OFF => kValue'[q] = CP_OFF
      BY <1>0, <2>2 DEF SetPortError, Fault
    <3>2. faults' \in Nat /\ faults' # 0
      BY <1>0, <3>1
    <3> QED BY <1>1, <2>0, <2>2, <3>1, <3>2, NextPortStep DEF SignalInv
  <2> QED BY <1>4, <2>1, <2>2 DEF HandlerSetOff
<1>5. CASE HandlerLock
  <2>1. /\ hpc = "lock" /\ hpc' = "check" /\ hport' = hport /\ skipped' = skipped
        /\ kValue' = kValue /\ faults' = faults
    BY <1>5 DEF HandlerLock
  <2>2. ASSUME NEW q \in Ports, Passed(q)'
        PROVE  Passed(q)
    BY <2>1, <2>2 DEF Passed
  <2> QED BY <1>0, <1>1, <2>1, <2>2 DEF SignalInv, HandlerInv, HandlerPcs
<1>6. CASE HandlerCheck
  <2>1. /\ hpc = "check" /\ HandlerNextPort /\ skipped' = skipped
        /\ kValue' = kValue /\ faults' \in Nat /\ (faults' = 0 => faults = 0)
    BY <1>0, <1>6 DEF HandlerCheck, Fault
  <2>2. Passed(hport)
    BY <2>1 DEF Passed
  <2>3. faults' = 0 => kValue'[hport] = CP_OFF \/ hport \in skipped'
    BY <1>0, <2>1, <2>2 DEF SignalInv, HandlerInv
  <2> QED BY <1>1, <2>1, <2>3, NextPortStep DEF SignalInv
<1> QED BY <1>2, <1>3, <1>4, <1>5, <1>6 DEF Handler

\* Every step keeps the invariant.
LEMMA SignalInvStep == SignalInv /\ [SignalNext]_signalVars => SignalInv'
<1> SUFFICES ASSUME SignalInv, [SignalNext]_signalVars PROVE SignalInv'
  OBVIOUS
<1>1. CASE SigCatcher \/ Handler \/ HandlerLock
  BY <1>1, HandlerStep
<1>2. CASE MainRuns /\ (Requests \/ Main \/ MainLock)
  BY <1>2, ThreadsStep DEF MainRuns, Next
<1>3. CASE OthersRun /\ (Integrity \/ IntegrityLock \/ IntegrityReportLock)
  BY <1>3, ThreadsStep DEF OthersRun, Next
<1>4. CASE OthersRun /\ (UEvent \/ UEventLock \/ UEventReportLock)
  BY <1>4, ThreadsStep DEF OthersRun, Next
<1>5. CASE OthersRun /\ Kernel
  BY <1>5, ThreadsStep DEF OthersRun, Next
<1>6. CASE UNCHANGED signalVars
  <2>1. UNCHANGED vars /\ UNCHANGED handlerVars
    BY <1>6 DEF signalVars
  <2>2. TypeInv'
    BY <2>1, TypeStep DEF SignalInv
  <2>3. UNCHANGED <<hpc, hport, skipped>> /\ UNCHANGED <<kValue, faults>>
    BY <2>1 DEF vars, handlerVars, kernelVars, boundVars
  <2>4. HandlerInv'
    BY <2>3 DEF SignalInv, HandlerInv, Passed
  <2> QED BY <2>2, <2>4 DEF SignalInv
<1> QED BY <1>1, <1>2, <1>3, <1>4, <1>5, <1>6 DEF SignalNext

\* Whatever main was doing when SIGTERM came and whatever the other threads do
\* during DisableAllPorts, the daemon exits with its ports off.
THEOREM SignalCorrect == SignalSpec => []OffAtExit
<1>1. SignalInv => OffAtExit
  <2> SUFFICES ASSUME SignalInv, hpc = "exited", faults = 0, NEW p \in Ports
               PROVE  kValue[p] = CP_OFF \/ p \in skipped
    BY DEF OffAtExit
  <2>1. hport = NumPorts - 1
    BY DEF SignalInv, HandlerInv
  <2>2. Passed(p)
    BY <2>1, NumPortsAssumption DEF Passed, Ports
  <2> QED BY <2>2 DEF SignalInv, HandlerInv
<1> QED BY <1>1, SignalInvInit, SignalInvStep, PTL DEF SignalSpec

=============================================================================

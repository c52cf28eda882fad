-------------------------- MODULE PortManagerProofs --------------------------
(***************************************************************************)
(* Proofs about PortManager for any number of ports and applications, and  *)
(* for any bounds on faults and kernel events.                             *)
(***************************************************************************)
EXTENDS PortManager, TLAPS

EnablePcs == {"cached", "hit", "setType", "setDesired", "enableLock",
              "enableCheck"}
DisablePcs == {"setOff", "disableLock", "disableCheck"}

\* What main's locals hold at each place of the program.
MainArgs ==
    /\ mpc # "idle" => mapp \in Apps
    /\ mpc = "enable" \/ mpc \in EnablePcs => mlevel \in 1 .. 2 /\ caller = "loop"
    /\ mpc \in EnablePcs \cup DisablePcs \cup {"enumLock", "enumRead"}
           => mport \in Ports
    /\ mpc \in {"idle", "enumLock", "enumRead", "cbLock", "cbAdd", "respond"}
           => caller = "loop"
    /\ caller = "exit" => mport \in Ports

TypeInv == TypeOK /\ MainArgs

\* Where a thread is inside a critical section of a port's m_CpTypeMutex or
\* m_ConnectionMutex, or of m_CallBackListMutex.
InCpType(t, p) ==
    \/ t = "main" /\ mport = p /\ mpc \in {"enableCheck", "disableCheck"}
    \/ t = "integrity" /\ iport = p /\ ipc \in {"check", "report", "send", "commit"}

InConn(t, p) ==
    \/ t = "main" /\ mport = p /\ mpc = "enumRead"
    \/ t = "uevent" /\ uport = p /\ upc \in {"check", "report", "send", "commit"}

InCallBack(t) ==
    \/ t = "main" /\ mpc = "cbAdd"
    \/ t = "integrity" /\ ipc = "send"
    \/ t = "uevent" /\ upc = "send"

\* The thread inside a section of a mutex owns the mutex.
LockInv ==
    /\ \A t \in Threads, p \in Ports : InCpType(t, p) => cpTypeMutex[p] = t
    /\ \A t \in Threads, p \in Ports : InConn(t, p) => connMutex[p] = t
    /\ \A t \in Threads : InCallBack(t) => callBackMutex = t

\* Between the unlocked read of the cached type and the write of the kernel's,
\* the cache can only have been cleared, so the write lowers nothing that is
\* cached; from there on the kernel's type is at least the level asked for.
EnableInv ==
    /\ mpc = "setType" => cpType[mport] # CP_TYPE_1
    /\ mpc \in EnablePcs /\ mport \notin Type1Ports => mlevel = 1
    /\ mpc \in {"hit", "setDesired", "enableLock", "enableCheck"}
           => mlevel - 1 <= kType[mport]

\* While main switches a port off nobody uses it, and CP_OFF stays.
DisableInv ==
    /\ mpc \in DisablePcs => appIds[mport] = {}
    /\ mpc \in {"disableLock", "disableCheck"} => kValue[mport] = CP_OFF

ValueInv ==
    CachedTypeNotOverstated /\ EnableInv /\ DisableInv /\ OwnedUnlessFaulted

-----------------------------------------------------------------------------
(***************************************************************************)
(* Types                                                                   *)
(***************************************************************************)
\* The constructor and InitDrmObjects leave every variable well typed.
THEOREM TypeInit == Init => TypeInv
<1> SUFFICES ASSUME Init PROVE TypeInv
  OBVIOUS
<1>1. TypeOK
  BY NumPortsAssumption, ConnectorsAssumption, Type1Assumption
  DEF Init, TypeOK, Ports, MainPcs, IntegrityPcs, UEventPcs, Returns, Levels,
      Threads, Free, CP_OFF, CP_DESIRED, CP_ENABLED, CP_TYPE_0, CP_TYPE_1,
      CP_TYPE_INVALID
<1>2. MainArgs
  BY DEF Init, MainArgs, EnablePcs, DisablePcs
<1> QED
  BY <1>1, <1>2 DEF TypeInv

\* A request that arrives changes main's locals and nothing else: it starts a
\* handler on arguments of that handler's range.
LEMMA RequestsEffect ==
  ASSUME Requests, mret \in Returns, caller \in {"loop", "exit"},
         mpc = "idle" => caller = "loop"
  PROVE  /\ mpc = "idle" /\ mapp' \in Apps /\ mport' \in 0 .. NumPorts
         /\ mlevel' \in Levels /\ mret' \in Returns
         /\ mpc' \in {"disable", "enable", "respond", "enumLock", "cbLock"}
         /\ mpc' = "enable" => mlevel' \in 1 .. 2
         /\ mpc' = "enumLock" => mport' = 0
         /\ \/ caller' = "loop"
            \/ caller' = "exit" /\ mpc' = "disable" /\ mport' = 0
         /\ UNCHANGED <<connection, cpType, appIds>>
         /\ UNCHANGED <<connMutex, cpTypeMutex, callBackMutex, callbacks>>
         /\ UNCHANGED <<ipc, iport, upc, uport, uconn>>
         /\ UNCHANGED <<kConn, kValue, kType, uevents, master>>
         /\ UNCHANGED <<faults, kEvents>>
<1> USE DEF portVars, mutexVars, integrityVars, ueventVars, kernelVars, boundVars
<1>1. PICK a \in Apps :
          \/ \E p \in 0 .. NumPorts, l \in Levels : SetProtectionLevel(a, p, l)
          \/ EnumerateRequest(a)
          \/ CreateCallback(a)
          \/ HandleAppExit(a)
  BY DEF Requests
<1>0. 0 \in 0 .. NumPorts /\ 0 \in Levels
  BY NumPortsAssumption DEF Levels
<1>2. ASSUME NEW p \in 0 .. NumPorts, NEW l \in Levels,
             SetProtectionLevel(a, p, l)
      PROVE  /\ \/ Request(a, p, l, "disable") \/ Request(a, p, l, "respond")
                \/ Request(a, p, l, "enable") /\ l \in 1 .. 2
             /\ mret' \in Returns /\ caller' = "loop"
  BY <1>2 DEF SetProtectionLevel, Returns
<1>3. CASE \E p \in 0 .. NumPorts, l \in Levels : SetProtectionLevel(a, p, l)
  BY <1>2, <1>3 DEF Request
<1>4. CASE EnumerateRequest(a)
  BY <1>4, <1>0 DEF EnumerateRequest, Request
<1>5. CASE CreateCallback(a)
  BY <1>5, <1>0 DEF CreateCallback, Request
<1>6. CASE HandleAppExit(a)
  BY <1>6, <1>0 DEF HandleAppExit, Request
<1> QED
  BY <1>1, <1>3, <1>4, <1>5, <1>6

\* Every step of the three threads and of the kernel keeps the types and the
\* argument invariant of the main thread: each port index a step hands on is
\* again inside the list.
LEMMA TypeStep == TypeInv /\ [Next]_vars => TypeInv'
<1> SUFFICES ASSUME TypeInv, [Next]_vars PROVE TypeInv'
  OBVIOUS
<1> USE NumPortsAssumption, ConnectorsAssumption, Type1Assumption,
        BoundsAssumption
    DEF TypeInv, TypeOK, MainArgs, Ports, MainPcs, IntegrityPcs, UEventPcs,
        Returns, Levels, Threads, Free, EnablePcs, DisablePcs, CP_OFF,
        CP_DESIRED, CP_ENABLED, CP_TYPE_0, CP_TYPE_1, CP_TYPE_INVALID,
        portVars, mutexVars, mainVars, integrityVars, ueventVars, kernelVars,
        boundVars
<1>1. CASE Requests
  <2>1. /\ mapp' \in Apps /\ mport' \in 0 .. NumPorts /\ mlevel' \in Levels
        /\ mpc' \in MainPcs /\ mret' \in Returns /\ caller' \in {"loop", "exit"}
    BY <1>1, RequestsEffect
  <2>2. TypeOK'
    BY <1>1, <2>1, RequestsEffect
  <2>3. MainArgs'
    BY <1>1, RequestsEffect
  <2> QED
    BY <2>2, <2>3
<1>2. CASE Respond
  BY <1>2 DEF Respond, NextRequest
<1>3. CASE CallBackLock
  BY <1>3 DEF CallBackLock, Goto
<1>4. CASE CallBackAdd
  BY <1>4 DEF CallBackAdd, NextRequest
<1>5. CASE EnableEntry
  BY <1>5 DEF EnableEntry, EnableUnchanged, Goto, Return, NextRequest
<1>6. CASE EnableCached
  BY <1>6 DEF EnableCached, EnableUnchanged, Goto
<1>7. CASE EnableHit
  BY <1>7 DEF EnableHit, EnableUnchanged, Return, NextRequest
<1>8. CASE EnableSetType
  BY <1>8 DEF EnableSetType, EnableUnchanged, Goto, Return, NextRequest,
     SetPortOk, SetPortError, Fault
<1>9. CASE EnableSetDesired
  BY <1>9 DEF EnableSetDesired, EnableUnchanged, Goto, Return, NextRequest,
     SetPortOk, SetPortError, Fault
<1>10. CASE EnableLock
  BY <1>10 DEF EnableLock, EnableUnchanged, Goto
<1>11. CASE EnableCheck
  <2>1. EnabledType(mport) \in {CP_TYPE_0, CP_TYPE_1}
    BY <1>11 DEF EnableCheck, EnabledType
  <2> QED
    BY <1>11, <2>1 DEF EnableCheck, EnableUnchanged, Return, NextRequest, Fault
<1>12. CASE DisableEntry
  BY <1>12 DEF DisableEntry, EnableUnchanged, Goto, Return, NextRequest, StillUsed
<1>13. CASE DisableSetOff
  BY <1>13 DEF DisableSetOff, EnableUnchanged, Goto, Return, NextRequest,
     SetPortOk, SetPortError, Fault
<1>14. CASE DisableLock
  BY <1>14 DEF DisableLock, EnableUnchanged, Goto
<1>15. CASE DisableCheck
  BY <1>15 DEF DisableCheck, EnableUnchanged, Return, NextRequest, TypeCleared,
     Fault
<1>16. CASE EnumerateLock
  BY <1>16 DEF EnumerateLock, EnumerateUnchanged, Goto
<1>17. CASE EnumerateRead
  BY <1>17 DEF EnumerateRead, EnumerateUnchanged, Return, NextRequest, Fault
<1>18. CASE IntegrityWake
  BY <1>18 DEF IntegrityWake, IntegrityUnchanged
<1>19. CASE IntegrityLock
  BY <1>19 DEF IntegrityLock, IntegrityUnchanged
<1>20. CASE IntegrityCheck
  BY <1>20 DEF IntegrityCheck, IntegrityUnchanged, IntegritySkip,
     IntegrityNextPort, Fault
<1>21. CASE IntegrityReportLock
  BY <1>21 DEF IntegrityReportLock, IntegrityUnchanged
<1>22. CASE \E gone \in SUBSET callbacks : IntegritySend(gone)
  BY <1>22 DEF IntegritySend, IntegrityUnchanged, SendToAll
<1>23. CASE IntegrityCommit
  BY <1>23 DEF IntegrityCommit, IntegrityUnchanged, IntegrityNextPort, TypeCleared
<1>24. CASE UEventReceive
  BY <1>24 DEF UEventReceive, UEventUnchanged
<1>25. CASE UEventLock
  BY <1>25 DEF UEventLock, UEventUnchanged
<1>26. CASE UEventCheck
  BY <1>26 DEF UEventCheck, UEventUnchanged, UEventNextPort, Fault
<1>27. CASE UEventReportLock
  BY <1>27 DEF UEventReportLock, UEventUnchanged
<1>28. CASE \E gone \in SUBSET callbacks : UEventSend(gone)
  BY <1>28 DEF UEventSend, UEventUnchanged, SendToAll
<1>29. CASE UEventCommit
  BY <1>29 DEF UEventCommit, UEventUnchanged, UEventNextPort
<1>30. CASE Kernel
  <2>1. PICK p \in Ports :
          \/ KernelAuthenticate(p)
          \/ KernelLinkLoss(p)
          \/ \E c \in Connectors : KernelPlug(p, c)
    BY <1>30 DEF Kernel
  <2>2. CASE KernelAuthenticate(p)
    BY <2>2 DEF KernelAuthenticate, KernelUnchanged
  <2>3. CASE KernelLinkLoss(p)
    BY <2>3 DEF KernelLinkLoss, KernelUnchanged
  <2>4. CASE \E c \in Connectors : KernelPlug(p, c)
    BY <2>4 DEF KernelPlug, KernelUnchanged
  <2> QED
    BY <2>1, <2>2, <2>3, <2>4
<1>31. CASE UNCHANGED vars
  BY <1>31 DEF vars
<1> QED
  BY <1>1, <1>2, <1>3, <1>4, <1>5, <1>6, <1>7, <1>8, <1>9, <1>10, <1>11, <1>12,
     <1>13, <1>14, <1>15, <1>16, <1>17, <1>18, <1>19, <1>20, <1>21, <1>22,
     <1>23, <1>24, <1>25, <1>26, <1>27, <1>28, <1>29, <1>30, <1>31
  DEF Next, Main, MainLock, Integrity, UEvent

\* The inductive typing invariant, of which TypeOK is a part, always holds.
THEOREM TypeSafety == Spec => []TypeInv
  BY TypeInit, TypeStep, PTL DEF Spec

\* TypeOK holds in every state: indices stay within the port list, program
\* counters and cached values within their ranges, for any number of ports.
THEOREM TypeCorrect == Spec => []TypeOK
<1>1. TypeInv => TypeOK
  BY DEF TypeInv
<1> QED
  BY <1>1, TypeSafety, PTL

-----------------------------------------------------------------------------
(***************************************************************************)
(* Mutexes                                                                 *)
(***************************************************************************)
\* No thread starts inside a locked section.
LEMMA LockInit == Init => LockInv
  BY DEF Init, LockInv, InCpType, InConn, InCallBack

\* A thread inside a section of ConnAtomicBegin, CpTypeAtomicBegin or the
\* callback list mutex is the recorded owner, and every step keeps it so.
LEMMA LockStep == TypeInv /\ LockInv /\ [Next]_vars => LockInv'
<1> SUFFICES ASSUME TypeInv, LockInv, [Next]_vars PROVE LockInv'
  OBVIOUS
<1> USE NumPortsAssumption
    DEF TypeInv, TypeOK, MainArgs, LockInv, InCpType, InConn, InCallBack,
        Threads, Free, Ports, EnablePcs, DisablePcs,
        portVars, mutexVars, mainVars, integrityVars, ueventVars, kernelVars,
        boundVars
<1>1. CASE Requests
  BY <1>1, RequestsEffect
<1>2. CASE Respond
  BY <1>2 DEF Respond, NextRequest
<1>3. CASE CallBackLock
  BY <1>3 DEF CallBackLock, Goto, CanLock
<1>4. CASE CallBackAdd
  BY <1>4 DEF CallBackAdd, NextRequest
<1>5. CASE EnableEntry
  BY <1>5 DEF EnableEntry, EnableUnchanged, Goto, Return, NextRequest
<1>6. CASE EnableCached
  BY <1>6 DEF EnableCached, EnableUnchanged, Goto, AlreadyEnabled
<1>7. CASE EnableHit
  BY <1>7 DEF EnableHit, EnableUnchanged, Return, NextRequest
<1>8. CASE EnableSetType
  BY <1>8 DEF EnableSetType, EnableUnchanged, Goto, Return, NextRequest,
     SetPortOk, SetPortError, Fault
<1>9. CASE EnableSetDesired
  BY <1>9 DEF EnableSetDesired, EnableUnchanged, Goto, Return, NextRequest,
     SetPortOk, SetPortError, Fault
<1>10. CASE EnableLock
  BY <1>10 DEF EnableLock, EnableUnchanged, Goto, CanLock
<1>11. CASE EnableCheck
  BY <1>11 DEF EnableCheck, EnableUnchanged, Return, NextRequest, EnabledType,
     Fault
<1>12. CASE DisableEntry
  BY <1>12 DEF DisableEntry, EnableUnchanged, Goto, Return, NextRequest, StillUsed
<1>13. CASE DisableSetOff
  BY <1>13 DEF DisableSetOff, EnableUnchanged, Goto, Return, NextRequest,
     SetPortOk, SetPortError, Fault
<1>14. CASE DisableLock
  BY <1>14 DEF DisableLock, EnableUnchanged, Goto, CanLock
<1>15. CASE DisableCheck
  BY <1>15 DEF DisableCheck, EnableUnchanged, Return, NextRequest, TypeCleared,
     Fault
<1>16. CASE EnumerateLock
  BY <1>16 DEF EnumerateLock, EnumerateUnchanged, Goto, CanLock
<1>17. CASE EnumerateRead
  BY <1>17 DEF EnumerateRead, EnumerateUnchanged, Return, NextRequest, Fault
<1>18. CASE IntegrityWake
  BY <1>18 DEF IntegrityWake, IntegrityUnchanged
<1>19. CASE IntegrityLock
  BY <1>19 DEF IntegrityLock, IntegrityUnchanged, CanLock
<1>20. CASE IntegrityCheck
  BY <1>20 DEF IntegrityCheck, IntegrityUnchanged, IntegritySkip,
     IntegrityNextPort, Fault
<1>21. CASE IntegrityReportLock
  BY <1>21 DEF IntegrityReportLock, IntegrityUnchanged, CanLock
<1>22. CASE \E gone \in SUBSET callbacks : IntegritySend(gone)
  BY <1>22 DEF IntegritySend, IntegrityUnchanged, SendToAll
<1>23. CASE IntegrityCommit
  BY <1>23 DEF IntegrityCommit, IntegrityUnchanged, IntegrityNextPort, TypeCleared
<1>24. CASE UEventReceive
  BY <1>24 DEF UEventReceive, UEventUnchanged
<1>25. CASE UEventLock
  BY <1>25 DEF UEventLock, UEventUnchanged, CanLock
<1>26. CASE UEventCheck
  BY <1>26 DEF UEventCheck, UEventUnchanged, UEventNextPort, Fault
<1>27. CASE UEventReportLock
  BY <1>27 DEF UEventReportLock, UEventUnchanged, CanLock
<1>28. CASE \E gone \in SUBSET callbacks : UEventSend(gone)
  BY <1>28 DEF UEventSend, UEventUnchanged, SendToAll
<1>29. CASE UEventCommit
  BY <1>29 DEF UEventCommit, UEventUnchanged, UEventNextPort
<1>30. CASE Kernel
  BY <1>30 DEF Kernel, KernelAuthenticate, KernelLinkLoss, KernelPlug,
               KernelUnchanged
<1>31. CASE UNCHANGED vars
  BY <1>31 DEF vars
<1> QED
  BY <1>1, <1>2, <1>3, <1>4, <1>5, <1>6, <1>7, <1>8, <1>9, <1>10, <1>11, <1>12,
     <1>13, <1>14, <1>15, <1>16, <1>17, <1>18, <1>19, <1>20, <1>21, <1>22,
     <1>23, <1>24, <1>25, <1>26, <1>27, <1>28, <1>29, <1>30, <1>31
  DEF Next, Main, MainLock, Integrity, UEvent

-----------------------------------------------------------------------------
(***************************************************************************)
(* The cached type, the level granted and who may be switched off          *)
(***************************************************************************)
\* No port is enabled when the daemon starts.
LEMMA ValueInit == Init => ValueInv
  BY DEF Init, ValueInv, CachedTypeNotOverstated, EnableInv, DisableInv,
         OwnedUnlessFaulted, EnablePcs, DisablePcs, CP_TYPE_INVALID, CP_TYPE_1

\* Every step keeps the relation between m_CpType, m_AppIds and the kernel's
\* properties, at every point of EnablePort and DisablePort.
LEMMA ValueStep == TypeInv /\ ValueInv /\ [Next]_vars => ValueInv'
<1> SUFFICES ASSUME TypeInv, ValueInv, [Next]_vars PROVE ValueInv'
  OBVIOUS
<1> USE NumPortsAssumption, Type1Assumption
    DEF TypeInv, TypeOK, MainArgs, ValueInv, CachedTypeNotOverstated,
        EnableInv, DisableInv, OwnedUnlessFaulted, Ports, EnablePcs,
        DisablePcs, Levels, CP_OFF, CP_DESIRED, CP_ENABLED, CP_TYPE_0,
        CP_TYPE_1, CP_TYPE_INVALID,
        portVars, mutexVars, mainVars, integrityVars, ueventVars, kernelVars,
        boundVars
<1>1. CASE Requests
  <2>1. /\ mpc = "idle" /\ mpc' \notin EnablePcs \cup DisablePcs
        /\ UNCHANGED <<cpType, appIds, kValue, kType, faults>>
    BY <1>1, RequestsEffect
  <2>2. CachedTypeNotOverstated' /\ EnableInv' /\ DisableInv'
    BY <2>1
  <2>3. OwnedUnlessFaulted'
    BY <2>1
  <2> QED
    BY <2>2, <2>3
<1>2. CASE Respond
  BY <1>2 DEF Respond, NextRequest
<1>3. CASE CallBackLock
  BY <1>3 DEF CallBackLock, Goto, CanLock
<1>4. CASE CallBackAdd
  BY <1>4 DEF CallBackAdd, NextRequest
<1>5. CASE EnableEntry
  BY <1>5 DEF EnableEntry, EnableUnchanged, Goto, Return, NextRequest
<1>6. CASE EnableCached
  BY <1>6 DEF EnableCached, EnableUnchanged, Goto, AlreadyEnabled
<1>7. CASE EnableHit
  BY <1>7 DEF EnableHit, EnableUnchanged, Return, NextRequest
<1>8. CASE EnableSetType
  BY <1>8 DEF EnableSetType, EnableUnchanged, Goto, Return, NextRequest,
     SetPortOk, SetPortError, Fault
<1>9. CASE EnableSetDesired
  BY <1>9 DEF EnableSetDesired, EnableUnchanged, Goto, Return, NextRequest,
     SetPortOk, SetPortError, Fault
<1>10. CASE EnableLock
  BY <1>10 DEF EnableLock, EnableUnchanged, Goto, CanLock
<1>11. CASE EnableCheck
  <2> USE <1>11 DEF EnableCheck, EnableUnchanged
  <2>1. mport \in Ports /\ mpc' = "respond"
    BY DEF Return
  <2>2. CASE UNCHANGED <<cpType, appIds>>
    BY <2>1, <2>2 DEF Fault, Return
  <2>3. CASE /\ cpType' = [cpType EXCEPT ![mport] = EnabledType(mport)]
             /\ appIds' = [appIds EXCEPT ![mport] = @ \cup {mapp}]
             /\ UNCHANGED faults
    <3>1. EnabledType(mport) = CP_TYPE_1 => kType[mport] = CP_TYPE_1
      BY DEF EnabledType
    <3>2. CachedTypeNotOverstated'
      BY <2>1, <2>3, <3>1
    <3>3. OwnedUnlessFaulted'
      <4> SUFFICES ASSUME NEW p \in Ports, cpType'[p] # CP_TYPE_INVALID,
                          appIds'[p] = {}
                   PROVE  faults' > 0
        OBVIOUS
      <4>1. p # mport
        BY <2>3
      <4>2. cpType[p] # CP_TYPE_INVALID /\ appIds[p] = {}
        BY <2>3, <4>1
      <4> QED
        BY <2>3, <4>1, <4>2
    <3> QED
      BY <2>1, <3>2, <3>3
  <2> QED
    BY <2>2, <2>3
<1>12. CASE DisableEntry
  <2> USE <1>12 DEF DisableEntry, EnableUnchanged
  <2>1. CASE mport = NumPorts \/ connection[mport] = "disconnected"
    BY <2>1 DEF Return, NextRequest
  <2>2. CASE mport # NumPorts /\ connection[mport] # "disconnected"
    <3>1. mport \in Ports /\ appIds' = [appIds EXCEPT ![mport] = @ \ {mapp}]
      BY <2>2
    <3>2. CASE StillUsed(appIds'[mport])
      <4>1. Return("SUCCESS")
        BY <2>2, <3>2
      <4>2. mpc' \in {"disable", "idle", "respond"}
        BY <4>1 DEF Return, NextRequest
      <4>3. \A p \in Ports : appIds'[p] = {} => appIds[p] = {}
        BY <3>1, <3>2 DEF StillUsed
      <4> QED
        BY <4>2, <4>3
    <3>3. CASE ~StillUsed(appIds'[mport])
      <4>1. Goto("setOff")
        BY <2>2, <3>3
      <4> QED
        BY <3>1, <3>3, <4>1 DEF Goto, StillUsed
    <3> QED
      BY <3>2, <3>3
  <2> QED
    BY <2>1, <2>2
<1>13. CASE DisableSetOff
  BY <1>13 DEF DisableSetOff, EnableUnchanged, Goto, Return, NextRequest,
     SetPortOk, SetPortError, Fault
<1>14. CASE DisableLock
  BY <1>14 DEF DisableLock, EnableUnchanged, Goto, CanLock
<1>15. CASE DisableCheck
  <2> USE <1>15 DEF DisableCheck, EnableUnchanged
  <2>1. mport \in Ports /\ mpc' \in {"disable", "idle", "respond"}
    BY DEF Return, NextRequest
  <2>2. CASE cpType' = TypeCleared(mport) /\ UNCHANGED faults
    BY <2>1, <2>2 DEF TypeCleared
  <2>3. CASE UNCHANGED cpType /\ Fault
    BY <2>1, <2>3 DEF Fault
  <2> QED
    BY <2>2, <2>3
<1>16. CASE EnumerateLock
  BY <1>16 DEF EnumerateLock, EnumerateUnchanged, Goto, CanLock
<1>17. CASE EnumerateRead
  BY <1>17 DEF EnumerateRead, EnumerateUnchanged, Return, NextRequest, Fault
<1>18. CASE IntegrityWake
  BY <1>18 DEF IntegrityWake, IntegrityUnchanged
<1>19. CASE IntegrityLock
  BY <1>19 DEF IntegrityLock, IntegrityUnchanged, CanLock
<1>20. CASE IntegrityCheck
  BY <1>20 DEF IntegrityCheck, IntegrityUnchanged, IntegritySkip,
     IntegrityNextPort, Fault
<1>21. CASE IntegrityReportLock
  BY <1>21 DEF IntegrityReportLock, IntegrityUnchanged, CanLock
<1>22. CASE \E gone \in SUBSET callbacks : IntegritySend(gone)
  BY <1>22 DEF IntegritySend, IntegrityUnchanged, SendToAll
<1>23. CASE IntegrityCommit
  BY <1>23 DEF IntegrityCommit, IntegrityUnchanged, IntegrityNextPort, TypeCleared
<1>24. CASE UEventReceive
  BY <1>24 DEF UEventReceive, UEventUnchanged
<1>25. CASE UEventLock
  BY <1>25 DEF UEventLock, UEventUnchanged, CanLock
<1>26. CASE UEventCheck
  BY <1>26 DEF UEventCheck, UEventUnchanged, UEventNextPort, Fault
<1>27. CASE UEventReportLock
  BY <1>27 DEF UEventReportLock, UEventUnchanged, CanLock
<1>28. CASE \E gone \in SUBSET callbacks : UEventSend(gone)
  BY <1>28 DEF UEventSend, UEventUnchanged, SendToAll
<1>29. CASE UEventCommit
  BY <1>29 DEF UEventCommit, UEventUnchanged, UEventNextPort
<1>30. CASE Kernel
  <2>1. /\ UNCHANGED <<cpType, appIds, kType, mpc, mport, mlevel, faults>>
        /\ \A p \in Ports : kValue[p] = CP_OFF => kValue'[p] = CP_OFF
    <3>1. PICK p \in Ports : \/ KernelAuthenticate(p) \/ KernelLinkLoss(p)
                            \/ \E c \in Connectors : KernelPlug(p, c)
      BY <1>30 DEF Kernel
    <3>2. CASE KernelAuthenticate(p)
      BY <3>2 DEF KernelAuthenticate, KernelUnchanged
    <3>3. CASE KernelLinkLoss(p)
      BY <3>3 DEF KernelLinkLoss, KernelUnchanged
    <3>4. ASSUME NEW c \in Connectors, KernelPlug(p, c)
          PROVE  <2>1
      BY <3>4 DEF KernelPlug, KernelUnchanged
    <3> QED
      BY <3>1, <3>2, <3>3, <3>4
  <2>2. CachedTypeNotOverstated' /\ EnableInv' /\ OwnedUnlessFaulted'
    BY <2>1
  <2>3. DisableInv'
    BY <2>1
  <2> QED
    BY <2>2, <2>3
<1>31. CASE UNCHANGED vars
  BY <1>31 DEF vars
<1> QED
  BY <1>1, <1>2, <1>3, <1>4, <1>5, <1>6, <1>7, <1>8, <1>9, <1>10, <1>11, <1>12,
     <1>13, <1>14, <1>15, <1>16, <1>17, <1>18, <1>19, <1>20, <1>21, <1>22,
     <1>23, <1>24, <1>25, <1>26, <1>27, <1>28, <1>29, <1>30, <1>31
  DEF Next, Main, MainLock, Integrity, UEvent

\* The whole inductive invariant always holds.
THEOREM Safety == Spec => [](TypeInv /\ LockInv /\ ValueInv)
  BY TypeSafety, LockInit, LockStep, ValueInit, ValueStep, PTL DEF Spec

\* The cached content type of a port never exceeds the kernel's, although
\* EnablePort reads it without the mutex.
THEOREM CachedTypeCorrect == Spec => []CachedTypeNotOverstated
<1>1. ValueInv => CachedTypeNotOverstated
  BY DEF ValueInv
<1> QED
  BY <1>1, Safety, PTL

\* A successful EnablePort always means the level that was asked for, on the
\* cached path too.
THEOREM LevelCorrect == Spec => LevelHonoured
<1>1. TypeInv /\ ValueInv /\ [Next]_vars =>
        [/\ mpc \in {"hit", "enableCheck"}
         /\ mpc' = "respond" /\ mret' = "SUCCESS"
         => mlevel - 1 <= kType[mport]]_vars
  BY DEF ValueInv, EnableInv
<1> QED
  BY <1>1, Safety, PTL DEF Spec, LevelHonoured

\* Protection is never switched off under an application that uses the port.
THEOREM OffCorrect == Spec => OffOnlyWhenUnused
<1>1. TypeInv /\ ValueInv /\ [Next]_vars =>
        [\A p \in Ports :
            kValue[p] # CP_OFF /\ kValue'[p] = CP_OFF => appIds[p] = {}]_vars
  <2> SUFFICES ASSUME TypeInv, ValueInv, Next, NEW p \in Ports,
                      kValue[p] # CP_OFF, kValue'[p] = CP_OFF
               PROVE  appIds[p] = {}
    OBVIOUS
  <2> USE DEF CP_OFF, CP_DESIRED, CP_ENABLED, TypeInv, TypeOK
  <2>1. ~Requests /\ ~MainLock /\ ~Integrity /\ ~IntegrityLock
        /\ ~IntegrityReportLock /\ ~UEvent /\ ~UEventLock
        /\ ~UEventReportLock
    BY DEF Requests, Request, SetProtectionLevel, EnumerateRequest,
           CreateCallback, HandleAppExit, MainLock, CallBackLock, EnableLock,
           DisableLock, EnumerateLock, EnableUnchanged, EnumerateUnchanged,
           Integrity, IntegrityWake, IntegrityCheck, IntegrityCommit,
           IntegritySend, IntegrityLock, IntegrityReportLock,
           IntegrityUnchanged, UEvent, UEventReceive, UEventCheck,
           UEventCommit, UEventSend, UEventLock, UEventReportLock,
           UEventUnchanged, kernelVars
  <2>2. ~Kernel
    BY DEF Kernel, KernelAuthenticate, KernelLinkLoss, KernelPlug
  <2>3. Main
    BY <2>1, <2>2 DEF Next
  <2>4. DisableSetOff
    BY <2>3 DEF Main, Respond, CallBackAdd, EnableEntry, EnableCached,
                EnableHit, EnableSetType, EnableSetDesired, EnableCheck,
                DisableEntry, DisableCheck, EnumerateRead, EnumerateUnchanged,
                SetPortOk, SetPortError, kernelVars
  <2>5. mport = p
    BY <2>4 DEF DisableSetOff, SetPortOk, SetPortError
  <2> QED
    BY <2>4, <2>5 DEF DisableSetOff, ValueInv, DisableInv, DisablePcs
<1> QED
  BY <1>1, Safety, PTL DEF Spec, OffOnlyWhenUnused

\* Without a failing DRM call a protected port always has a user.
THEOREM OwnershipCorrect == Spec => []OwnedUnlessFaulted
<1>1. ValueInv => OwnedUnlessFaulted
  BY DEF ValueInv
<1> QED
  BY <1>1, Safety, PTL

-----------------------------------------------------------------------------
(***************************************************************************)
(* What the integrity thread reports of a port that was switched off       *)
(***************************************************************************)
\* A port switched off by DisablePort is cached as protected only until that
\* DisablePort has read the property back.
SwitchedOffInv ==
    \A p \in Ports : cpType[p] # CP_TYPE_INVALID /\ kValue[p] = CP_OFF =>
        \/ mport = p /\ mpc \in {"disableLock", "disableCheck"}
        \/ faults > 0

\* The port a loss is being reported for is still cached as protected.
ReportInv == ipc \in {"report", "send", "commit"} => cpType[iport] # CP_TYPE_INVALID

\* Nothing is cached and nothing reported when the daemon starts.
LEMMA ReportInit == Init => SwitchedOffInv /\ ReportInv
  BY DEF Init, SwitchedOffInv, ReportInv, CP_TYPE_INVALID

\* Only DisablePort writes CP_OFF, and only with the port's mutex, which the
\* integrity thread keeps while it reports, is the cached type cleared.
LEMMA SwitchedOffStep ==
  TypeInv /\ LockInv /\ ValueInv /\ SwitchedOffInv /\ ReportInv /\ [Next]_vars
      => SwitchedOffInv' /\ ReportInv'
<1> SUFFICES ASSUME TypeInv, LockInv, ValueInv, SwitchedOffInv, ReportInv, [Next]_vars
             PROVE  SwitchedOffInv' /\ ReportInv'
  OBVIOUS
<1> USE NumPortsAssumption
    DEF TypeInv, TypeOK, MainArgs, Ports, EnablePcs, DisablePcs,
        SwitchedOffInv, ReportInv,
        CP_OFF, CP_DESIRED, CP_ENABLED, CP_TYPE_0, CP_TYPE_1, CP_TYPE_INVALID,
        portVars, mutexVars, mainVars, integrityVars, ueventVars, kernelVars,
        boundVars
<1>1. CASE Requests
  BY <1>1, RequestsEffect
<1>2. CASE Respond
  BY <1>2 DEF Respond, NextRequest
<1>3. CASE CallBackLock
  BY <1>3 DEF CallBackLock, Goto, CanLock
<1>4. CASE CallBackAdd
  BY <1>4 DEF CallBackAdd, NextRequest
<1>5. CASE EnableEntry
  BY <1>5 DEF EnableEntry, EnableUnchanged, Goto, Return, NextRequest
<1>6. CASE EnableCached
  BY <1>6 DEF EnableCached, EnableUnchanged, Goto, AlreadyEnabled
<1>7. CASE EnableHit
  BY <1>7 DEF EnableHit, EnableUnchanged, Return, NextRequest
<1>8. CASE EnableSetType
  BY <1>8 DEF EnableSetType, EnableUnchanged, Goto, Return, NextRequest,
     SetPortOk, SetPortError, Fault
<1>9. CASE EnableSetDesired
  BY <1>9 DEF EnableSetDesired, EnableUnchanged, Goto, Return, NextRequest,
     SetPortOk, SetPortError, Fault
<1>10. CASE EnableLock
  BY <1>10 DEF EnableLock, EnableUnchanged, Goto, CanLock
<1>11. CASE EnableCheck
  BY <1>11 DEF EnableCheck, EnableUnchanged, Return, NextRequest, EnabledType,
     Fault
<1>12. CASE DisableEntry
  BY <1>12 DEF DisableEntry, EnableUnchanged, Goto, Return, NextRequest, StillUsed
<1>13. CASE DisableSetOff
  BY <1>13 DEF DisableSetOff, EnableUnchanged, Goto, Return, NextRequest,
     SetPortOk, SetPortError, Fault
<1>14. CASE DisableLock
  BY <1>14 DEF DisableLock, EnableUnchanged, Goto, CanLock
<1>15. CASE DisableCheck
  <2> USE <1>15 DEF DisableCheck, EnableUnchanged
  <2>1. mport \in Ports /\ kValue[mport] = CP_OFF
    BY DEF ValueInv, DisableInv
  <2>2. ~(ipc \in {"report", "send", "commit"} /\ iport = mport)
    BY <2>1 DEF LockInv, InCpType, Threads
  <2>3. CASE cpType' = TypeCleared(mport) /\ UNCHANGED faults
    BY <2>1, <2>2, <2>3 DEF TypeCleared
  <2>4. CASE UNCHANGED cpType /\ Fault
    BY <2>4 DEF Fault
  <2> QED
    BY <2>1, <2>3, <2>4
<1>16. CASE EnumerateLock
  BY <1>16 DEF EnumerateLock, EnumerateUnchanged, Goto, CanLock
<1>17. CASE EnumerateRead
  BY <1>17 DEF EnumerateRead, EnumerateUnchanged, Return, NextRequest, Fault
<1>18. CASE IntegrityWake
  BY <1>18 DEF IntegrityWake, IntegrityUnchanged
<1>19. CASE IntegrityLock
  BY <1>19 DEF IntegrityLock, IntegrityUnchanged, CanLock
<1>20. CASE IntegrityCheck
  BY <1>20 DEF IntegrityCheck, IntegrityUnchanged, IntegritySkip,
     IntegrityNextPort, Fault
<1>21. CASE IntegrityReportLock
  BY <1>21 DEF IntegrityReportLock, IntegrityUnchanged, CanLock
<1>22. CASE \E gone \in SUBSET callbacks : IntegritySend(gone)
  BY <1>22 DEF IntegritySend, IntegrityUnchanged, SendToAll
<1>23. CASE IntegrityCommit
  BY <1>23 DEF IntegrityCommit, IntegrityUnchanged, IntegrityNextPort, TypeCleared
<1>24. CASE UEventReceive
  BY <1>24 DEF UEventReceive, UEventUnchanged
<1>25. CASE UEventLock
  BY <1>25 DEF UEventLock, UEventUnchanged, CanLock
<1>26. CASE UEventCheck
  BY <1>26 DEF UEventCheck, UEventUnchanged, UEventNextPort, Fault
<1>27. CASE UEventReportLock
  BY <1>27 DEF UEventReportLock, UEventUnchanged, CanLock
<1>28. CASE \E gone \in SUBSET callbacks : UEventSend(gone)
  BY <1>28 DEF UEventSend, UEventUnchanged, SendToAll
<1>29. CASE UEventCommit
  BY <1>29 DEF UEventCommit, UEventUnchanged, UEventNextPort
<1>30. CASE Kernel
  BY <1>30 DEF Kernel, KernelAuthenticate, KernelLinkLoss, KernelPlug,
               KernelUnchanged
<1>31. CASE UNCHANGED vars
  BY <1>31 DEF vars
<1> QED
  BY <1>1, <1>2, <1>3, <1>4, <1>5, <1>6, <1>7, <1>8, <1>9, <1>10, <1>11, <1>12,
     <1>13, <1>14, <1>15, <1>16, <1>17, <1>18, <1>19, <1>20, <1>21, <1>22,
     <1>23, <1>24, <1>25, <1>26, <1>27, <1>28, <1>29, <1>30, <1>31
  DEF Next, Main, MainLock, Integrity, UEvent

\* LINK_LOST for a port that the daemon has switched off itself is confined to
\* the wait of DisablePort for the port's mutex, when no application is counted
\* on the port, for any number of ports and applications.
THEOREM SwitchOffCorrect == Spec => []SwitchOffReportedUnused
<1>1. TypeInv /\ LockInv /\ ValueInv /\ SwitchedOffInv /\ ReportInv
        => SwitchOffReportedUnused
  <2> SUFFICES ASSUME TypeInv, LockInv, ValueInv, SwitchedOffInv, ReportInv,
                      ipc = "send", kValue[iport] = CP_OFF, ~(faults > 0)
               PROVE  mport = iport /\ mpc = "disableLock" /\ appIds[iport] = {}
    BY DEF SwitchOffReportedUnused
  <2>1. mport = iport /\ mpc \in {"disableLock", "disableCheck"}
    BY DEF SwitchedOffInv, ReportInv, TypeInv, TypeOK
  <2>2. mpc # "disableCheck"
    BY <2>1 DEF LockInv, InCpType, Threads, TypeInv, TypeOK
  <2> QED
    BY <2>1, <2>2 DEF ValueInv, DisableInv, DisablePcs
<1> QED
  BY <1>1, Safety, ReportInit, SwitchedOffStep, PTL DEF Spec

=============================================================================

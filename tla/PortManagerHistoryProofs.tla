----------------------- MODULE PortManagerHistoryProofs -----------------------
(***************************************************************************)
(* Proof that the cached type of a port in use is dropped only after its   *)
(* loss was reported, for any number of ports and applications.            *)
(***************************************************************************)
EXTENDS PortManagerHistory, PortManagerProofs

\* The integrity thread is past the report of its port and has not dropped the
\* type yet: the report is on record.
ReportedInv == ipc = "commit" => iport \in lossSent

-----------------------------------------------------------------------------
\* The integrity thread comes to the place where it drops the type only by the
\* report, and waits there on the same port.
LEMMA CommitAfterSend ==
  ASSUME Next, ipc' = "commit"
  PROVE  ipc \in {"send", "commit"} /\ iport' = iport
<1> USE DEF portVars, mutexVars, mainVars, integrityVars, ueventVars, kernelVars,
        boundVars
<1>1. CASE Requests \/ Main \/ MainLock
  <2>1. CASE Requests
    BY <2>1 DEF Requests, SetProtectionLevel, EnumerateRequest, CreateCallback,
                HandleAppExit, Request
  <2>2. CASE Main
    BY <2>2 DEF Main, Respond, CallBackAdd, EnableEntry, EnableCached, EnableHit,
                EnableSetType, EnableSetDesired, EnableCheck, DisableEntry,
                DisableSetOff, DisableCheck, EnumerateRead, EnableUnchanged,
                EnumerateUnchanged
  <2>3. CASE MainLock
    BY <2>3 DEF MainLock, CallBackLock, EnableLock, DisableLock, EnumerateLock,
                EnableUnchanged, EnumerateUnchanged
  <2> QED
    BY <1>1, <2>1, <2>2, <2>3
<1>2. CASE Integrity \/ IntegrityLock \/ IntegrityReportLock
  BY <1>2 DEF Integrity, IntegrityWake, IntegrityCheck, IntegrityCommit,
              IntegritySend, IntegrityLock, IntegrityReportLock, IntegritySkip,
              IntegrityNextPort
<1>3. CASE UEvent \/ UEventLock \/ UEventReportLock
  BY <1>3 DEF UEvent, UEventReceive, UEventCheck, UEventCommit, UEventSend,
              UEventLock, UEventReportLock, UEventUnchanged
<1>4. CASE Kernel
  BY <1>4 DEF Kernel, KernelAuthenticate, KernelLinkLoss, KernelPlug,
              KernelUnchanged
<1> QED
  BY <1>1, <1>2, <1>3, <1>4 DEF Next

\* While the integrity thread is between the report and the drop, EnablePort
\* cannot succeed for the port: it would be in a section of the same mutex.
LEMMA ReportedStep ==
  ASSUME TypeInv, LockInv, ReportedInv, Next, LossSentNext
  PROVE  ReportedInv'
<1> SUFFICES ASSUME ipc' = "commit" PROVE iport' \in lossSent'
  BY DEF ReportedInv
<1>1. ipc \in {"send", "commit"} /\ iport' = iport /\ iport \in Ports
  BY CommitAfterSend DEF TypeInv, TypeOK
<1>2. ~Enabled(iport)
  <2> SUFFICES ASSUME Enabled(iport) PROVE FALSE
    OBVIOUS
  <2>1. InCpType("main", iport) /\ InCpType("integrity", iport)
    BY <1>1 DEF Enabled, InCpType
  <2>2. cpTypeMutex[iport] = "main" /\ cpTypeMutex[iport] = "integrity"
    BY <1>1, <2>1 DEF LockInv, Threads
  <2> QED
    BY <2>2
<1>3. iport \in lossSent \/ LossSent(iport)
  BY <1>1 DEF ReportedInv, LossSent
<1> QED
  BY <1>1, <1>2, <1>3 DEF LossSentNext

\* Only two places clear a cached type: DisablePort, which has just found that
\* nobody uses the port, and the integrity thread after its report.
LEMMA ClearedBy ==
  ASSUME TypeInv, ValueInv, Next, NEW p \in Ports,
         cpType[p] # CP_TYPE_INVALID, cpType'[p] = CP_TYPE_INVALID
  PROVE  appIds[p] = {} \/ (ipc = "commit" /\ iport = p)
<1> USE DEF portVars, mutexVars, mainVars, integrityVars, ueventVars, kernelVars,
        boundVars, TypeInv, TypeOK
<1>1. CASE DisableCheck
  <2>1. cpType' = [cpType EXCEPT ![mport] = CP_TYPE_INVALID]
    BY <1>1 DEF DisableCheck, TypeCleared
  <2>2. mport = p
    BY <2>1
  <2> QED
    BY <1>1, <2>2 DEF DisableCheck, ValueInv, DisableInv, DisablePcs
<1>2. CASE IntegrityCommit
  BY <1>2 DEF IntegrityCommit, TypeCleared
<1>3. CASE EnableCheck
  <2>1. \/ UNCHANGED cpType
        \/ cpType' = [cpType EXCEPT ![mport] = EnabledType(mport)]
    BY <1>3 DEF EnableCheck
  <2>2. mport \in Ports
    BY <1>3 DEF EnableCheck, MainArgs, EnablePcs
  <2>3. EnabledType(mport) # CP_TYPE_INVALID
    BY <2>2 DEF EnabledType, CP_TYPE_0, CP_TYPE_1, CP_TYPE_INVALID
  <2> QED
    BY <2>1, <2>2, <2>3
<1>4. CASE Requests
  BY <1>4 DEF Requests, SetProtectionLevel, EnumerateRequest, CreateCallback,
              HandleAppExit, Request
<1>5. CASE Main /\ ~DisableCheck /\ ~EnableCheck
  BY <1>5 DEF Main, Respond, CallBackAdd, EnableEntry, EnableCached, EnableHit,
              EnableSetType, EnableSetDesired, DisableEntry, DisableSetOff,
              EnumerateRead, EnumerateUnchanged
<1>6. CASE MainLock
  BY <1>6 DEF MainLock, CallBackLock, EnableLock, DisableLock, EnumerateLock,
              EnumerateUnchanged
<1>7. CASE (Integrity /\ ~IntegrityCommit) \/ IntegrityLock \/ IntegrityReportLock
  BY <1>7 DEF Integrity, IntegrityWake, IntegrityCheck, IntegritySend,
              IntegrityLock, IntegrityReportLock
<1>8. CASE UEvent \/ UEventLock \/ UEventReportLock
  BY <1>8 DEF UEvent, UEventReceive, UEventCheck, UEventCommit, UEventSend,
              UEventLock, UEventReportLock, UEventUnchanged
<1>9. CASE Kernel
  BY <1>9 DEF Kernel, KernelAuthenticate, KernelLinkLoss, KernelPlug,
              KernelUnchanged
<1> QED
  BY <1>1, <1>2, <1>3, <1>4, <1>5, <1>6, <1>7, <1>8, <1>9 DEF Next

\* The cached type of a port that an application uses is dropped only after
\* LINK_LOST was reported for it since it was last enabled; DisablePort for one
\* application never drops it under another.
THEOREM NoSilentLossCorrect == HistorySpec => NoSilentLoss
<1>1. HistorySpec => Spec
  <2>1. [Next /\ LossSentNext]_hvars => [Next]_vars
    BY DEF hvars
  <2> QED
    BY <2>1, PTL DEF HistorySpec, Spec
<1>2. Init => ReportedInv
  BY DEF Init, ReportedInv
<1>3. TypeInv /\ LockInv /\ ReportedInv /\ [Next /\ LossSentNext]_hvars
         => ReportedInv'
  <2>1. CASE UNCHANGED hvars
    BY <2>1 DEF hvars, vars, integrityVars, ReportedInv
  <2> QED
    BY <2>1, ReportedStep
<1>4. TypeInv /\ ValueInv /\ ReportedInv /\ [Next /\ LossSentNext]_hvars =>
        [\A p \in Ports :
            cpType[p] # CP_TYPE_INVALID /\ cpType'[p] = CP_TYPE_INVALID
                => appIds[p] = {} \/ p \in lossSent]_hvars
  BY ClearedBy DEF ReportedInv
<1> QED
  BY <1>1, <1>2, <1>3, <1>4, Safety, PTL DEF HistorySpec, NoSilentLoss

=============================================================================

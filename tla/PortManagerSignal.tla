-------------------------- MODULE PortManagerSignal --------------------------
(***************************************************************************)
(* SIGTERM and SIGINT: SigCatcher disables every port and exits.  The      *)
(* handler runs on the main thread, to which the kernel gives a signal of  *)
(* the process as long as that thread does not block it: main stays where  *)
(* it was, with the mutexes it holds, while the other threads go on.       *)
(*                                                                         *)
(* The application id 0 that DisableAllPorts counts on a port in place of  *)
(* its users is no application: appIds is empty meanwhile.                 *)
(***************************************************************************)
EXTENDS PortManager

VARIABLES
    hpc, hport,     \* the handler and the port of its loop
    skipped         \* history: ports it found disconnected

handlerVars == <<hpc, hport, skipped>>
signalVars == <<vars, handlerVars>>

HandlerPcs == {"none", "entry", "setOff", "lock", "check", "exited"}

SignalInit == Init /\ hpc = "none" /\ hport = 0 /\ skipped = {}

-----------------------------------------------------------------------------
HandlerUnchanged == UNCHANGED <<connection, connMutex, callBackMutex, callbacks,
    mainVars, integrityVars, ueventVars, kConn, uevents, kEvents>>

\* SigCatcher is called, and calls DisableAllPorts.
SigCatcher ==
    /\ hpc = "none"
    /\ hpc' = "entry"
    /\ UNCHANGED <<vars, hport, skipped>>

\* Mutant: the loop of DisableAllPorts does not end.
HandlerWraps == hpc' = "entry" /\ hport' = (hport + 1) % NumPorts

\* On to the next port, or to exit(SUCCESS).
HandlerNextPort ==
    IF hport + 1 < NumPorts
    THEN hpc' = "entry" /\ hport' = hport + 1
    ELSE hpc' = "exited" /\ hport' = hport

\* Mutant: ClearRefAppId is left out.
UsersKept(p) == appIds[p]

\* The users of a port after ClearRefAppId, AddRefAppId(0), RemoveRefAppId(0).
UsersCleared(p) == {}

\* The head of DisablePort, for application 0.
HandlerEntry ==
    /\ hpc = "entry"
    /\ appIds' = [appIds EXCEPT ![hport] = UsersCleared(hport)]
    /\ \/ /\ connection[hport] = "disconnected"
          /\ skipped' = skipped \cup {hport}
          /\ HandlerNextPort
       \/ /\ connection[hport] # "disconnected"
          /\ IF StillUsed(appIds'[hport])
             THEN HandlerNextPort ELSE hpc' = "setOff" /\ UNCHANGED hport
          /\ UNCHANGED skipped
    /\ HandlerUnchanged
    /\ UNCHANGED <<cpType, cpTypeMutex, kValue, kType, master, faults>>

HandlerSetOff ==
    /\ hpc = "setOff"
    /\ \/ /\ SetPortOk(hport, CP_OFF, kType[hport])
          /\ hpc' = "lock" /\ UNCHANGED hport
       \/ /\ SetPortError(hport, CP_OFF, kType[hport])
          /\ HandlerNextPort
    /\ HandlerUnchanged
    /\ UNCHANGED <<cpType, appIds, cpTypeMutex, skipped>>

\* The mutex is an ordinary one: its owner waits for it for ever, too.
HandlerLock ==
    /\ hpc = "lock" /\ CanLock(cpTypeMutex[hport])
    /\ cpTypeMutex' = [cpTypeMutex EXCEPT ![hport] = "main"]
    /\ hpc' = "check"
    /\ HandlerUnchanged
    /\ UNCHANGED <<cpType, appIds, kValue, kType, master, faults, hport, skipped>>

HandlerCheck ==
    /\ hpc = "check"
    /\ cpTypeMutex' = [cpTypeMutex EXCEPT ![hport] = Free]
    /\ \/ /\ kValue[hport] = CP_OFF
          /\ cpType' = TypeCleared(hport)
          /\ UNCHANGED faults
       \/ /\ \/ kValue[hport] # CP_OFF /\ UNCHANGED faults
             \/ Fault
          /\ UNCHANGED cpType
    /\ HandlerNextPort
    /\ HandlerUnchanged
    /\ UNCHANGED <<appIds, kValue, kType, master, skipped>>

Handler == HandlerEntry \/ HandlerSetOff \/ HandlerCheck

-----------------------------------------------------------------------------
MainRuns == hpc = "none" /\ UNCHANGED handlerVars
OthersRun == hpc # "exited" /\ UNCHANGED handlerVars

SignalNext ==
    \/ SigCatcher \/ Handler \/ HandlerLock
    \/ MainRuns /\ (Requests \/ Main \/ MainLock)
    \/ OthersRun /\ (Integrity \/ IntegrityLock \/ IntegrityReportLock)
    \/ OthersRun /\ (UEvent \/ UEventLock \/ UEventReportLock)
    \/ OthersRun /\ Kernel

SignalSpec == SignalInit /\ [][SignalNext]_signalVars

\* The fairness of PortManager for the steps that the handler may have to wait
\* for, and the handler's.  Nothing is needed of main, which it interrupts.
SignalFairness ==
    /\ WF_signalVars(Handler) /\ SF_signalVars(HandlerLock)
    /\ WF_signalVars(OthersRun /\ Integrity)
    /\ SF_signalVars(OthersRun /\ IntegrityReportLock)
    /\ WF_signalVars(OthersRun /\ UEvent)

SignalFairSpec == SignalSpec /\ SignalFairness

-----------------------------------------------------------------------------
(***************************************************************************)
(* Properties                                                              *)
(***************************************************************************)

\* When the daemon exits, every port that SigCatcher did not take to be
\* disconnected is off in the kernel, whatever main was doing and whatever the
\* other threads and the kernel did during the handler, unless a call failed.
OffAtExit ==
    hpc = "exited" /\ faults = 0 =>
        \A p \in Ports : kValue[p] = CP_OFF \/ p \in skipped

\* SIGTERM ends the daemon, unless it interrupts main in one of the three
\* places where main holds a mutex the handler has to wait for: a port's type
\* mutex, or the callback mutex, for which the integrity thread may be waiting
\* with a port's type mutex.
SignalEndsDaemon ==
    hpc = "entry" /\ mpc \notin {"enableCheck", "disableCheck", "cbAdd"}
        ~> hpc = "exited"

(***************************************************************************)
(* What the documentation promises and the code does not keep.             *)
(***************************************************************************)

\* The comment where the handler is installed: it is there to destroy all
\* enabled ports.  So every signal ends with each port off or found
\* disconnected.
SignalDestroysPorts ==
    hpc = "entry" ~> \A p \in Ports : kValue[p] = CP_OFF \/ p \in skipped

=============================================================================

------------------------------ MODULE Lifecycle ------------------------------
(***************************************************************************)
(* How the daemon starts and stops: main.cpp, the constructor and the      *)
(* destructor of PortManager with the two threads they create and join,    *)
(* and the SIGTERM handlers of LocalServerSocket and of PortManager, of    *)
(* which the second takes the place of the first during the start.         *)
(*                                                                         *)
(* What the threads do with the ports is PortManager's; what the second    *)
(* handler does with the ports is PortManagerSignal's.  Here it is main in *)
(* "disable", or in "stuck" when it waits for itself.                      *)
(***************************************************************************)
EXTENDS Integers, FiniteSets

CONSTANT MaxFaults      \* bound: library and system calls that fail

ASSUME FaultsAssumption == MaxFaults \in Nat

VARIABLES
    mpc,        \* main
    ipc, upc,   \* the integrity and the uevent thread
    arrived,    \* threads that have reached createThreadBarrier
    portMgr,    \* "null", "live", or "freed": its DrmObjects are deleted
    destroy,    \* isDestroyThreads
    pending,    \* a uevent is in the netlink socket
    handler,    \* what SIGTERM does: "default", "flag", "catcher"
    kill,       \* m_ReceivedKillSignal
    term,       \* SIGTERM was sent
    faults      \* bounded counter

vars == <<mpc, ipc, upc, arrived, portMgr, destroy, pending, handler, kill,
          term, faults>>

Threads == {"main", "integrity", "uevent"}

\* The daemon is gone.  "crashed": pthread_join of a thread that was never
\* created, whose pthread_t is the static zero.
Gone == {"ended", "exited", "crashed"}

Init ==
    /\ mpc = "prepare" /\ ipc = "none" /\ upc = "none"
    /\ arrived = {} /\ portMgr = "null" /\ destroy = FALSE /\ pending = FALSE
    /\ handler = "default" /\ kill = FALSE /\ term = FALSE /\ faults = 0

Fault == faults < MaxFaults /\ faults' = faults + 1

\* Main goes on, or a call fails and it goes elsewhere.
Step(pc, next, onError) ==
    /\ mpc = pc
    /\ \/ mpc' = next /\ UNCHANGED faults
       \/ mpc' = onError /\ Fault

-----------------------------------------------------------------------------
(***************************************************************************)
(* main: the start                                                         *)
(***************************************************************************)

\* AlreadyRunning, daemon_init and InitializeDirectory; a failure ends main.
Prepare ==
    /\ Step("prepare", "daemon", "ended")
    /\ UNCHANGED <<ipc, upc, arrived, portMgr, destroy, pending, handler, kill, term>>

\* The HdcpDaemon and its LocalServerSocket, which catches SIGTERM.
ConstructDaemon ==
    /\ mpc = "daemon" /\ mpc' = "srm"
    /\ handler' = "flag"
    /\ UNCHANGED <<ipc, upc, arrived, portMgr, destroy, pending, kill, term, faults>>

\* SrmInit.
InitSrm ==
    /\ Step("srm", "drm", "released")
    /\ UNCHANGED <<ipc, upc, arrived, portMgr, destroy, pending, handler, kill, term>>

\* The PortManager constructor: drmOpen, InitDrmObjects, the barrier for three.
\* An error leaves the constructor, PortManagerInit stores the pointer, finds
\* the object invalid and deletes it.
OpenDrm ==
    /\ Step("drm", "createIntegrity", "delete")
    /\ portMgr' = IF mpc' = "delete" THEN "live" ELSE portMgr
    /\ UNCHANGED <<ipc, upc, arrived, destroy, pending, handler, kill, term>>

CreateIntegrityThread ==
    /\ Step("createIntegrity", "createUEvent", "delete")
    /\ ipc' = IF mpc' = "delete" THEN ipc ELSE "barrier"
    /\ portMgr' = IF mpc' = "delete" THEN "live" ELSE portMgr
    /\ UNCHANGED <<upc, arrived, destroy, pending, handler, kill, term>>

CreateUEventThread ==
    /\ Step("createUEvent", "sigaction", "delete")
    /\ upc' = IF mpc' = "delete" THEN upc ELSE "barrier"
    /\ portMgr' = IF mpc' = "delete" THEN "live" ELSE portMgr
    /\ UNCHANGED <<ipc, arrived, destroy, pending, handler, kill, term>>

\* The constructor ends with another handler for SIGTERM.
InstallSigCatcher ==
    /\ mpc = "sigaction" /\ mpc' = "publish"
    /\ handler' = "catcher"
    /\ UNCHANGED <<ipc, upc, arrived, portMgr, destroy, pending, kill, term, faults>>

\* portMgr = new PortManager.
PublishPortManager ==
    /\ mpc = "publish" /\ mpc' = "barrier"
    /\ portMgr' = "live"
    /\ UNCHANGED <<ipc, upc, arrived, destroy, pending, handler, kill, term, faults>>

\* Mutant: the barrier counts one thread too many.
BarrierOpenForFour == Cardinality(arrived) >= 4

\* createThreadBarrier, initialised for three, lets everyone go.
BarrierOpen == Cardinality(arrived) >= 3

BarrierArrive(t) ==
    /\ t \notin arrived
    /\ \/ t = "main" /\ mpc = "barrier"
       \/ t = "integrity" /\ ipc = "barrier"
       \/ t = "uevent" /\ upc = "barrier"
    /\ arrived' = arrived \cup {t}
    /\ UNCHANGED <<mpc, ipc, upc, portMgr, destroy, pending, handler, kill, term,
                   faults>>

BarrierMain ==
    /\ mpc = "barrier" /\ "main" \in arrived /\ BarrierOpen
    /\ mpc' = "listen"
    /\ UNCHANGED <<ipc, upc, arrived, portMgr, destroy, pending, handler, kill,
                   term, faults>>

\* HdcpDaemon::Init binds and listens; IsValid.
Listen ==
    /\ Step("listen", "loop", "delete")
    /\ UNCHANGED <<ipc, upc, arrived, portMgr, destroy, pending, handler, kill, term>>

\* MessageResponseLoop returns when PollForEvent finds the flag.
LoopCancelled ==
    /\ mpc = "loop" /\ kill
    /\ mpc' = "delete"
    /\ UNCHANGED <<ipc, upc, arrived, portMgr, destroy, pending, handler, kill,
                   term, faults>>

-----------------------------------------------------------------------------
(***************************************************************************)
(* main: the destructor of PortManager and the end                         *)
(***************************************************************************)

\* drmClose; isDestroyThreads = true.
DestroyThreads ==
    /\ mpc = "delete" /\ mpc' = "joinIntegrity"
    /\ destroy' = TRUE
    /\ UNCHANGED <<ipc, upc, arrived, portMgr, pending, handler, kill, term, faults>>

\* pthread_join: of a thread that was not created, undefined.
Join(pc, thread, next) ==
    /\ mpc = pc
    /\ \/ thread = "ended" /\ mpc' = next
       \/ thread = "none" /\ mpc' \in {next, "crashed"}

JoinIntegrity ==
    /\ Join("joinIntegrity", ipc, "kill")
    /\ UNCHANGED <<ipc, upc, arrived, portMgr, destroy, pending, handler, kill,
                   term, faults>>

\* Where recv returns to when SIGUSR1 interrupts it: the loop continues before
\* it looks at isDestroyThreads.
AfterInterrupt == "recv"

\* pthread_kill, three times.  Outside recv the signal does nothing.
KillUEventThread ==
    /\ mpc = "kill"
    /\ \/ mpc' = "joinUEvent"
       \/ upc = "none" /\ mpc' = "crashed"
    /\ upc' = IF upc = "recv" THEN AfterInterrupt ELSE upc
    /\ UNCHANGED <<ipc, arrived, portMgr, destroy, pending, handler, kill, term, faults>>

\* Mutant: the uevent thread is not joined.
JoinNobody ==
    /\ mpc = "joinUEvent" /\ mpc' = "free"
    /\ UNCHANGED <<ipc, upc, arrived, portMgr, destroy, pending, handler, kill,
                   term, faults>>

JoinUEvent ==
    /\ Join("joinUEvent", upc, "free")
    /\ UNCHANGED <<ipc, upc, arrived, portMgr, destroy, pending, handler, kill,
                   term, faults>>

FreeDrmObjects ==
    /\ mpc = "free" /\ mpc' = "null"
    /\ portMgr' = "freed"
    /\ UNCHANGED <<ipc, upc, arrived, destroy, pending, handler, kill, term, faults>>

ClearPortManager ==
    /\ mpc = "null" /\ mpc' = "released"
    /\ portMgr' = "null"
    /\ UNCHANGED <<ipc, upc, arrived, destroy, pending, handler, kill, term, faults>>

\* SrmRelease, ~HdcpDaemon, return from main.
End ==
    /\ mpc = "released" /\ mpc' = "ended"
    /\ UNCHANGED <<ipc, upc, arrived, portMgr, destroy, pending, handler, kill,
                   term, faults>>

-----------------------------------------------------------------------------
(***************************************************************************)
(* The threads                                                             *)
(***************************************************************************)
ThreadUnchanged == UNCHANGED <<mpc, arrived, portMgr, destroy, handler, kill, term>>

IntegrityStart ==
    /\ ipc = "barrier" /\ "integrity" \in arrived /\ BarrierOpen
    /\ ipc' = "test"
    /\ ThreadUnchanged /\ UNCHANGED <<upc, pending, faults>>

\* Mutant: the thread does not look at isDestroyThreads.
NextRoundAlways == "work"

\* Another round of CheckIntegrity, or the end of the thread.
NextRound == IF destroy THEN "ended" ELSE "work"

IntegrityTest ==
    /\ ipc = "test" /\ ipc' = NextRound
    /\ ThreadUnchanged /\ UNCHANGED <<upc, pending, faults>>

\* CheckIntegrity and the sleep.
IntegrityWork ==
    /\ ipc = "work" /\ ipc' = "test"
    /\ ThreadUnchanged /\ UNCHANGED <<upc, pending, faults>>

UEventStart ==
    /\ upc = "barrier" /\ "uevent" \in arrived /\ BarrierOpen
    /\ upc' = "socket"
    /\ ThreadUnchanged /\ UNCHANGED <<ipc, pending, faults>>

\* socket, setsockopt and bind; an error ends the thread.
UEventSocket ==
    /\ upc = "socket"
    /\ \/ upc' = "recv" /\ UNCHANGED faults
       \/ upc' = "ended" /\ Fault
    /\ ThreadUnchanged /\ UNCHANGED <<ipc, pending>>

\* A uevent is received; the flag is tested, then hotplugs are told from other
\* uevents.
UEventReceive ==
    /\ upc = "recv" /\ pending
    /\ pending' = FALSE
    /\ upc' \in (IF destroy THEN {"ended"} ELSE {"work", "recv"})
    /\ ThreadUnchanged /\ UNCHANGED <<ipc, faults>>

\* ProcessHotPlug.
UEventWork ==
    /\ upc = "work" /\ upc' = "recv"
    /\ ThreadUnchanged /\ UNCHANGED <<ipc, pending, faults>>

-----------------------------------------------------------------------------
(***************************************************************************)
(* The kernel and the user                                                 *)
(***************************************************************************)

\* A uevent of any kind reaches the bound socket.
UEventArrives ==
    /\ upc \in {"recv", "work"} /\ ~pending
    /\ pending' = TRUE
    /\ ThreadUnchanged /\ UNCHANGED <<ipc, upc, faults>>

\* Where PortManager::SigCatcher finds itself.  Without a port manager it exits.
\* Otherwise DisableAllPorts takes the mutex of every port: main, which it has
\* interrupted, may hold one of them in the middle of a request, or hold the
\* callback mutex the thread that has it waits for.  What it does with the
\* ports the destructor has just freed is undefined.
CaughtAt ==
    CASE portMgr = "null"  -> {"exited"}
      [] portMgr = "live"  -> {"disable"} \cup (IF mpc = "loop" THEN {"stuck"} ELSE {})
      [] portMgr = "freed" -> {"exited", "crashed", "stuck"}

\* SIGTERM, once: the default action, LocalServerSocket::SigCatcher, or
\* PortManager::SigCatcher, on the main thread.
Terminate ==
    /\ ~term
    /\ term' = TRUE
    /\ kill' = (kill \/ handler = "flag")
    /\ \/ handler = "default" /\ mpc' = "exited"
       \/ handler = "flag" /\ mpc' = mpc
       \/ handler = "catcher" /\ mpc' \in CaughtAt
    /\ UNCHANGED <<ipc, upc, arrived, portMgr, destroy, pending, handler, faults>>

\* The catcher has disabled every port; exit(SUCCESS).
CatcherExits ==
    /\ mpc = "disable" /\ mpc' = "exited"
    /\ UNCHANGED <<ipc, upc, arrived, portMgr, destroy, pending, handler, kill,
                   term, faults>>

-----------------------------------------------------------------------------
Main ==
    \/ Prepare \/ ConstructDaemon \/ InitSrm \/ OpenDrm
    \/ CreateIntegrityThread \/ CreateUEventThread \/ InstallSigCatcher
    \/ PublishPortManager \/ BarrierArrive("main") \/ BarrierMain \/ Listen
    \/ LoopCancelled
    \/ DestroyThreads \/ JoinIntegrity \/ KillUEventThread \/ JoinUEvent
    \/ FreeDrmObjects \/ ClearPortManager \/ End \/ CatcherExits

Integrity ==
    BarrierArrive("integrity") \/ IntegrityStart \/ IntegrityTest \/ IntegrityWork

UEvent ==
    BarrierArrive("uevent") \/ UEventStart \/ UEventSocket \/ UEventReceive
        \/ UEventWork

\* The process is there as long as main is.
Next == mpc \notin Gone /\ (Main \/ Integrity \/ UEvent \/ UEventArrives \/ Terminate)

Spec == Init /\ [][Next]_vars

\* The threads of a running process run.  Nothing is assumed of uevents and of
\* the signal.
Running == mpc \notin Gone
Fairness ==
    /\ WF_vars(Running /\ Main)
    /\ WF_vars(Running /\ Integrity)
    /\ WF_vars(Running /\ UEvent)

FairSpec == Spec /\ Fairness

-----------------------------------------------------------------------------
(***************************************************************************)
(* Properties                                                              *)
(***************************************************************************)

\* The barrier and the joins keep the two threads inside the life of the port
\* manager: neither uses portMgr before main has stored the pointer, nor the
\* ports after the destructor has freed them.
ThreadsUseLivePorts ==
    mpc \notin Gone /\ (ipc = "work" \/ upc = "work") => portMgr = "live"

\* The destructor waits for an integrity thread that waits at the barrier for a
\* uevent thread that could not be created.
HungAtBarrier == mpc = "joinIntegrity" /\ ipc = "barrier" /\ upc = "none"

\* The catcher waits for a mutex that the main thread it interrupted holds.
HungInCatcher == mpc = "stuck"

\* The destructor waits for the uevent thread, which waits in recv for a uevent
\* before it looks at isDestroyThreads.
WaitsForUEvent == mpc = "joinUEvent" /\ upc = "recv" /\ ~pending

\* Every start comes to an end: the daemon serves requests, or it is gone, or
\* it hangs in one of the ways above or is being deleted after a failure.
StartSettles ==
    mpc = "prepare" ~> \/ mpc \in Gone \cup {"loop"}
                       \/ HungAtBarrier \/ HungInCatcher \/ mpc = "joinUEvent"

\* After SIGTERM, before as after the second handler is installed, the daemon
\* ends, or it is for ever in one of three waits: for itself in the catcher
\* that interrupted a request, for a third thread at the barrier, for a uevent.
TermEndsDaemon ==
    <>term => \/ <>(mpc \in Gone)
              \/ <>[]HungInCatcher \/ <>[]HungAtBarrier \/ <>[]WaitsForUEvent

=============================================================================

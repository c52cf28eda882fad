--------------------------- MODULE LifecycleProofs ---------------------------
(***************************************************************************)
(* Proof that the barrier and the joins keep the two threads inside the    *)
(* life of the port manager, for any number of failing calls.              *)
(***************************************************************************)
EXTENDS Lifecycle, TLAPS, FiniteSetTheorems

\* Where main has not yet reached the barrier.
BeforeBarrier == {"prepare", "daemon", "srm", "drm", "createIntegrity",
                  "createUEvent", "sigaction", "publish"}

\* Where the port manager is published and not yet freed.
Published == {"barrier", "listen", "loop", "delete", "joinIntegrity", "kill",
              "joinUEvent", "free", "disable"}

\* After the join of the integrity thread, and after that of the uevent thread.
IntegrityJoined == {"kill", "joinUEvent", "free", "null", "released"}
UEventJoined == {"free", "null", "released"}

MainPlaces == BeforeBarrier \cup Published \cup IntegrityJoined \cup Gone \cup {"stuck"}

\* The thread is not there: it was never created, or it has ended.
Absent(thread) == thread \in {"none", "ended"}

\* The thread has gone through the barrier.
Started(thread) == thread \notin {"none", "barrier"}

\* Main arrives at the barrier only with the pointer stored.
MainArrives == "main" \in arrived /\ mpc \notin Gone => mpc \notin BeforeBarrier

\* A thread that was let go was let go with all three at the barrier.
StartedTogether ==
    /\ arrived \subseteq Threads
    /\ Started(ipc) \/ Started(upc) => arrived = Threads

\* A thread that was joined is not there any more.
JoinedAreAbsent ==
    /\ mpc \in IntegrityJoined => Absent(ipc)
    /\ mpc \in UEventJoined => Absent(upc)

\* Before a thread is created there is none, so an early end joins nothing.
NotYetCreated ==
    /\ mpc \in {"prepare", "daemon", "srm", "drm", "createIntegrity"} => ipc = "none"
    /\ mpc \in {"prepare", "daemon", "srm", "drm", "createIntegrity",
                "createUEvent"} => upc = "none"

\* The catcher waits for itself in the middle of a request, or after the joins.
StuckWithPorts ==
    mpc = "stuck" => portMgr = "live" \/ (Absent(ipc) /\ Absent(upc))

\* The ports are freed only between the joins and the end of the destructor.
FreedAfterJoins ==
    /\ portMgr \in {"null", "live", "freed"}
    /\ portMgr = "freed" => /\ mpc \in {"null", "stuck"} \cup Gone
                            /\ Absent(ipc) /\ Absent(upc)

LifeInv ==
    /\ mpc \in MainPlaces
    /\ mpc \in Published => portMgr = "live"
    /\ StuckWithPorts /\ FreedAfterJoins
    /\ MainArrives /\ StartedTogether /\ JoinedAreAbsent /\ NotYetCreated

-----------------------------------------------------------------------------
\* The barrier was initialised for three, and there are three to arrive: it
\* opens only when every one of them has.
LEMMA BarrierNeedsAll ==
  ASSUME arrived \subseteq Threads, BarrierOpen
  PROVE  arrived = Threads
<1>1. IsFiniteSet({"main"}) /\ Cardinality({"main"}) = 1
  BY FS_Singleton
<1>2. /\ IsFiniteSet({"main"} \cup {"integrity"})
      /\ Cardinality({"main"} \cup {"integrity"}) = 2
  BY <1>1, FS_AddElement
<1>3. /\ IsFiniteSet(({"main"} \cup {"integrity"}) \cup {"uevent"})
      /\ Cardinality(({"main"} \cup {"integrity"}) \cup {"uevent"}) = 3
  BY <1>2, FS_AddElement
<1>4. Threads = ({"main"} \cup {"integrity"}) \cup {"uevent"}
  BY DEF Threads
<1>5. IsFiniteSet(Threads) /\ Cardinality(Threads) = 3
  BY <1>3, <1>4
<1>6. /\ IsFiniteSet(arrived) /\ Cardinality(arrived) <= 3
      /\ Cardinality(Threads) = Cardinality(arrived) => Threads = arrived
  BY <1>5, FS_Subset
<1>7. Cardinality(arrived) \in Nat
  BY <1>6, FS_CardinalityType
<1> QED
  BY <1>5, <1>6, <1>7 DEF BarrierOpen

\* A place where a thread works lies behind the barrier.
LEMMA LifeImplies == LifeInv => ThreadsUseLivePorts
<1> USE DEF MainPlaces, BeforeBarrier, Published, IntegrityJoined, UEventJoined,
        Absent, Started, Gone, Threads
<1> SUFFICES ASSUME LifeInv, mpc \notin Gone, ipc = "work" \/ upc = "work"
             PROVE  portMgr = "live"
  BY DEF ThreadsUseLivePorts
<1>1. "main" \in arrived
  BY DEF LifeInv, StartedTogether
<1>2. mpc \notin BeforeBarrier
  BY <1>1 DEF LifeInv, MainArrives
<1>3. mpc \notin {"null", "released"}
  BY DEF LifeInv, JoinedAreAbsent
<1> QED
  BY <1>2, <1>3 DEF LifeInv, StuckWithPorts

\* Each step of main, of the two threads, of the kernel and of the user keeps
\* main's place consistent with who has arrived, who was started, who was
\* joined, and whether the port manager is there.
LEMMA LifeStep == LifeInv /\ [Next]_vars => LifeInv'
<1> SUFFICES ASSUME LifeInv, [Next]_vars PROVE LifeInv'
  OBVIOUS
<1> USE DEF LifeInv, MainArrives, StartedTogether, JoinedAreAbsent,
        NotYetCreated, StuckWithPorts, FreedAfterJoins, MainPlaces, BeforeBarrier, Published, IntegrityJoined,
        UEventJoined, Absent, Started, Gone, Threads
<1>0. ASSUME BarrierOpen PROVE arrived = Threads
  BY <1>0, BarrierNeedsAll
<1>1. CASE Prepare
  BY <1>1 DEF Prepare, Step
<1>2. CASE ConstructDaemon
  BY <1>2 DEF ConstructDaemon
<1>3. CASE InitSrm
  BY <1>3 DEF InitSrm, Step
<1>4. CASE OpenDrm
  BY <1>4 DEF OpenDrm, Step
<1>5. CASE CreateIntegrityThread
  BY <1>5 DEF CreateIntegrityThread, Step
<1>6. CASE CreateUEventThread
  BY <1>6 DEF CreateUEventThread, Step
<1>7. CASE InstallSigCatcher
  BY <1>7 DEF InstallSigCatcher
<1>8. CASE PublishPortManager
  BY <1>8 DEF PublishPortManager
<1>9. ASSUME NEW t \in Threads, BarrierArrive(t), mpc \notin Gone PROVE LifeInv'
  BY <1>9 DEF BarrierArrive
<1>10. CASE BarrierMain
  BY <1>10 DEF BarrierMain
<1>11. CASE Listen
  BY <1>11 DEF Listen, Step
<1>12. CASE LoopCancelled
  BY <1>12 DEF LoopCancelled
<1>13. CASE DestroyThreads
  BY <1>13 DEF DestroyThreads
<1>14. CASE JoinIntegrity
  BY <1>14 DEF JoinIntegrity, Join
<1>15. CASE KillUEventThread
  BY <1>15 DEF KillUEventThread, AfterInterrupt
<1>16. CASE JoinUEvent
  BY <1>16 DEF JoinUEvent, Join
<1>17. CASE FreeDrmObjects
  BY <1>17 DEF FreeDrmObjects
<1>18. CASE ClearPortManager
  BY <1>18 DEF ClearPortManager
<1>19. CASE End
  BY <1>19 DEF End
<1>20. CASE IntegrityStart
  BY <1>20, <1>0 DEF IntegrityStart, ThreadUnchanged
<1>21. CASE IntegrityTest \/ IntegrityWork
  BY <1>21 DEF IntegrityTest, IntegrityWork, NextRound, ThreadUnchanged
<1>22. CASE UEventStart
  BY <1>22, <1>0 DEF UEventStart, ThreadUnchanged
<1>23. CASE UEventSocket \/ UEventReceive \/ UEventWork
  BY <1>23 DEF UEventSocket, UEventReceive, UEventWork, ThreadUnchanged
<1>24. CASE UEventArrives
  BY <1>24 DEF UEventArrives, ThreadUnchanged
<1>25. CASE Terminate
  BY <1>25 DEF Terminate, CaughtAt
<1>26. CASE UNCHANGED vars
  BY <1>26 DEF vars
<1>27. CASE CatcherExits
  BY <1>27 DEF CatcherExits
<1> QED
  BY <1>1, <1>2, <1>3, <1>4, <1>5, <1>6, <1>7, <1>8, <1>9, <1>10, <1>11, <1>12,
     <1>13, <1>14, <1>15, <1>16, <1>17, <1>18, <1>19, <1>20, <1>21, <1>22,
     <1>23, <1>24, <1>25, <1>26, <1>27
  DEF Next, Main, Integrity, UEvent

\* Whatever call of the start fails and whenever SIGTERM comes, neither thread
\* uses portMgr before main has stored the pointer, nor the ports after the
\* destructor has freed them.
THEOREM ThreadsCorrect == Spec => []ThreadsUseLivePorts
<1>1. Init => LifeInv
  BY DEF Init, LifeInv, MainArrives, StartedTogether, JoinedAreAbsent,
     NotYetCreated, StuckWithPorts, FreedAfterJoins, MainPlaces, BeforeBarrier, Published, IntegrityJoined,
     UEventJoined, Absent, Started, Gone, Threads
<1> QED
  BY <1>1, LifeStep, LifeImplies, PTL DEF Spec

=============================================================================

------------------------ MODULE SessionManagerProofs ------------------------
(***************************************************************************)
(* Proofs about SessionManager for any number of threads, sessions,        *)
(* reports and stops of the daemon.                                        *)
(***************************************************************************)
EXTENDS SessionManager, TLAPS, FiniteSetTheorems, FunctionTheorems,
        SequenceTheorems

\* A thread that deletes sessions, with the mutex held.
Deleting == {"delete", "wait", "unlink"}

\* A thread on its way through the list, before it has left the section.
Walking == {"find", "check", "grab", "drop", "exit"}

Walkers == {t \in Threads : pc[t] \in Walking}
Holders(s) == {t \in Threads : Holds(t, s)}

\* The callback thread is inside its round of callbacks, possibly in a call
\* that a callback makes.
InRound == pc[CallBackThread] = "walk" \/ op[CallBackThread] # "none"

Elements(seq) == {seq[i] : i \in DOMAIN seq}
Distinct(seq) == \A i, j \in DOMAIN seq : seq[i] = seq[j] => i = j

\* Which manager call and which API call a thread can be in at each place.
PlaceOf(t) ==
    /\ pc[t] \in {"none", "idle", "walk", "gone"} =>
           op[t] = "none" /\ stage[t] # "put"
    /\ pc[t] \in {"none", "walk", "gone"} => t = CallBackThread
    /\ pc[t] \in {"none", "idle"} => stage[t] = "none"
    /\ pc[t] \in {"init", "insert"} => stage[t] = "none" /\ op[t] = "create"
    /\ pc[t] = "enter" => stage[t] \in {"get", "put", "iterate"}
    /\ pc[t] = "find" => stage[t] \in {"get", "put"}
    /\ pc[t] \in {"check", "grab", "use"} => stage[t] = "get"
    /\ pc[t] = "drop" => stage[t] = "put"
    /\ pc[t] = "exit" => stage[t] \in {"get", "miss", "put", "iterate"}
    /\ pc[t] = "destroy" => stage[t] = "destroy"
    /\ pc[t] \in Deleting =>
           stage[t] \in {"get", "miss", "put", "iterate", "destroy", "teardown"}
    /\ stage[t] \in {"iterate", "teardown"} => t = CallBackThread /\ op[t] = "none"
    /\ stage[t] \in {"get", "miss"} => op[t] \in {"create", "use"}
    /\ stage[t] = "put" => op[t] \in {"created", "failed", "use"}
    /\ stage[t] = "destroy" => op[t] \in {"failed", "destroy"}
    /\ op[t] \in {"create", "created", "failed"} => t \in Clients
    /\ pc[t] \in {"check", "grab", "drop"} => cur[t] \in Handles
    /\ Holds(t, cur[t]) => cur[t] \in Handles
    /\ op[t] \notin {"none", "use"} => cur[t] \in Handles

PlaceInv ==
    /\ reports <= sent
    /\ callBackInitialized <=> pc[CallBackThread] # "none"
    /\ visit # {} => InRound
    /\ \A t \in Threads : PlaceOf(t)

\* The deleting thread owns the mutex, has something to delete, and, unless it
\* tears everything down, no thread is inside the list.
MutexInv ==
    \A t \in Threads :
        /\ iteratorMutex = t <=> pc[t] \in Deleting
        /\ work[t] # <<>> <=> pc[t] \in Deleting
        /\ pc[t] \in Deleting /\ stage[t] # "teardown" => iteratorReference = 0

\* m_IteratorReference counts the threads inside the list.
IteratorInv ==
    iteratorReference = Cardinality(Walkers) + (IF InRound THEN 1 ELSE 0)

\* m_ActiveReferences counts the users of a session.  A user that finds its
\* session gone gives nothing back.
ReferenceInv ==
    \A s \in Handles :
        /\ activeReferences[s] >= Cardinality(Holders(s))
        /\ s \in alive => activeReferences[s] = Cardinality(Holders(s))

\* Nothing of the SDK or of the application refers to the session.
Unknown(s) ==
    s \notin sessionList \cup given /\ activeReferences[s] = 0 /\ ~Queued(s)

\* Handles are given out once: a session that is not inserted yet is known to
\* nobody but its creator.
FreshInv ==
    /\ \A t \in Threads : cur[t] < handleIncrementor
    /\ \A s \in Handles : s >= handleIncrementor => Unknown(s)
    /\ \A t \in Threads : pc[t] \in {"init", "insert"} =>
        /\ Unknown(cur[t])
        /\ \A u \in Threads : cur[u] = cur[t] => u = t

\* The list holds the sessions that exist, and the one that is being unlinked.
ListInv ==
    /\ alive \subseteq sessionList
    /\ MutexFree => sessionList = alive
    /\ \A t \in Threads :
        /\ pc[t] \in {"delete", "wait"} => sessionList = alive
        /\ pc[t] = "unlink" =>
            /\ Head(work[t]) \notin alive
            /\ sessionList \subseteq alive \cup {Head(work[t])}

\* The thread is the one that may destroy the session.
Claims(t, s) ==
    cur[t] = s /\ op[t] \in {"create", "created", "failed", "destroy"}

\* A session is destroyed once: the right to do so is its creator's, the
\* application's, that of one destroying call, or the queue's.
ClaimInv ==
    /\ \A s \in Handles, t \in Threads : Claims(t, s) =>
        /\ s \notin open /\ ~Queued(s)
        /\ \A u \in Threads : Claims(u, s) => u = t
    /\ \A s \in open : ~Queued(s)
    /\ Distinct(pendingDestroyQueue)

\* While sessions are queued there is somebody who will delete them.
GarbageInv ==
    pendingDestroyQueue # <<>> =>
        \/ iteratorReference > 0
        \/ \E t \in Threads :
            pc[t] \in Deleting /\ stage[t] \notin {"destroy", "teardown"}

SessionInv ==
    /\ TypeOK /\ PlaceInv /\ MutexInv /\ IteratorInv /\ ReferenceInv
    /\ FreshInv /\ ListInv /\ ClaimInv /\ GarbageInv

\* Until the daemon stops the callback socket is connected once it was, and
\* nothing is torn down.
LinkInv ==
    stops = 0 =>
        /\ callBackLink \/ pc[CallBackThread] = "none"
        /\ \A t \in Threads : stage[t] # "teardown"

\* The thread is about to touch its session.
Touches(t) == pc[t] \in {"check", "grab"} \/ Holds(t, cur[t])

\* What the thread has still to delete exists, and no session is there twice.
WorkLives(t) ==
    /\ Distinct(work[t])
    /\ pc[t] \in {"delete", "wait"} => Elements(work[t]) \subseteq alive
    /\ pc[t] = "unlink" => \A i \in DOMAIN work[t] : i # 1 => work[t][i] \in alive

\* Everything a thread may reach exists, and no destructor was woken up.
LiveInv ==
    /\ signalled = {}
    /\ \A t \in Threads : Touches(t) => cur[t] \in alive
    /\ \A t \in Threads : WorkLives(t)
    /\ MutexFree => Elements(pendingDestroyQueue) \subseteq alive
    /\ visit \subseteq alive

QuietInv == stops = 0 => LiveInv

-----------------------------------------------------------------------------
(***************************************************************************)
(* Counting threads                                                        *)
(***************************************************************************)
\* The threads are the application's and the SDK's own: finitely many.
LEMMA ThreadsFinite == IsFiniteSet(Threads)
BY ThreadsAssumption, FS_AddElement DEF Threads

\* A set of threads has a size, which is zero only when it is empty.
LEMMA ThreadsCounted ==
  ASSUME NEW S \in SUBSET Threads
  PROVE  /\ IsFiniteSet(S) /\ Cardinality(S) \in Nat
         /\ Cardinality(S) = 0 <=> S = {}
<1>1. IsFiniteSet(S)
  BY ThreadsFinite, FS_Subset
<1> QED
  BY <1>1, FS_CardinalityType, FS_EmptySet

\* What a thread that joins or leaves a set of threads does to its size.
LEMMA ThreadsChange ==
  ASSUME NEW S \in SUBSET Threads, NEW t \in Threads
  PROVE  /\ t \notin S => Cardinality(S \cup {t}) = Cardinality(S) + 1
         /\ t \in S => Cardinality(S \ {t}) = Cardinality(S) - 1
<1>1. IsFiniteSet(S)
  BY ThreadsCounted
<1> QED
  BY <1>1, FS_AddElement, FS_RemoveElement

\* A thread inside the list is counted by m_IteratorReference, the round of the
\* callback thread too.
LEMMA WalkerCounted ==
  ASSUME TypeOK, IteratorInv
  PROVE  /\ \A t \in Threads : pc[t] \in Walking => iteratorReference > 0
         /\ InRound => iteratorReference > 0
<1>1. /\ Cardinality(Walkers) \in Nat
      /\ Cardinality(Walkers) = 0 <=> Walkers = {}
  BY ThreadsCounted DEF Walkers
<1>2. \A t \in Threads : pc[t] \in Walking => Walkers # {}
  BY DEF Walkers
<1> QED
  BY <1>1, <1>2 DEF IteratorInv

\* A thread that holds a reference is counted by m_ActiveReferences.
LEMMA HolderCounted ==
  ASSUME TypeOK, ReferenceInv, NEW t \in Threads, NEW s \in Handles, Holds(t, s)
  PROVE  activeReferences[s] > 0
<1>1. /\ Cardinality(Holders(s)) \in Nat
      /\ Cardinality(Holders(s)) = 0 <=> Holders(s) = {}
  BY ThreadsCounted DEF Holders
<1>2. Holders(s) # {}
  BY DEF Holders
<1>3. activeReferences[s] \in Nat /\ activeReferences[s] >= Cardinality(Holders(s))
  BY DEF TypeOK, ReferenceInv
<1> QED
  BY <1>1, <1>2, <1>3

\* No session is deleted while a thread is inside the list, but by the teardown.
LEMMA DeleterAlone ==
  ASSUME TypeOK, MutexInv, IteratorInv, NEW u \in Threads, pc[u] \in Deleting
  PROVE  /\ stage[u] # "teardown" =>
               ~InRound /\ \A t \in Threads : pc[t] \notin Walking
         /\ \A t \in Threads : pc[t] \in Deleting => t = u
         /\ ~MutexFree /\ work[u] # <<>>
<1>1. iteratorMutex = u /\ work[u] # <<>>
  BY DEF MutexInv
<1>2. \A t \in Threads : pc[t] \in Deleting => t = u
  BY <1>1 DEF MutexInv
<1>3. ~MutexFree
  BY <1>1, ThreadsAssumption DEF MutexFree, Threads
<1>4. stage[u] # "teardown" => iteratorReference = 0
  BY DEF MutexInv
<1> QED
  BY <1>1, <1>2, <1>3, <1>4, WalkerCounted

-----------------------------------------------------------------------------
(***************************************************************************)
(* Types and places                                                        *)
(***************************************************************************)
\* What follows an iterator section is one of six things.
LEMMA ExitCases ==
  ASSUME PlaceInv, NEW t \in Threads, AfterExit(t),
         \/ pc[t] = "exit"
         \/ pc[t] = "unlink" /\ stage[t] \notin {"destroy", "teardown"}
  PROVE  \/ /\ stage[t] = "get" /\ Goto(t, "use")
            /\ UNCHANGED <<op, stage, cur, given, open>>
         \/ stage[t] = "miss" /\ Return(t) /\ UNCHANGED <<given, open>>
         \/ /\ stage[t] = "put" /\ op[t] = "failed" /\ Goto(t, "destroy")
            /\ stage' = [stage EXCEPT ![t] = "destroy"]
            /\ UNCHANGED <<op, cur, given, open>>
         \/ /\ stage[t] = "put" /\ op[t] = "created" /\ Return(t)
            /\ given' = given \cup {cur[t]} /\ open' = open \cup {cur[t]}
         \/ /\ stage[t] = "put" /\ op[t] = "use"
            /\ Return(t) /\ UNCHANGED <<given, open>>
         \/ /\ stage[t] = "iterate" /\ Goto(t, "idle")
            /\ stage' = [stage EXCEPT ![t] = "none"]
            /\ UNCHANGED <<op, cur, given, open>>
<1>1. stage[t] \in {"get", "miss", "put", "iterate"}
  BY DEF PlaceInv, PlaceOf, Deleting
<1>2. stage[t] = "put" => op[t] \in {"created", "failed", "use"}
  BY DEF PlaceInv, PlaceOf
<1> QED
  BY <1>1, <1>2 DEF AfterExit

\* The type invariant, by the fields of the manager, of the threads and of the
\* rest.
ManagerTypes ==
    /\ handleIncrementor \in 1 .. MaxSessions + 1
    /\ callBackInitialized \in BOOLEAN
    /\ sessionList \subseteq Handles /\ alive \subseteq Handles
    /\ activeReferences \in [Handles -> Nat]
    /\ pendingDestroyQueue \in Seq(Handles)
    /\ iteratorReference \in Nat
    /\ iteratorMutex \in Threads \cup {NoThread}
ThreadTypes ==
    /\ pc \in [Threads -> PCs]
    /\ op \in [Threads -> Ops]
    /\ stage \in [Threads -> Stages]
    /\ cur \in [Threads -> Handles \cup {NoHandle}]
    /\ work \in [Threads -> Seq(Handles)]
    /\ signalled \subseteq Threads
    /\ visit \subseteq Handles
OutsideTypes ==
    /\ open \subseteq given /\ given \subseteq Handles
    /\ daemonUp \in BOOLEAN /\ callBackLink \in BOOLEAN
    /\ reports \in 0 .. MaxReports /\ sent \in 0 .. MaxReports
    /\ stops \in 0 .. MaxStops

\* The parts make up the type invariant.
LEMMA TypeParts == TypeOK <=> ManagerTypes /\ ThreadTypes /\ OutsideTypes
BY DEF TypeOK, ManagerTypes, ThreadTypes, OutsideTypes

\* No counter of the manager is decremented at zero.
LEMMA ManagerTypeStep ==
  ASSUME SessionInv, [Next]_vars
  PROVE  ManagerTypes'
<1>a. ManagerTypes
  BY TypeParts DEF SessionInv
<1>b. \A t \in Threads : pc[t] = "exit" => iteratorReference > 0
  BY WalkerCounted DEF SessionInv, Walking
<1>c. \A t \in Threads : pc[t] = "drop" =>
         cur[t] \in Handles /\ activeReferences[cur[t]] > 0
  BY HolderCounted DEF SessionInv, Holds, PlaceInv, PlaceOf
<1>d. \A t \in Threads : op[t] \notin {"none", "use"} => cur[t] \in Handles
  BY DEF SessionInv, PlaceInv, PlaceOf
<1>e. CallBackThread \in Threads /\ Clients \subseteq Threads
  BY DEF Threads
<1>f. \A t \in Threads : /\ pc[t] = "grab" => cur[t] \in Handles
                         /\ pc[t] = "insert" => cur[t] \in Handles
                         /\ pc[t] = "destroy" => cur[t] \in Handles
  BY DEF SessionInv, PlaceInv, PlaceOf
<1> USE <1>a, <1>e, SessionBoundsAssumption
    DEF ManagerTypes, createVars, listVars
<1>1. ASSUME NEW t \in Clients, HDCPCreate(t) PROVE ManagerTypes'
  <2>1. handleIncrementor' \in 1 .. MaxSessions + 1
    BY <1>1 DEF HDCPCreate, Handles
  <2> QED
    BY <1>1, <2>1 DEF HDCPCreate
<1>2. ASSUME NEW t \in Clients,
             \/ \E s \in Handles \cup {NoHandle} : HDCPUse(t, s)
             \/ \E s \in Handles : HDCPDestroy(t, s)
      PROVE  ManagerTypes'
  BY <1>2 DEF HDCPUse, HDCPDestroy
<1>3. ASSUME NEW t \in Threads, Insert(t) PROVE ManagerTypes'
  BY <1>3, <1>f DEF Insert
<1>4. ASSUME NEW t \in Threads, IteratorCriticalSectionEnter(t)
      PROVE  ManagerTypes'
  BY <1>4 DEF IteratorCriticalSectionEnter
<1>5. ASSUME NEW t \in Threads, IteratorCriticalSectionExit(t)
      PROVE  ManagerTypes'
  BY <1>5, <1>b DEF IteratorCriticalSectionExit
<1>6. ASSUME NEW t \in Threads, DestroySession(t) PROVE ManagerTypes'
  <2>1. /\ pendingDestroyQueue' \in {pendingDestroyQueue,
                                     Append(pendingDestroyQueue, cur[t])}
        /\ iteratorMutex' \in {iteratorMutex, t}
        /\ cur[t] \in Handles
    BY <1>6, <1>f DEF DestroySession
  <2>2. UNCHANGED <<handleIncrementor, callBackInitialized, sessionList, alive,
                    activeReferences, iteratorReference>>
    BY <1>6 DEF DestroySession
  <2> QED
    BY <2>1, <2>2
<1>7. ASSUME NEW t \in Threads,
             \/ InitCallBackDone(t) \/ InitCallBackOk(t) \/ InitCallBackError(t)
             \/ CreateSessionError(t) \/ Find(t) \/ CheckPending(t) \/ Transact(t)
      PROVE  ManagerTypes'
  BY <1>7 DEF InitCallBackDone, InitCallBackOk, InitCallBackError,
              CreateSessionError, Find, CheckPending, Transact
<1>8. ASSUME NEW t \in Threads, IncreaseReference(t) PROVE ManagerTypes'
  BY <1>8, <1>f DEF IncreaseReference
<1>9. ASSUME NEW t \in Threads, DecreaseReference(t) PROVE ManagerTypes'
  BY <1>9, <1>c DEF DecreaseReference
<1>10. ASSUME NEW t \in Threads, Delete(t) \/ Wakeup(t) PROVE ManagerTypes'
  BY <1>10 DEF Delete, Wakeup
<1>11. ASSUME NEW t \in Threads, Unlink(t) PROVE ManagerTypes'
  <2>1. sessionList' \subseteq sessionList
    BY <1>11 DEF Unlink
  <2>2. \/ UNCHANGED <<pendingDestroyQueue, iteratorMutex>>
        \/ iteratorMutex' = NoThread /\ pendingDestroyQueue' = QueueAfter(t)
    BY <1>11 DEF Unlink
  <2>3. UNCHANGED <<handleIncrementor, callBackInitialized, alive,
                    activeReferences, iteratorReference>>
    BY <1>11 DEF Unlink
  <2>4. QueueAfter(t) \in {pendingDestroyQueue, <<>>}
    BY DEF QueueAfter
  <2>5. <<>> \in Seq(Handles)
    OBVIOUS
  <2>6. pendingDestroyQueue' \in Seq(Handles)
    BY <2>2, <2>4, <2>5, Zenon
  <2> QED
    BY <2>1, <2>2, <2>3, <2>6
<1>12. CASE CallBackStep
  BY <1>12 DEF CallBackStep, ReceiveReport, CallBack, CallBackUses,
               CallBackDestroys, WalkDone
<1>13. CASE DestroyCallback
  BY <1>13 DEF DestroyCallback
<1>14. CASE DaemonReports \/ DaemonStops \/ DaemonRestarts
  BY <1>14 DEF DaemonReports, DaemonStops, DaemonRestarts
<1>15. CASE UNCHANGED vars
  BY <1>15 DEF vars
<1> QED
  BY <1>1, <1>2, <1>3, <1>4, <1>5, <1>6, <1>7, <1>8, <1>9, <1>10, <1>11, <1>12,
     <1>13, <1>14, <1>15 DEF Next, ClientCall, LockStep, RunStep

\* A thread that starts or ends a call of the SDK is at a place of the code.
LEMMA CallTypes ==
  ASSUME ThreadTypes, NEW t \in Threads
  PROVE  /\ Return(t) \/ (\E s \in Handles \cup {NoHandle} :
                \/ Calls(t, s, "create", "init", "none")
                \/ Calls(t, s, "use", "enter", "get")
                \/ Calls(t, s, "destroy", "destroy", "destroy")) =>
             /\ pc' \in [Threads -> PCs] /\ op' \in [Threads -> Ops]
             /\ stage' \in [Threads -> Stages]
             /\ cur' \in [Threads -> Handles \cup {NoHandle}]
<1>1. /\ {"walk", "idle", "init", "enter", "destroy"} \subseteq PCs
      /\ {"none", "create", "use", "destroy"} \subseteq Ops
      /\ {"none", "get", "destroy"} \subseteq Stages
  BY DEF PCs, Ops, Stages
<1>2. ASSUME Return(t)
      PROVE  /\ pc' \in [Threads -> PCs] /\ op' \in [Threads -> Ops]
             /\ stage' \in [Threads -> Stages]
             /\ cur' \in [Threads -> Handles \cup {NoHandle}]
  BY <1>1, <1>2 DEF ThreadTypes, Return, Goto
<1>3. ASSUME NEW s \in Handles \cup {NoHandle},
             NEW name \in Ops, NEW place \in PCs, NEW st \in Stages,
             Calls(t, s, name, place, st)
      PROVE  /\ pc' \in [Threads -> PCs] /\ op' \in [Threads -> Ops]
             /\ stage' \in [Threads -> Stages]
             /\ cur' \in [Threads -> Handles \cup {NoHandle}]
  BY <1>3 DEF ThreadTypes, Calls, Goto
<1> QED
  BY <1>1, <1>2, <1>3

\* So is one that leaves an iterator section.
LEMMA ExitTypes ==
  ASSUME ThreadTypes, PlaceInv, NEW t \in Threads, AfterExit(t),
         \/ pc[t] = "exit"
         \/ pc[t] = "unlink" /\ stage[t] \notin {"destroy", "teardown"}
  PROVE  /\ pc' \in [Threads -> PCs] /\ op' \in [Threads -> Ops]
         /\ stage' \in [Threads -> Stages]
         /\ cur' \in [Threads -> Handles \cup {NoHandle}]
<1>1. \/ Return(t)
      \/ Goto(t, "use") /\ UNCHANGED <<op, stage, cur>>
      \/ /\ Goto(t, "destroy") /\ stage' = [stage EXCEPT ![t] = "destroy"]
         /\ UNCHANGED <<op, cur>>
      \/ /\ Goto(t, "idle") /\ stage' = [stage EXCEPT ![t] = "none"]
         /\ UNCHANGED <<op, cur>>
  BY ExitCases
<1>2. /\ "use" \in PCs /\ "destroy" \in PCs /\ "idle" \in PCs
      /\ "destroy" \in Stages /\ "none" \in Stages
  BY DEF PCs, Stages
<1>3. CASE Return(t)
  BY <1>3, CallTypes
<1>4. CASE ~Return(t)
  BY <1>1, <1>2, <1>4 DEF ThreadTypes, Goto
<1> QED
  BY <1>3, <1>4

\* The sessions of the list, in the order of the list.
LEMMA OrderIsSeq ==
  ASSUME NEW S \in SUBSET Handles, NEW n \in Nat, NEW order \in [1 .. n -> S]
  PROVE  order \in Seq(Handles)
<1>1. order \in [1 .. n -> Handles]
  OBVIOUS
<1> QED
  BY <1>1, SeqDef, Zenon

\* A thread is at a place of the code, in a call, and what it is to delete is a
\* sequence of sessions.
LEMMA ThreadTypeStep ==
  ASSUME SessionInv, [Next]_vars
  PROVE  ThreadTypes'
<1>a. ThreadTypes
  BY TypeParts DEF SessionInv
<1>b. \A t \in Threads : pc[t] = "unlink" => work[t] # <<>>
  BY DEF SessionInv, MutexInv, Deleting
<1>c. \A t \in Threads : pc[t] = "destroy" => cur[t] \in Handles
  BY DEF SessionInv, PlaceInv, PlaceOf
<1>e. CallBackThread \in Threads /\ Clients \subseteq Threads
  BY DEF Threads
<1>f. sessionList \subseteq Handles /\ pendingDestroyQueue \in Seq(Handles)
  BY DEF SessionInv, TypeOK
<1>g. PlaceInv
  BY DEF SessionInv
<1>h. /\ "idle" \in PCs /\ "insert" \in PCs /\ "enter" \in PCs
      /\ "find" \in PCs /\ "check" \in PCs /\ "grab" \in PCs
      /\ "drop" \in PCs /\ "exit" \in PCs /\ "use" \in PCs
      /\ "destroy" \in PCs /\ "delete" \in PCs /\ "wait" \in PCs
      /\ "unlink" \in PCs /\ "walk" \in PCs /\ "gone" \in PCs
      /\ "none" \in Ops /\ "create" \in Ops /\ "created" \in Ops
      /\ "failed" \in Ops /\ "use" \in Ops /\ "destroy" \in Ops
      /\ "none" \in Stages /\ "get" \in Stages /\ "miss" \in Stages
      /\ "put" \in Stages /\ "destroy" \in Stages /\ "iterate" \in Stages
      /\ "teardown" \in Stages
  BY DEF PCs, Ops, Stages
<1> USE <1>a, <1>e, <1>h DEF ThreadTypes, Goto, threadVars
<1>1. ASSUME NEW t \in Clients, HDCPCreate(t) PROVE ThreadTypes'
  BY <1>1, CallTypes DEF HDCPCreate
<1>2. ASSUME NEW t \in Clients, NEW s \in Handles \cup {NoHandle}, HDCPUse(t, s)
      PROVE  ThreadTypes'
  BY <1>2, CallTypes DEF HDCPUse
<1>3. ASSUME NEW t \in Clients, NEW s \in Handles, HDCPDestroy(t, s)
      PROVE  ThreadTypes'
  BY <1>3, CallTypes DEF HDCPDestroy
<1>4. ASSUME NEW t \in Threads, Insert(t) PROVE ThreadTypes'
  BY <1>4 DEF Insert
<1>5. ASSUME NEW t \in Threads, IteratorCriticalSectionEnter(t)
      PROVE  ThreadTypes'
  BY <1>5, <1>f DEF IteratorCriticalSectionEnter
<1>6. ASSUME NEW t \in Threads, IteratorCriticalSectionExit(t)
      PROVE  ThreadTypes'
  <2>1. CASE ExitMustDelete
    BY <1>6, <1>f, <2>1 DEF IteratorCriticalSectionExit
  <2>2. CASE ~ExitMustDelete
    <3>1. pc[t] = "exit" /\ AfterExit(t)
      BY <1>6, <2>2 DEF IteratorCriticalSectionExit
    <3>2. UNCHANGED <<work, signalled, visit>>
      BY <1>6, <2>2 DEF IteratorCriticalSectionExit
    <3>3. /\ pc' \in [Threads -> PCs] /\ op' \in [Threads -> Ops]
          /\ stage' \in [Threads -> Stages]
          /\ cur' \in [Threads -> Handles \cup {NoHandle}]
      BY <1>g, <3>1, ExitTypes
    <3> QED
      BY <3>2, <3>3
  <2> QED
    BY <2>1, <2>2
<1>7. ASSUME NEW t \in Threads, DestroySession(t) PROVE ThreadTypes'
  <2>1. UNCHANGED <<signalled, visit>> /\ cur[t] \in Handles
    BY <1>7, <1>c DEF DestroySession
  <2>2. CASE Return(t) /\ UNCHANGED work
    BY <2>1, <2>2, CallTypes
  <2>3. CASE /\ work' = [work EXCEPT ![t] = <<cur[t]>>]
             /\ Goto(t, "delete") /\ UNCHANGED <<op, stage, cur>>
    <3>1. <<cur[t]>> \in Seq(Handles)
      BY <2>1
    <3> QED
      BY <2>1, <2>3, <3>1
  <2> QED
    BY <1>7, <2>2, <2>3 DEF DestroySession
<1>8. ASSUME NEW t \in Threads, InitCallBackDone(t) \/ InitCallBackError(t)
      PROVE  ThreadTypes'
  BY <1>8, CallTypes DEF InitCallBackDone, InitCallBackError
<1>9. ASSUME NEW t \in Threads, InitCallBackOk(t) PROVE ThreadTypes'
  BY <1>9 DEF InitCallBackOk
<1>10. ASSUME NEW t \in Threads, CreateSessionError(t) PROVE ThreadTypes'
  BY <1>10, CallTypes DEF CreateSessionError
<1>11. ASSUME NEW t \in Threads, Find(t) \/ CheckPending(t)
       PROVE  ThreadTypes'
  BY <1>11 DEF Find, CheckPending
<1>12. ASSUME NEW t \in Threads, Transact(t) PROVE ThreadTypes'
  BY <1>12 DEF Transact
<1>13. ASSUME NEW t \in Threads, IncreaseReference(t) \/ DecreaseReference(t)
       PROVE  ThreadTypes'
  BY <1>13 DEF IncreaseReference, DecreaseReference, Waiting
<1>14. ASSUME NEW t \in Threads, Delete(t) \/ Wakeup(t) PROVE ThreadTypes'
  BY <1>14 DEF Delete, Wakeup
<1>15. ASSUME NEW t \in Threads, Unlink(t) PROVE ThreadTypes'
  <2>1. work' \in [Threads -> Seq(Handles)] /\ UNCHANGED <<signalled, visit>>
    BY <1>15, <1>b DEF Unlink
  <2>2. CASE Tail(work[t]) # <<>>
    BY <1>15, <2>1, <2>2 DEF Unlink
  <2>3. CASE Tail(work[t]) = <<>> /\ stage[t] = "teardown"
    BY <1>15, <2>1, <2>3 DEF Unlink
  <2>4. CASE Tail(work[t]) = <<>> /\ stage[t] = "destroy"
    <3>1. Return(t)
      BY <1>15, <2>4 DEF Unlink
    <3> QED
      BY <2>1, <3>1, CallTypes
  <2>5. CASE Tail(work[t]) = <<>> /\ stage[t] \notin {"teardown", "destroy"}
    <3>1. pc[t] = "unlink" /\ AfterExit(t)
      BY <1>15, <2>5 DEF Unlink
    <3> QED
      BY <1>g, <2>1, <2>5, <3>1, ExitTypes
  <2> QED
    BY <2>2, <2>3, <2>4, <2>5
<1>16. CASE ReceiveReport \/ WalkDone
  BY <1>16 DEF ReceiveReport, WalkDone
<1>17. ASSUME NEW s \in Handles, CallBack(s) PROVE ThreadTypes'
  BY <1>17 DEF CallBack
<1>18. ASSUME NEW s \in Handles, NEW h \in Handles,
              CallBackUses(s, h) \/ CallBackDestroys(s, h)
       PROVE  ThreadTypes'
  BY <1>18, CallTypes DEF CallBackUses, CallBackDestroys
<1>19. CASE DestroyCallback
  <2>1. \A order \in [1 .. Cardinality(sessionList) -> sessionList] :
            order \in Seq(Handles)
    <3>1. IsFiniteSet(Handles)
      BY FS_Interval, SessionBoundsAssumption DEF Handles
    <3>2. IsFiniteSet(sessionList)
      BY <3>1, <1>f, FS_Subset
    <3>3. Cardinality(sessionList) \in Nat
      BY <3>2, FS_CardinalityType
    <3> QED
      BY <3>3, <1>f, OrderIsSeq
  <2>2. CASE sessionList = {}
    BY <1>19, <2>2 DEF DestroyCallback
  <2>3. CASE sessionList # {}
    BY <1>19, <2>1, <2>3 DEF DestroyCallback
  <2> QED
    BY <2>2, <2>3
<1>20. CASE DaemonReports \/ DaemonStops \/ DaemonRestarts
  BY <1>20 DEF DaemonReports, DaemonStops, DaemonRestarts
<1>21. CASE UNCHANGED vars
  BY <1>21 DEF vars
<1> QED
  BY <1>1, <1>2, <1>3, <1>4, <1>5, <1>6, <1>7, <1>8, <1>9, <1>10, <1>11, <1>12,
     <1>13, <1>14, <1>15, <1>16, <1>17, <1>18, <1>19, <1>20, <1>21
  DEF Next, ClientCall, LockStep, RunStep, CallBackStep

\* The application owns only handles it was given, and no report is received
\* that was not sent.
LEMMA OutsideTypeStep ==
  ASSUME SessionInv, [Next]_vars
  PROVE  OutsideTypes'
<1>a. OutsideTypes
  BY TypeParts DEF SessionInv
<1>b. PlaceInv /\ reports <= sent
  BY DEF SessionInv, PlaceInv, PlaceOf
<1>c. \A t \in Threads : stage[t] = "put" /\ op[t] = "created" => cur[t] \in Handles
  BY DEF SessionInv, PlaceInv, PlaceOf
<1> USE <1>a, SessionBoundsAssumption DEF OutsideTypes, clientVars, envVars
<1>1. ASSUME NEW t \in Clients,
             \/ HDCPCreate(t)
             \/ \E s \in Handles \cup {NoHandle} : HDCPUse(t, s)
             \/ \E s \in Handles : HDCPDestroy(t, s)
      PROVE  OutsideTypes'
  BY <1>1 DEF HDCPCreate, HDCPUse, HDCPDestroy
<1>2. ASSUME NEW t \in Threads,
             Insert(t) \/ IteratorCriticalSectionEnter(t) \/ DestroySession(t)
      PROVE  OutsideTypes'
  BY <1>2 DEF Insert, IteratorCriticalSectionEnter, DestroySession
<1>3. ASSUME NEW t \in Threads, AfterExit(t), UNCHANGED envVars,
             \/ pc[t] = "exit"
             \/ pc[t] = "unlink" /\ stage[t] \notin {"destroy", "teardown"}
      PROVE  OutsideTypes'
  <2>1. \/ UNCHANGED <<given, open>>
        \/ /\ cur[t] \in Handles
           /\ given' = given \cup {cur[t]} /\ open' = open \cup {cur[t]}
    BY <1>b, <1>c, <1>3, ExitCases
  <2> QED
    BY <1>3, <2>1
<1>4. ASSUME NEW t \in Threads, IteratorCriticalSectionExit(t)
      PROVE  OutsideTypes'
  BY <1>3, <1>4 DEF IteratorCriticalSectionExit
<1>5. ASSUME NEW t \in Threads,
             \/ InitCallBackDone(t) \/ InitCallBackOk(t) \/ InitCallBackError(t)
             \/ CreateSessionError(t) \/ Find(t) \/ CheckPending(t) \/ Transact(t)
             \/ IncreaseReference(t) \/ DecreaseReference(t) \/ Delete(t) \/ Wakeup(t)
      PROVE  OutsideTypes'
  BY <1>5 DEF InitCallBackDone, InitCallBackOk, InitCallBackError,
              CreateSessionError, Find, CheckPending, Transact, IncreaseReference,
              DecreaseReference, Delete, Wakeup
<1>6. ASSUME NEW t \in Threads, Unlink(t) PROVE OutsideTypes'
  <2>1. CASE AfterExit(t) /\ stage[t] \notin {"destroy", "teardown"}
    BY <1>3, <1>6, <2>1 DEF Unlink
  <2>2. CASE UNCHANGED <<given, open>>
    BY <1>6, <2>2 DEF Unlink
  <2> QED
    BY <1>6, <2>1, <2>2 DEF Unlink
<1>7. CASE CallBackStep
  BY <1>7 DEF CallBackStep, ReceiveReport, CallBack, CallBackUses,
              CallBackDestroys, WalkDone
<1>8. CASE DestroyCallback
  BY <1>8 DEF DestroyCallback
<1>9. CASE DaemonReports \/ DaemonStops \/ DaemonRestarts
  <2>1. CASE DaemonReports
    BY <1>b, <2>1 DEF DaemonReports
  <2>2. CASE DaemonStops
    <3>1. reports' \in 0 .. MaxReports /\ stops' \in 0 .. MaxStops
      BY <2>2 DEF DaemonStops
    <3>2. daemonUp' \in BOOLEAN /\ callBackLink' \in BOOLEAN
      BY <2>2, Zenon DEF DaemonStops
    <3>3. UNCHANGED <<given, open, sent>>
      BY <2>2 DEF DaemonStops
    <3> QED
      BY <3>1, <3>2, <3>3
  <2>3. CASE DaemonRestarts
    BY <2>3 DEF DaemonRestarts
  <2> QED
    BY <1>9, <2>1, <2>2, <2>3
<1>10. CASE UNCHANGED vars
  BY <1>10 DEF vars
<1> QED
  BY <1>1, <1>2, <1>4, <1>5, <1>6, <1>7, <1>8, <1>9, <1>10
  DEF Next, ClientCall, LockStep, RunStep

\* Every step keeps the type invariant.
LEMMA TypeStep ==
  ASSUME SessionInv, [Next]_vars
  PROVE  TypeOK'
<1>1. ManagerTypes' /\ ThreadTypes' /\ OutsideTypes'
  BY ManagerTypeStep, ThreadTypeStep, OutsideTypeStep
<1> QED
  BY <1>1 DEF TypeOK, ManagerTypes, ThreadTypes, OutsideTypes

-----------------------------------------------------------------------------
(***************************************************************************)
(* What a step does to the threads: one thread moves                       *)
(***************************************************************************)
\* Thread t goes to a place of the code, in an API call and a manager call for
\* session s; the other threads stay where they are.
Moves(t, place, name, st, s) ==
    /\ pc'[t] = place /\ op'[t] = name /\ stage'[t] = st /\ cur'[t] = s
    /\ \A u \in Threads \ {t} :
        pc'[u] = pc[u] /\ op'[u] = op[u] /\ stage'[u] = stage[u] /\ cur'[u] = cur[u]

Returns(t) ==
    Moves(t, IF t = CallBackThread THEN "walk" ELSE "idle", "none", "none", NoHandle)

\* AfterExit, with what it does to the handles of the application.
Leaves(t) ==
    \/ /\ stage[t] = "get" /\ Moves(t, "use", op[t], "get", cur[t])
       /\ UNCHANGED <<given, open>>
    \/ stage[t] = "miss" /\ Returns(t) /\ UNCHANGED <<given, open>>
    \/ /\ stage[t] = "put" /\ op[t] = "failed"
       /\ Moves(t, "destroy", "failed", "destroy", cur[t])
       /\ UNCHANGED <<given, open>>
    \/ /\ stage[t] = "put" /\ op[t] = "created" /\ Returns(t)
       /\ given' = given \cup {cur[t]} /\ open' = open \cup {cur[t]}
    \/ stage[t] = "put" /\ op[t] = "use" /\ Returns(t) /\ UNCHANGED <<given, open>>
    \/ /\ stage[t] = "iterate" /\ Moves(t, "idle", op[t], "none", cur[t])
       /\ UNCHANGED <<given, open>>

\* Return, Calls and Goto move one thread.
LEMMA CallMoves ==
  ASSUME TypeOK, NEW t \in Threads
  PROVE  /\ Return(t) => Returns(t)
         /\ \A s, name, place, st : Calls(t, s, name, place, st) =>
               Moves(t, place, name, st, s)
         /\ \A place : Goto(t, place) /\ UNCHANGED <<op, stage, cur>> =>
               Moves(t, place, op[t], stage[t], cur[t])
         /\ \A place, st :
               Goto(t, place) /\ stage' = [stage EXCEPT ![t] = st] /\ UNCHANGED <<op, cur>> =>
                   Moves(t, place, op[t], st, cur[t])
<1> USE DEF TypeOK, Moves, Goto
<1>1. Return(t) => Returns(t)
  BY DEF Return, Returns
<1>2. ASSUME NEW s, NEW name, NEW place, NEW st, Calls(t, s, name, place, st)
      PROVE  Moves(t, place, name, st, s)
  BY <1>2 DEF Calls
<1>3. ASSUME NEW place, Goto(t, place), UNCHANGED <<op, stage, cur>>
      PROVE  Moves(t, place, op[t], stage[t], cur[t])
  BY <1>3
<1>4. ASSUME NEW place, NEW st, Goto(t, place), UNCHANGED <<op, cur>>,
             stage' = [stage EXCEPT ![t] = st]
      PROVE  Moves(t, place, op[t], st, cur[t])
  BY <1>4
<1> HIDE DEF TypeOK, Moves, Goto
<1> QED
  BY <1>1, <1>2, <1>3, <1>4

\* So does what follows an iterator section.
LEMMA ExitMoves ==
  ASSUME TypeOK, PlaceInv, NEW t \in Threads, AfterExit(t),
         \/ pc[t] = "exit"
         \/ pc[t] = "unlink" /\ stage[t] \notin {"destroy", "teardown"}
  PROVE  Leaves(t)
<1>1. PlaceInv /\ AfterExit(t)
      /\ (pc[t] = "exit" \/ (pc[t] = "unlink" /\ stage[t] \notin {"destroy", "teardown"}))
  OBVIOUS
<1> QED
  BY <1>1, ExitCases, CallMoves DEF Leaves

\* The calls of the application, and the steps of the callback thread.
LEMMA OutsideMoves ==
  ASSUME TypeOK
  PROVE  /\ \A t \in Clients : HDCPCreate(t) =>
               Moves(t, "init", "create", "none", handleIncrementor)
         /\ \A t \in Clients : \A s : HDCPUse(t, s) => Moves(t, "enter", "use", "get", s)
         /\ \A t \in Clients : \A s : HDCPDestroy(t, s) =>
               Moves(t, "destroy", "destroy", "destroy", s)
         /\ ReceiveReport =>
               Moves(CallBackThread, "enter", op[CallBackThread], "iterate",
                     cur[CallBackThread])
         /\ \A s, h : CallBackUses(s, h) => Moves(CallBackThread, "enter", "use", "get", h)
         /\ \A s, h : CallBackDestroys(s, h) =>
               Moves(CallBackThread, "destroy", "destroy", "destroy", h)
         /\ WalkDone =>
               Moves(CallBackThread, "exit", op[CallBackThread], "iterate",
                     cur[CallBackThread])
         /\ DestroyCallback =>
               Moves(CallBackThread, IF sessionList = {} THEN "gone" ELSE "delete",
                     op[CallBackThread], "teardown", cur[CallBackThread])
<1>a. Clients \subseteq Threads /\ CallBackThread \in Threads
  BY DEF Threads
<1>1. ASSUME NEW t \in Clients, HDCPCreate(t)
      PROVE  Moves(t, "init", "create", "none", handleIncrementor)
  BY <1>a, <1>1, CallMoves DEF HDCPCreate
<1>2. ASSUME NEW t \in Clients, NEW s, HDCPUse(t, s)
      PROVE  Moves(t, "enter", "use", "get", s)
  BY <1>a, <1>2, CallMoves DEF HDCPUse
<1>3. ASSUME NEW t \in Clients, NEW s, HDCPDestroy(t, s)
      PROVE  Moves(t, "destroy", "destroy", "destroy", s)
  BY <1>a, <1>3, CallMoves DEF HDCPDestroy
<1>4. ASSUME ReceiveReport
      PROVE  Moves(CallBackThread, "enter", op[CallBackThread], "iterate",
                   cur[CallBackThread])
  BY <1>a, <1>4, CallMoves DEF ReceiveReport
<1>5. ASSUME NEW s, NEW h, CallBackUses(s, h)
      PROVE  Moves(CallBackThread, "enter", "use", "get", h)
  BY <1>a, <1>5, CallMoves DEF CallBackUses
<1>6. ASSUME NEW s, NEW h, CallBackDestroys(s, h)
      PROVE  Moves(CallBackThread, "destroy", "destroy", "destroy", h)
  BY <1>a, <1>6, CallMoves DEF CallBackDestroys
<1>7. ASSUME WalkDone
      PROVE  Moves(CallBackThread, "exit", op[CallBackThread], "iterate",
                   cur[CallBackThread])
  BY <1>a, <1>7, CallMoves DEF WalkDone
<1>8. ASSUME DestroyCallback
      PROVE  Moves(CallBackThread, IF sessionList = {} THEN "gone" ELSE "delete",
                   op[CallBackThread], "teardown", cur[CallBackThread])
  BY <1>a, <1>8, CallMoves DEF DestroyCallback
<1> QED
  BY <1>1, <1>2, <1>3, <1>4, <1>5, <1>6, <1>7, <1>8

\* The steps that take m_IteratorMutex, and those of a deletion.
LEMMA LockMoves ==
  ASSUME TypeOK, PlaceInv, NEW t \in Threads
  PROVE  /\ Insert(t) => Moves(t, "enter", op[t], "get", cur[t])
         /\ IteratorCriticalSectionEnter(t) =>
               Moves(t, IF stage[t] = "iterate" THEN "walk" ELSE "find",
                     op[t], stage[t], cur[t])
         /\ IteratorCriticalSectionExit(t) =>
               \/ /\ ExitMustDelete /\ Moves(t, "delete", op[t], stage[t], cur[t])
                  /\ UNCHANGED <<given, open>>
               \/ ~ExitMustDelete /\ Leaves(t)
         /\ DestroySession(t) =>
               \/ ~(Destroyable(cur[t]) /\ SafeToDelete) /\ Returns(t)
               \/ /\ Destroyable(cur[t]) /\ SafeToDelete
                  /\ Moves(t, "delete", op[t], stage[t], cur[t])
         /\ Delete(t) =>
               Moves(t, IF MustWait(Head(work[t])) THEN "wait" ELSE "unlink",
                     op[t], stage[t], cur[t])
         /\ Wakeup(t) => Moves(t, "unlink", op[t], stage[t], cur[t])
         /\ Unlink(t) =>
               \/ /\ Tail(work[t]) # <<>> /\ Moves(t, "delete", op[t], stage[t], cur[t])
                  /\ UNCHANGED <<given, open>>
               \/ /\ Tail(work[t]) = <<>> /\ stage[t] = "teardown"
                  /\ Moves(t, "gone", op[t], stage[t], cur[t])
                  /\ UNCHANGED <<given, open>>
               \/ /\ Tail(work[t]) = <<>> /\ stage[t] = "destroy"
                  /\ Returns(t) /\ UNCHANGED <<given, open>>
               \/ /\ Tail(work[t]) = <<>> /\ stage[t] \notin {"destroy", "teardown"}
                  /\ Leaves(t)
<1>1. ASSUME Insert(t) PROVE Moves(t, "enter", op[t], "get", cur[t])
  BY <1>1, CallMoves DEF Insert
<1>2. ASSUME IteratorCriticalSectionEnter(t)
      PROVE  Moves(t, IF stage[t] = "iterate" THEN "walk" ELSE "find",
                   op[t], stage[t], cur[t])
  BY <1>2, CallMoves DEF IteratorCriticalSectionEnter
<1>3. ASSUME IteratorCriticalSectionExit(t)
      PROVE  \/ /\ ExitMustDelete /\ Moves(t, "delete", op[t], stage[t], cur[t])
                /\ UNCHANGED <<given, open>>
             \/ ~ExitMustDelete /\ Leaves(t)
  BY <1>3, CallMoves, ExitMoves DEF IteratorCriticalSectionExit
<1>4. ASSUME DestroySession(t)
      PROVE  \/ ~(Destroyable(cur[t]) /\ SafeToDelete) /\ Returns(t)
             \/ /\ Destroyable(cur[t]) /\ SafeToDelete
                /\ Moves(t, "delete", op[t], stage[t], cur[t])
  BY <1>4, CallMoves DEF DestroySession
<1>5. ASSUME Delete(t)
      PROVE  Moves(t, IF MustWait(Head(work[t])) THEN "wait" ELSE "unlink",
                   op[t], stage[t], cur[t])
  BY <1>5, CallMoves DEF Delete
<1>6. ASSUME Wakeup(t) PROVE Moves(t, "unlink", op[t], stage[t], cur[t])
  BY <1>6, CallMoves DEF Wakeup
<1>7. ASSUME Unlink(t)
      PROVE  \/ /\ Tail(work[t]) # <<>> /\ Moves(t, "delete", op[t], stage[t], cur[t])
                /\ UNCHANGED <<given, open>>
             \/ /\ Tail(work[t]) = <<>> /\ stage[t] = "teardown"
                /\ Moves(t, "gone", op[t], stage[t], cur[t])
                /\ UNCHANGED <<given, open>>
             \/ /\ Tail(work[t]) = <<>> /\ stage[t] = "destroy"
                /\ Returns(t) /\ UNCHANGED <<given, open>>
             \/ /\ Tail(work[t]) = <<>> /\ stage[t] \notin {"destroy", "teardown"}
                /\ Leaves(t)
  <2>1. CASE Tail(work[t]) # <<>>
    BY <1>7, <2>1, CallMoves DEF Unlink
  <2>2. CASE Tail(work[t]) = <<>> /\ stage[t] \in {"destroy", "teardown"}
    BY <1>7, <2>2, CallMoves DEF Unlink
  <2>3. CASE Tail(work[t]) = <<>> /\ stage[t] \notin {"destroy", "teardown"}
    <3>1. AfterExit(t) /\ pc[t] = "unlink"
      BY <1>7, <2>3 DEF Unlink
    <3> QED
      BY <2>3, <3>1, ExitMoves
  <2> QED
    BY <2>1, <2>2, <2>3
<1> QED
  BY <1>1, <1>2, <1>3, <1>4, <1>5, <1>6, <1>7

\* The other steps of a call.
LEMMA RunMoves ==
  ASSUME TypeOK, PlaceInv, NEW t \in Threads
  PROVE  /\ InitCallBackDone(t) => Moves(t, "insert", op[t], stage[t], cur[t])
         /\ InitCallBackOk(t) =>
               /\ t # CallBackThread
               /\ pc'[t] = "insert" /\ pc'[CallBackThread] = "idle"
               /\ \A u \in Threads \ {t, CallBackThread} : pc'[u] = pc[u]
               /\ UNCHANGED <<op, stage, cur>>
         /\ InitCallBackError(t) \/ CreateSessionError(t) => Returns(t)
         /\ Find(t) =>
               \/ /\ cur[t] \in sessionList
                  /\ Moves(t, IF stage[t] = "get" THEN "check" ELSE "drop",
                           op[t], stage[t], cur[t])
               \/ /\ cur[t] \notin sessionList
                  /\ Moves(t, "exit", op[t],
                           IF stage[t] = "get" THEN "miss" ELSE stage[t], cur[t])
         /\ CheckPending(t) =>
               \/ Queued(cur[t]) /\ Moves(t, "exit", op[t], "miss", cur[t])
               \/ ~Queued(cur[t]) /\ Moves(t, "grab", op[t], stage[t], cur[t])
         /\ IncreaseReference(t) \/ DecreaseReference(t) =>
               Moves(t, "exit", op[t], stage[t], cur[t])
         /\ Transact(t) =>
               \/ /\ op[t] = "create"
                  /\ \/ Moves(t, "enter", "created", "put", cur[t])
                     \/ Moves(t, "enter", "failed", "put", cur[t])
               \/ op[t] = "use" /\ Moves(t, "enter", "use", "put", cur[t])
<1>1. ASSUME InitCallBackDone(t)
      PROVE  Moves(t, "insert", op[t], stage[t], cur[t])
  BY <1>1, CallMoves DEF InitCallBackDone
<1>2. ASSUME InitCallBackOk(t)
      PROVE  /\ t # CallBackThread
             /\ pc'[t] = "insert" /\ pc'[CallBackThread] = "idle"
             /\ \A u \in Threads \ {t, CallBackThread} : pc'[u] = pc[u]
             /\ UNCHANGED <<op, stage, cur>>
  <2>1. pc[t] = "init" /\ pc \in [Threads -> PCs] /\ CallBackThread \in Threads
    BY <1>2 DEF InitCallBackOk, TypeOK, Threads
  <2>2. t # CallBackThread
    BY <2>1, ThreadsAssumption DEF PlaceInv, PlaceOf
  <2> QED
    BY <1>2, <2>1, <2>2 DEF InitCallBackOk
<1>3. ASSUME InitCallBackError(t) \/ CreateSessionError(t) PROVE Returns(t)
  BY <1>3, CallMoves DEF InitCallBackError, CreateSessionError
<1>4. ASSUME Find(t)
      PROVE  \/ /\ cur[t] \in sessionList
                /\ Moves(t, IF stage[t] = "get" THEN "check" ELSE "drop",
                         op[t], stage[t], cur[t])
             \/ /\ cur[t] \notin sessionList
                /\ Moves(t, "exit", op[t],
                         IF stage[t] = "get" THEN "miss" ELSE stage[t], cur[t])
  BY <1>4, CallMoves DEF Find
<1>5. ASSUME CheckPending(t)
      PROVE  \/ Queued(cur[t]) /\ Moves(t, "exit", op[t], "miss", cur[t])
             \/ ~Queued(cur[t]) /\ Moves(t, "grab", op[t], stage[t], cur[t])
  BY <1>5, CallMoves DEF CheckPending
<1>6. ASSUME IncreaseReference(t) \/ DecreaseReference(t)
      PROVE  Moves(t, "exit", op[t], stage[t], cur[t])
  BY <1>6, CallMoves DEF IncreaseReference, DecreaseReference
<1>7. ASSUME Transact(t)
      PROVE  \/ /\ op[t] = "create"
                /\ \/ Moves(t, "enter", "created", "put", cur[t])
                   \/ Moves(t, "enter", "failed", "put", cur[t])
             \/ op[t] = "use" /\ Moves(t, "enter", "use", "put", cur[t])
  BY <1>7 DEF Transact, Moves, Goto, TypeOK
<1> QED
  BY <1>1, <1>2, <1>3, <1>4, <1>5, <1>6, <1>7

-----------------------------------------------------------------------------
(***************************************************************************)
(* Places                                                                  *)
(***************************************************************************)
\* The threads that do not move stay in place.
LEMMA OthersPlaced ==
  ASSUME PlaceInv, NEW t \in Threads, NEW place, NEW name, NEW st, NEW s,
         Moves(t, place, name, st, s)
  PROVE  \A u \in Threads \ {t} : PlaceOf(u)'
BY DEF PlaceInv, PlaceOf, Moves, Holds

\* After an iterator section a thread is where its call goes on.
LEMMA LeaverPlaced ==
  ASSUME PlaceInv, NEW t \in Threads, Leaves(t),
         pc[t] = "exit" \/ pc[t] = "unlink"
  PROVE  \A u \in Threads : PlaceOf(u)'
<1>1. PlaceOf(t)
  BY DEF PlaceInv
<1>2. PlaceOf(t)'
  BY <1>1, ThreadsAssumption DEF Leaves, Returns, Moves, PlaceOf, Holds, Deleting, Threads, NoHandle
<1>3. \A u \in Threads \ {t} : PlaceOf(u)'
  BY OthersPlaced DEF Leaves, Returns
<1> QED
  BY <1>2, <1>3

\* Every step leaves every thread at a place that fits its calls.
LEMMA PlaceOfStep ==
  ASSUME SessionInv, [Next]_vars
  PROVE  \A u \in Threads : PlaceOf(u)'
<1>a. TypeOK /\ PlaceInv
  BY DEF SessionInv
<1>b. \A u \in Threads : PlaceOf(u)
  BY <1>a DEF PlaceInv
<1>c. CallBackThread \in Threads /\ Clients \subseteq Threads /\ CallBackThread \notin Clients
  BY ThreadsAssumption DEF Threads
<1>d. given \subseteq Handles /\ open \subseteq Handles
  BY <1>a DEF TypeOK
<1> USE <1>a, <1>b, <1>c
<1>1. ASSUME NEW t \in Clients, HDCPCreate(t) PROVE \A u \in Threads : PlaceOf(u)'
  <2>1. Moves(t, "init", "create", "none", handleIncrementor)
        /\ handleIncrementor \in Handles
    BY <1>1, OutsideMoves DEF HDCPCreate
  <2>2. PlaceOf(t)'
    BY <2>1 DEF PlaceOf, Moves, Holds, Deleting
  <2> QED
    BY <2>1, <2>2, OthersPlaced
<1>2. ASSUME NEW t \in Clients, NEW s, HDCPUse(t, s)
      PROVE  \A u \in Threads : PlaceOf(u)'
  <2>1. Moves(t, "enter", "use", "get", s)
    BY <1>2, OutsideMoves
  <2>2. PlaceOf(t)'
    BY <2>1 DEF PlaceOf, Moves, Holds, Deleting
  <2> QED
    BY <2>1, <2>2, OthersPlaced
<1>3. ASSUME NEW t \in Clients, NEW s \in Handles, HDCPDestroy(t, s)
      PROVE  \A u \in Threads : PlaceOf(u)'
  <2>1. Moves(t, "destroy", "destroy", "destroy", s)
    BY <1>3, OutsideMoves
  <2>2. PlaceOf(t)'
    BY <2>1 DEF PlaceOf, Moves, Holds, Deleting
  <2> QED
    BY <2>1, <2>2, OthersPlaced
<1>4. ASSUME NEW t \in Threads, Insert(t) PROVE \A u \in Threads : PlaceOf(u)'
  <2>1. Moves(t, "enter", op[t], "get", cur[t]) /\ pc[t] = "insert"
    BY <1>4, LockMoves DEF Insert
  <2>2. PlaceOf(t)'
    BY <2>1 DEF PlaceOf, Moves, Holds, Deleting
  <2> QED
    BY <2>1, <2>2, OthersPlaced
<1>5. ASSUME NEW t \in Threads, IteratorCriticalSectionEnter(t)
      PROVE  \A u \in Threads : PlaceOf(u)'
  <2>1. /\ pc[t] = "enter"
        /\ Moves(t, IF stage[t] = "iterate" THEN "walk" ELSE "find",
                 op[t], stage[t], cur[t])
    BY <1>5, LockMoves DEF IteratorCriticalSectionEnter
  <2>2. PlaceOf(t)'
    BY <2>1 DEF PlaceOf, Moves, Holds, Deleting
  <2> QED
    BY <2>1, <2>2, OthersPlaced
<1>6. ASSUME NEW t \in Threads, IteratorCriticalSectionExit(t)
      PROVE  \A u \in Threads : PlaceOf(u)'
  <2>1. CASE Moves(t, "delete", op[t], stage[t], cur[t])
    <3>1. PlaceOf(t)'
      BY <1>6, <2>1 DEF IteratorCriticalSectionExit, PlaceOf, Moves, Holds, Deleting
    <3> QED
      BY <2>1, <3>1, OthersPlaced
  <2>2. CASE Leaves(t)
    BY <1>6, <2>2, LeaverPlaced DEF IteratorCriticalSectionExit
  <2> QED
    BY <1>6, <2>1, <2>2, LockMoves
<1>7. ASSUME NEW t \in Threads, Returns(t) PROVE \A u \in Threads : PlaceOf(u)'
  <2>1. PlaceOf(t)'
    BY <1>7 DEF Returns, Moves, PlaceOf, Holds, Deleting, Threads, NoHandle
  <2> QED
    BY <1>7, <2>1, OthersPlaced DEF Returns
<1>8. ASSUME NEW t \in Threads, DestroySession(t)
      PROVE  \A u \in Threads : PlaceOf(u)'
  <2>1. CASE Moves(t, "delete", op[t], stage[t], cur[t])
    <3>1. PlaceOf(t)'
      BY <1>8, <2>1 DEF DestroySession, PlaceOf, Moves, Holds, Deleting
    <3> QED
      BY <2>1, <3>1, OthersPlaced
  <2> QED
    BY <1>7, <1>8, <2>1, LockMoves
<1>9. ASSUME NEW t \in Threads, InitCallBackDone(t)
      PROVE  \A u \in Threads : PlaceOf(u)'
  <2>1. Moves(t, "insert", op[t], stage[t], cur[t]) /\ pc[t] = "init"
    BY <1>9, RunMoves DEF InitCallBackDone
  <2>2. PlaceOf(t)'
    BY <2>1 DEF PlaceOf, Moves, Holds, Deleting
  <2> QED
    BY <2>1, <2>2, OthersPlaced
<1>10. ASSUME NEW t \in Threads, InitCallBackOk(t)
       PROVE  \A u \in Threads : PlaceOf(u)'
  <2>1. /\ t # CallBackThread /\ pc[t] = "init"
        /\ pc'[t] = "insert" /\ pc'[CallBackThread] = "idle"
        /\ \A u \in Threads \ {t, CallBackThread} : pc'[u] = pc[u]
        /\ UNCHANGED <<op, stage, cur>>
    BY <1>10, RunMoves DEF InitCallBackOk
  <2>2. pc[CallBackThread] = "none"
    BY <1>10 DEF PlaceInv, InitCallBackOk
  <2>3. PlaceOf(t)' /\ PlaceOf(CallBackThread)'
    BY <2>1, <2>2 DEF PlaceOf, Holds, Deleting
  <2>4. \A u \in Threads \ {t, CallBackThread} : PlaceOf(u)'
    BY <2>1 DEF PlaceOf, Holds, Deleting
  <2> QED
    BY <2>3, <2>4
<1>11. ASSUME NEW t \in Threads, InitCallBackError(t) \/ CreateSessionError(t)
       PROVE  \A u \in Threads : PlaceOf(u)'
  BY <1>7, <1>11, RunMoves
<1>12. ASSUME NEW t \in Threads, Find(t) PROVE \A u \in Threads : PlaceOf(u)'
  <2>1. CASE /\ cur[t] \in sessionList
             /\ Moves(t, IF stage[t] = "get" THEN "check" ELSE "drop",
                      op[t], stage[t], cur[t])
    <3>1. pc[t] = "find" /\ cur[t] \in Handles
      BY <1>12, <2>1 DEF Find, TypeOK
    <3>2. PlaceOf(t)'
      BY <2>1, <3>1 DEF PlaceOf, Moves, Holds, Deleting
    <3> QED
      BY <2>1, <3>2, OthersPlaced
  <2>2. CASE Moves(t, "exit", op[t],
                   IF stage[t] = "get" THEN "miss" ELSE stage[t], cur[t])
    <3>1. PlaceOf(t)'
      BY <1>12, <2>2 DEF Find, PlaceOf, Moves, Holds, Deleting
    <3> QED
      BY <2>2, <3>1, OthersPlaced
  <2> QED
    BY <1>12, <2>1, <2>2, RunMoves
<1>13. ASSUME NEW t \in Threads, CheckPending(t) PROVE \A u \in Threads : PlaceOf(u)'
  <2>1. pc[t] = "check"
    BY <1>13 DEF CheckPending
  <2>2. CASE Moves(t, "exit", op[t], "miss", cur[t])
    <3>1. PlaceOf(t)'
      BY <2>1, <2>2 DEF PlaceOf, Moves, Holds, Deleting
    <3> QED
      BY <2>2, <3>1, OthersPlaced
  <2>3. CASE Moves(t, "grab", op[t], stage[t], cur[t])
    <3>1. PlaceOf(t)'
      BY <2>1, <2>3 DEF PlaceOf, Moves, Holds, Deleting
    <3> QED
      BY <2>3, <3>1, OthersPlaced
  <2> QED
    BY <1>13, <2>2, <2>3, RunMoves
<1>14. ASSUME NEW t \in Threads, IncreaseReference(t) \/ DecreaseReference(t)
       PROVE  \A u \in Threads : PlaceOf(u)'
  <2>1. Moves(t, "exit", op[t], stage[t], cur[t]) /\ pc[t] \in {"grab", "drop"}
    BY <1>14, RunMoves DEF IncreaseReference, DecreaseReference
  <2>2. PlaceOf(t)'
    BY <2>1 DEF PlaceOf, Moves, Holds, Deleting
  <2> QED
    BY <2>1, <2>2, OthersPlaced
<1>15. ASSUME NEW t \in Threads, Transact(t) PROVE \A u \in Threads : PlaceOf(u)'
  <2>1. PICK name : /\ Moves(t, "enter", name, "put", cur[t])
                    /\ op[t] = "use" => name = "use"
                    /\ op[t] # "use" => op[t] = "create" /\ name \in {"created", "failed"}
    BY <1>15, RunMoves
  <2>2. PlaceOf(t)'
    BY <1>15, <2>1 DEF Transact, PlaceOf, Moves, Holds, Deleting
  <2> QED
    BY <2>1, <2>2, OthersPlaced
<1>16. ASSUME NEW t \in Threads, Delete(t) \/ Wakeup(t)
       PROVE  \A u \in Threads : PlaceOf(u)'
  <2>1. PICK place \in {"wait", "unlink"} : Moves(t, place, op[t], stage[t], cur[t])
    BY <1>16, LockMoves
  <2>2. pc[t] \in {"delete", "wait"}
    BY <1>16 DEF Delete, Wakeup
  <2>3. PlaceOf(t)'
    BY <2>1, <2>2 DEF PlaceOf, Moves, Holds, Deleting
  <2> QED
    BY <2>1, <2>3, OthersPlaced
<1>17. ASSUME NEW t \in Threads, Unlink(t) PROVE \A u \in Threads : PlaceOf(u)'
  <2>1. pc[t] = "unlink"
    BY <1>17 DEF Unlink
  <2>2. CASE Moves(t, "delete", op[t], stage[t], cur[t])
    <3>1. PlaceOf(t)'
      BY <2>1, <2>2 DEF PlaceOf, Moves, Holds, Deleting
    <3> QED
      BY <2>2, <3>1, OthersPlaced
  <2>3. CASE stage[t] = "teardown" /\ Moves(t, "gone", op[t], stage[t], cur[t])
    <3>1. PlaceOf(t)'
      BY <2>1, <2>3 DEF PlaceOf, Moves, Holds, Deleting
    <3> QED
      BY <2>3, <3>1, OthersPlaced
  <2>4. CASE Leaves(t)
    BY <2>1, <2>4, LeaverPlaced
  <2> QED
    BY <1>7, <1>17, <2>2, <2>3, <2>4, LockMoves
<1>18. CASE ReceiveReport \/ WalkDone
  <2>1. PICK place \in {"enter", "exit"} :
            Moves(CallBackThread, place, op[CallBackThread], "iterate", cur[CallBackThread])
    BY <1>18, OutsideMoves
  <2>2. pc[CallBackThread] \in {"idle", "walk"}
    BY <1>18 DEF ReceiveReport, WalkDone
  <2>3. PlaceOf(CallBackThread)'
    BY <2>1, <2>2 DEF PlaceOf, Moves, Holds, Deleting
  <2> QED
    BY <2>1, <2>3, OthersPlaced
<1>19. ASSUME NEW s, NEW h \in Handles, CallBackUses(s, h) \/ CallBackDestroys(s, h)
       PROVE  \A u \in Threads : PlaceOf(u)'
  <2>1. CASE Moves(CallBackThread, "enter", "use", "get", h)
    <3>1. PlaceOf(CallBackThread)'
      BY <2>1 DEF PlaceOf, Moves, Holds, Deleting
    <3> QED
      BY <2>1, <3>1, OthersPlaced
  <2>2. CASE Moves(CallBackThread, "destroy", "destroy", "destroy", h)
    <3>1. PlaceOf(CallBackThread)'
      BY <2>2 DEF PlaceOf, Moves, Holds, Deleting
    <3> QED
      BY <2>2, <3>1, OthersPlaced
  <2> QED
    BY <1>19, <2>1, <2>2, OutsideMoves
<1>20. CASE DestroyCallback
  <2>1. PICK place \in {"gone", "delete"} :
            Moves(CallBackThread, place, op[CallBackThread], "teardown", cur[CallBackThread])
    BY <1>20, OutsideMoves
  <2>2. PlaceOf(CallBackThread)'
    BY <1>20, <2>1 DEF DestroyCallback, PlaceOf, Moves, Holds, Deleting
  <2> QED
    BY <2>1, <2>2, OthersPlaced
<1>21. ASSUME UNCHANGED <<pc, op, stage, cur>>
       PROVE  \A u \in Threads : PlaceOf(u)'
  BY <1>21 DEF PlaceOf, Holds
<1>22. CASE \E s \in Handles : CallBack(s)
  BY <1>21, <1>22 DEF CallBack
<1>23. CASE DaemonReports \/ DaemonStops \/ DaemonRestarts
  BY <1>21, <1>23 DEF DaemonReports, DaemonStops, DaemonRestarts, threadVars
<1>24. CASE UNCHANGED vars
  BY <1>21, <1>24 DEF vars, threadVars
<1> QED
  BY <1>1, <1>2, <1>3, <1>4, <1>5, <1>6, <1>8, <1>9, <1>10, <1>11, <1>12, <1>13,
     <1>14, <1>15, <1>16, <1>17, <1>18, <1>19, <1>20, <1>22, <1>23, <1>24
  DEF Next, ClientCall, LockStep, RunStep, CallBackStep

\* A session is called back only in a round, and the callback thread runs once
\* InitCallBack started it.
LEMMA PlaceStep ==
  ASSUME SessionInv, [Next]_vars
  PROVE  PlaceInv'
<1> DEFINE cb == CallBackThread
           Round == /\ reports <= sent
                    /\ callBackInitialized <=> pc[CallBackThread] # "none"
                    /\ visit # {} => InRound
<1> SUFFICES Round'
  BY PlaceOfStep DEF PlaceInv
<1>a. TypeOK /\ PlaceInv /\ Round
  BY DEF SessionInv, PlaceInv
<1>b. /\ reports \in Nat /\ sent \in Nat
  BY <1>a, SessionBoundsAssumption DEF TypeOK
<1>c. cb \in Threads /\ Clients \subseteq Threads /\ cb \notin Clients
  BY ThreadsAssumption DEF Threads
<1>d. PlaceOf(cb)
  BY <1>a, <1>c DEF PlaceInv
<1>e. ASSUME NEW t \in Threads \ {cb}, NEW place, NEW name, NEW st, NEW s,
             Moves(t, place, name, st, s),
             UNCHANGED <<reports, sent, callBackInitialized, visit>>
      PROVE  Round'
  BY <1>a, <1>c, <1>e DEF Moves, InRound
<1>f. ASSUME NEW t \in Threads, NEW place \in PCs \ {"none"}, NEW name, NEW st, NEW s,
             Moves(t, place, name, st, s), pc[t] # "none",
             place = "walk" \/ name # "none" \/ visit = {},
             UNCHANGED <<reports, sent, callBackInitialized, visit>>
      PROVE  Round'
  BY <1>a, <1>c, <1>f DEF Moves, InRound
<1>g. ASSUME NEW t \in Threads, Returns(t), pc[t] # "none",
             UNCHANGED <<reports, sent, callBackInitialized, visit>>
      PROVE  Round'
  BY <1>e, <1>f, <1>g DEF Returns, PCs
<1>h. \A t \in Threads : pc[t] \in {"enter", "exit", "delete", "wait", "unlink"} /\ t = cb =>
          visit = {} \/ op[cb] # "none"
  BY <1>a DEF InRound
<1>1. ASSUME NEW t \in Clients,
             \/ HDCPCreate(t)
             \/ \E s \in Handles \cup {NoHandle} : HDCPUse(t, s)
             \/ \E s \in Handles : HDCPDestroy(t, s)
      PROVE  Round'
  <2>1. UNCHANGED <<reports, sent, callBackInitialized, visit>>
    BY <1>1 DEF HDCPCreate, HDCPUse, HDCPDestroy, createVars, envVars
  <2> QED
    BY <1>1, <1>a, <1>c, <1>e, <2>1, OutsideMoves
<1>2. ASSUME NEW t \in Threads, Insert(t) PROVE Round'
  <2>1. t # cb /\ UNCHANGED <<reports, sent, callBackInitialized, visit>>
    BY <1>2, <1>c, <1>d DEF Insert, createVars, envVars, PlaceOf
  <2> QED
    BY <1>2, <1>a, <1>e, <2>1, LockMoves
<1>3. ASSUME NEW t \in Threads, IteratorCriticalSectionEnter(t) PROVE Round'
  <2>1. /\ pc[t] = "enter" /\ UNCHANGED <<reports, sent, callBackInitialized>>
        /\ stage[t] # "iterate" => UNCHANGED visit
    BY <1>3 DEF IteratorCriticalSectionEnter, createVars, envVars
  <2>2. Moves(t, IF stage[t] = "iterate" THEN "walk" ELSE "find", op[t], stage[t], cur[t])
    BY <1>3, <1>a, LockMoves
  <2>3. stage[t] = "iterate" => t = cb
    BY <1>a DEF PlaceInv, PlaceOf
  <2> QED
    BY <1>a, <1>c, <2>1, <2>2, <2>3 DEF Moves, InRound
<1>4. ASSUME NEW t \in Threads, Leaves(t), pc[t] \in {"exit", "unlink"},
             UNCHANGED <<reports, sent, callBackInitialized, visit>>
      PROVE  Round'
  <2>1. PlaceOf(t)
    BY <1>a DEF PlaceInv
  <2>2. CASE Returns(t)
    BY <1>4, <1>g, <2>2
  <2>3. CASE Moves(t, "use", op[t], "get", cur[t])
    BY <1>4, <1>f, <1>h, <1>e, <2>3 DEF PCs
  <2>4. CASE Moves(t, "destroy", "failed", "destroy", cur[t])
    BY <1>4, <1>f, <2>4 DEF PCs
  <2>5. CASE stage[t] = "iterate" /\ Moves(t, "idle", op[t], "none", cur[t])
    <3>1. op[t] = "none" /\ t = cb /\ visit = {}
      BY <1>4, <1>h, <2>1, <2>5 DEF PlaceOf
    <3> QED
      BY <1>4, <1>f, <2>5, <3>1 DEF PCs
  <2> QED
    BY <1>4, <2>2, <2>3, <2>4, <2>5 DEF Leaves
<1>5. ASSUME NEW t \in Threads, IteratorCriticalSectionExit(t) PROVE Round'
  <2>1. pc[t] = "exit" /\ UNCHANGED <<reports, sent, callBackInitialized, visit>>
    BY <1>5 DEF IteratorCriticalSectionExit, createVars, envVars
  <2>2. CASE Moves(t, "delete", op[t], stage[t], cur[t])
    BY <1>e, <1>f, <1>h, <2>1, <2>2 DEF PCs
  <2> QED
    BY <1>a, <1>4, <1>5, <2>1, <2>2, LockMoves
<1>6. ASSUME NEW t \in Threads, DestroySession(t) PROVE Round'
  <2>1. pc[t] = "destroy" /\ UNCHANGED <<reports, sent, callBackInitialized, visit>>
    BY <1>6 DEF DestroySession, createVars, envVars
  <2>2. CASE Moves(t, "delete", op[t], stage[t], cur[t])
    <3>1. op[t] # "none"
      BY <1>a, <2>1 DEF PlaceInv, PlaceOf
    <3> QED
      BY <1>f, <2>1, <2>2, <3>1 DEF PCs
  <2> QED
    BY <1>a, <1>g, <1>6, <2>1, <2>2, LockMoves
<1>7. ASSUME NEW t \in Threads,
             InitCallBackDone(t) \/ InitCallBackError(t) \/ CreateSessionError(t)
      PROVE  Round'
  <2>1. t # cb /\ UNCHANGED <<reports, sent, callBackInitialized, visit>>
    BY <1>7, <1>c, <1>d DEF InitCallBackDone, InitCallBackError, CreateSessionError,
                            createVars, envVars, PlaceOf
  <2> QED
    BY <1>7, <1>a, <1>e, <2>1, RunMoves DEF Returns
<1>8. ASSUME NEW t \in Threads, InitCallBackOk(t) PROVE Round'
  <2>1. pc'[cb] = "idle" /\ callBackInitialized' = TRUE /\ UNCHANGED <<reports, sent, visit>>
    BY <1>8, <1>a, RunMoves DEF InitCallBackOk
  <2>2. pc[cb] = "none" /\ op[cb] = "none"
    BY <1>8, <1>a, <1>d DEF InitCallBackOk, PlaceOf
  <2> QED
    BY <1>a, <2>1, <2>2 DEF InRound
<1>9. ASSUME NEW t \in Threads,
             \/ Find(t) \/ CheckPending(t) \/ IncreaseReference(t)
             \/ DecreaseReference(t) \/ Transact(t)
      PROVE  Round'
  <2>1. /\ pc[t] \in {"find", "check", "grab", "drop", "use"}
        /\ UNCHANGED <<reports, sent, callBackInitialized, visit>>
    BY <1>9 DEF Find, CheckPending, IncreaseReference, DecreaseReference, Transact,
                createVars, envVars
  <2>2. op[t] # "none"
    BY <1>a, <2>1 DEF PlaceInv, PlaceOf
  <2>3. PICK place \in PCs \ {"none"}, name \in Ops \ {"none"}, st \in Stages :
            Moves(t, place, name, st, cur[t])
    <3>1. op[t] \in Ops /\ stage[t] \in Stages
      BY <1>a DEF TypeOK
    <3>2. /\ {"check", "drop", "exit", "grab", "enter"} \subseteq PCs \ {"none"}
          /\ {"created", "failed", "use"} \subseteq Ops \ {"none"}
          /\ {"miss", "put"} \subseteq Stages
      BY DEF PCs, Ops, Stages
    <3> QED
      BY <1>9, <1>a, <2>2, <3>1, <3>2, RunMoves
  <2> QED
    BY <1>f, <2>1, <2>3
<1>10. ASSUME NEW t \in Threads, Delete(t) \/ Wakeup(t) PROVE Round'
  <2>1. /\ pc[t] \in {"delete", "wait"}
        /\ UNCHANGED <<reports, sent, callBackInitialized, visit>>
    BY <1>10 DEF Delete, Wakeup, createVars, envVars
  <2>2. PICK place \in {"wait", "unlink"} : Moves(t, place, op[t], stage[t], cur[t])
    BY <1>10, <1>a, LockMoves
  <2> QED
    BY <1>e, <1>f, <1>h, <2>1, <2>2 DEF PCs
<1>11. ASSUME NEW t \in Threads, Unlink(t) PROVE Round'
  <2>1. pc[t] = "unlink" /\ UNCHANGED <<reports, sent, callBackInitialized, visit>>
    BY <1>11 DEF Unlink, createVars, envVars
  <2>2. CASE Moves(t, "delete", op[t], stage[t], cur[t])
    BY <1>e, <1>f, <1>h, <2>1, <2>2 DEF PCs
  <2>3. CASE Moves(t, "gone", op[t], stage[t], cur[t])
    BY <1>e, <1>f, <1>h, <2>1, <2>3 DEF PCs
  <2> QED
    BY <1>a, <1>g, <1>4, <1>11, <2>1, <2>2, <2>3, LockMoves
<1>12. CASE ReceiveReport
  <2>1. /\ pc[cb] = "idle" /\ reports > 0 /\ reports' = reports - 1
        /\ UNCHANGED <<sent, callBackInitialized, visit>>
    BY <1>12 DEF ReceiveReport, createVars
  <2>2. pc'[cb] = "enter" /\ op'[cb] = op[cb] /\ op[cb] = "none"
    BY <1>12, <1>a, <1>d, <2>1, OutsideMoves DEF Moves, PlaceOf
  <2> QED
    BY <1>a, <1>b, <2>1, <2>2 DEF InRound
<1>13. CASE \E s \in Handles : CallBack(s)
  <2>1. pc[cb] = "walk" /\ UNCHANGED <<pc, op, reports, sent, callBackInitialized>>
    BY <1>13 DEF CallBack, createVars, envVars
  <2> QED
    BY <1>a, <2>1 DEF InRound
<1>14. ASSUME NEW s, NEW h, CallBackUses(s, h) \/ CallBackDestroys(s, h)
       PROVE  Round'
  <2>1. pc[cb] = "walk" /\ UNCHANGED <<reports, sent, callBackInitialized>>
    BY <1>14 DEF CallBackUses, CallBackDestroys, createVars, envVars
  <2>2. op'[cb] # "none" /\ pc'[cb] # "none"
    BY <1>14, <1>a, OutsideMoves DEF Moves
  <2> QED
    BY <1>a, <2>1, <2>2 DEF InRound
<1>15. CASE WalkDone
  <2>1. /\ pc[cb] = "walk" /\ visit = {}
        /\ UNCHANGED <<reports, sent, callBackInitialized, visit>>
    BY <1>15 DEF WalkDone, createVars, envVars
  <2> QED
    BY <1>15, <1>a, <1>c, <1>f, <2>1, OutsideMoves DEF PCs
<1>16. CASE DestroyCallback
  <2>1. /\ pc[cb] = "idle" /\ UNCHANGED <<reports, sent, callBackInitialized, visit>>
    BY <1>16 DEF DestroyCallback, createVars, envVars
  <2>2. visit = {}
    BY <1>a, <1>d, <2>1 DEF InRound, PlaceOf
  <2> QED
    BY <1>16, <1>a, <1>c, <1>f, <2>1, <2>2, OutsideMoves DEF PCs
<1>17. CASE DaemonReports \/ DaemonStops \/ DaemonRestarts
  <2>1. UNCHANGED <<callBackInitialized, pc, op, visit>> /\ reports' <= sent'
    BY <1>17, <1>a, <1>b DEF DaemonReports, DaemonStops, DaemonRestarts, createVars,
                             threadVars
  <2> QED
    BY <1>a, <2>1 DEF InRound
<1>18. CASE UNCHANGED vars
  BY <1>a, <1>18 DEF vars, createVars, threadVars, envVars, InRound
<1> QED
  BY <1>1, <1>2, <1>3, <1>5, <1>6, <1>7, <1>8, <1>9, <1>10, <1>11, <1>12, <1>13,
     <1>14, <1>15, <1>16, <1>17, <1>18
  DEF Next, ClientCall, LockStep, RunStep, CallBackStep

-----------------------------------------------------------------------------
(***************************************************************************)
(* The mutex                                                               *)
(***************************************************************************)
\* A step of a thread that neither holds nor takes the mutex.
LEMMA MutexUntouched ==
  ASSUME MutexInv, NEW t \in Threads, NEW place, NEW name, NEW st, NEW s,
         Moves(t, place, name, st, s), pc[t] \notin Deleting, place \notin Deleting,
         UNCHANGED <<iteratorMutex, work>>,
         MutexFree \/ iteratorReference' = iteratorReference
  PROVE  MutexInv'
<1>1. MutexFree => \A u \in Threads : pc[u] \notin Deleting
  BY ThreadsAssumption DEF MutexInv, MutexFree, Threads
<1> QED
  BY <1>1 DEF MutexInv, Moves

\* A thread takes the mutex for a deletion.
LEMMA MutexTaken ==
  ASSUME TypeOK, MutexInv, NEW t \in Threads, NEW name, NEW st, NEW s, NEW w,
         Moves(t, "delete", name, st, s), MutexFree, iteratorMutex' = t,
         work' = [work EXCEPT ![t] = w], w # <<>>,
         st # "teardown" => iteratorReference' = 0
  PROVE  MutexInv'
<1>1. \A u \in Threads : pc[u] \notin Deleting
  BY ThreadsAssumption DEF MutexInv, MutexFree, Threads
<1> QED
  BY <1>1 DEF TypeOK, MutexInv, Moves, Deleting

\* The deleting thread goes on to delete.
LEMMA MutexKept ==
  ASSUME TypeOK, MutexInv, NEW t \in Threads, NEW place, NEW name, NEW s, NEW w,
         Moves(t, place, name, stage[t], s), pc[t] \in Deleting, place \in Deleting,
         work' = [work EXCEPT ![t] = w], w # <<>>,
         UNCHANGED <<iteratorMutex, iteratorReference>>
  PROVE  MutexInv'
BY DEF TypeOK, MutexInv, Moves

\* The deleting thread has nothing left to delete.
LEMMA MutexGiven ==
  ASSUME TypeOK, MutexInv, NEW t \in Threads, NEW place, NEW name, NEW st, NEW s,
         Moves(t, place, name, st, s), pc[t] \in Deleting, place \notin Deleting,
         work' = [work EXCEPT ![t] = <<>>], iteratorMutex' = NoThread
  PROVE  MutexInv'
<1>1. \A u \in Threads \ {t} : pc[u] \notin Deleting
  BY DEF MutexInv
<1> QED
  BY <1>1, ThreadsAssumption DEF TypeOK, MutexInv, Moves, Threads

\* Every step keeps: who deletes holds the mutex, and nobody is in the list.
LEMMA MutexStep ==
  ASSUME SessionInv, [Next]_vars
  PROVE  MutexInv'
<1>a. TypeOK /\ PlaceInv /\ MutexInv
  BY DEF SessionInv
<1>b. CallBackThread \in Threads /\ Clients \subseteq Threads
  BY DEF Threads
<1> USE <1>a
<1>1. ASSUME NEW t \in Clients,
             \/ HDCPCreate(t)
             \/ \E s \in Handles \cup {NoHandle} : HDCPUse(t, s)
             \/ \E s \in Handles : HDCPDestroy(t, s)
      PROVE  MutexInv'
  <2>1. pc[t] = "idle" /\ UNCHANGED <<iteratorMutex, work, iteratorReference>>
    BY <1>1 DEF HDCPCreate, HDCPUse, HDCPDestroy
  <2>2. \E place \in {"init", "enter", "destroy"} : \E name, st, s : Moves(t, place, name, st, s)
    BY <1>1, OutsideMoves, Zenon
  <2> QED
    BY <1>b, <2>1, <2>2, MutexUntouched DEF Deleting
<1>2. ASSUME NEW t \in Threads, Insert(t) PROVE MutexInv'
  <2>1. pc[t] = "insert" /\ UNCHANGED <<iteratorMutex, work, iteratorReference>>
    BY <1>2 DEF Insert
  <2> QED
    BY <1>2, <2>1, LockMoves, MutexUntouched DEF Deleting
<1>3. ASSUME NEW t \in Threads, IteratorCriticalSectionEnter(t) PROVE MutexInv'
  <2>1. pc[t] = "enter" /\ MutexFree /\ UNCHANGED <<iteratorMutex, work>>
    BY <1>3 DEF IteratorCriticalSectionEnter
  <2> QED
    BY <1>3, <2>1, LockMoves, MutexUntouched DEF Deleting
<1>4. \A t \in Threads : Leaves(t) =>
          \E place \in {"use", "destroy", "idle", "walk"} : \E name, st, s :
              Moves(t, place, name, st, s)
  BY DEF Leaves, Returns
<1>5. ASSUME NEW t \in Threads, IteratorCriticalSectionExit(t) PROVE MutexInv'
  <2>1. pc[t] = "exit" /\ MutexFree /\ iteratorReference' = iteratorReference - 1
    BY <1>5 DEF IteratorCriticalSectionExit
  <2>2. CASE ExitMustDelete
    <3>1. /\ iteratorMutex' = t /\ work' = [work EXCEPT ![t] = pendingDestroyQueue]
          /\ iteratorReference' = 0 /\ pendingDestroyQueue # <<>>
      BY <1>5, <2>1, <2>2 DEF IteratorCriticalSectionExit, ExitMustDelete
    <3>2. Moves(t, "delete", op[t], stage[t], cur[t])
      BY <1>5, <2>2, LockMoves
    <3> QED
      BY <2>1, <3>1, <3>2, MutexTaken
  <2>3. CASE ~ExitMustDelete
    <3>1. UNCHANGED <<iteratorMutex, work>> /\ Leaves(t)
      BY <1>5, <2>3, LockMoves DEF IteratorCriticalSectionExit
    <3> QED
      BY <1>4, <2>1, <3>1, MutexUntouched DEF Deleting
  <2> QED
    BY <2>2, <2>3
<1>6. ASSUME NEW t \in Threads, DestroySession(t) PROVE MutexInv'
  <2>1. pc[t] = "destroy" /\ MutexFree /\ UNCHANGED iteratorReference
    BY <1>6 DEF DestroySession
  <2>2. CASE Destroyable(cur[t]) /\ SafeToDelete
    <3>1. /\ iteratorMutex' = t /\ work' = [work EXCEPT ![t] = <<cur[t]>>]
          /\ iteratorReference' = 0 /\ <<cur[t]>> # <<>>
      BY <1>6, <2>1, <2>2 DEF DestroySession, SafeToDelete
    <3>2. Moves(t, "delete", op[t], stage[t], cur[t])
      BY <1>6, <2>2, LockMoves
    <3> QED
      BY <2>1, <3>1, <3>2, MutexTaken
  <2>3. CASE ~(Destroyable(cur[t]) /\ SafeToDelete)
    <3>1. UNCHANGED <<iteratorMutex, work>> /\ Returns(t)
      BY <1>6, <2>3, LockMoves DEF DestroySession
    <3> QED
      BY <2>1, <3>1, MutexUntouched DEF Deleting, Returns
  <2> QED
    BY <2>2, <2>3
<1>7. ASSUME NEW t \in Threads, InitCallBackOk(t) PROVE MutexInv'
  <2>1. /\ pc[t] = "init" /\ pc[CallBackThread] = "none"
        /\ UNCHANGED <<iteratorMutex, work, iteratorReference, stage>>
    BY <1>7, <1>b DEF InitCallBackOk, PlaceInv
  <2>2. /\ pc'[t] = "insert" /\ pc'[CallBackThread] = "idle"
        /\ \A u \in Threads \ {t, CallBackThread} : pc'[u] = pc[u]
    BY <1>7, RunMoves
  <2> QED
    BY <2>1, <2>2 DEF MutexInv, Deleting
<1>8. ASSUME NEW t \in Threads,
             \/ InitCallBackDone(t) \/ InitCallBackError(t) \/ CreateSessionError(t)
             \/ Find(t) \/ CheckPending(t) \/ IncreaseReference(t)
             \/ DecreaseReference(t) \/ Transact(t)
      PROVE  MutexInv'
  <2>1. /\ pc[t] \notin Deleting /\ UNCHANGED <<iteratorMutex, work, iteratorReference>>
    BY <1>8 DEF InitCallBackDone, InitCallBackError, CreateSessionError, Find,
                CheckPending, IncreaseReference, DecreaseReference, Transact, Deleting
  <2>2. \E place \in PCs \ Deleting : \E name, st, s : Moves(t, place, name, st, s)
    <3>1. {"insert", "walk", "idle", "check", "drop", "exit", "grab", "enter"}
              \subseteq PCs \ Deleting
      BY DEF PCs, Deleting
    <3> QED
      BY <1>8, <3>1, RunMoves DEF Returns
  <2> QED
    BY <2>1, <2>2, MutexUntouched
<1>9. ASSUME NEW t \in Threads, Delete(t) \/ Wakeup(t) PROVE MutexInv'
  <2>1. /\ pc[t] \in Deleting /\ UNCHANGED <<iteratorMutex, work, iteratorReference>>
    BY <1>9 DEF Delete, Wakeup, Deleting
  <2>2. work' = [work EXCEPT ![t] = work[t]] /\ work[t] # <<>>
    BY <2>1 DEF TypeOK, MutexInv
  <2>3. \E place \in Deleting : Moves(t, place, op[t], stage[t], cur[t])
    BY <1>9, LockMoves DEF Deleting
  <2> QED
    BY <2>1, <2>2, <2>3, MutexKept
<1>10. ASSUME NEW t \in Threads, Unlink(t) PROVE MutexInv'
  <2>1. /\ pc[t] \in Deleting /\ UNCHANGED iteratorReference
        /\ work' = [work EXCEPT ![t] = Tail(work[t])]
    BY <1>10 DEF Unlink, Deleting
  <2>2. CASE Tail(work[t]) # <<>>
    <3>1. Moves(t, "delete", op[t], stage[t], cur[t]) /\ UNCHANGED iteratorMutex
      BY <1>10, <2>2, LockMoves DEF Unlink
    <3> QED
      BY <2>1, <2>2, <3>1, MutexKept DEF Deleting
  <2>3. CASE Tail(work[t]) = <<>>
    <3>1. \E place \in {"gone", "use", "destroy", "idle", "walk"} : \E name, st, s :
              Moves(t, place, name, st, s)
      BY <1>4, <1>10, <2>3, LockMoves DEF Returns
    <3>2. iteratorMutex' = NoThread
      BY <1>10, <2>3 DEF Unlink
    <3> QED
      BY <2>1, <2>3, <3>1, <3>2, MutexGiven DEF Deleting
  <2> QED
    BY <2>2, <2>3
<1>11. CASE CallBackStep
  <2>1. CASE \E s \in Handles : CallBack(s)
    BY <2>1 DEF CallBack, MutexInv
  <2>2. CASE ~\E s \in Handles : CallBack(s)
    <3>1. /\ pc[CallBackThread] \in {"idle", "walk"}
          /\ UNCHANGED <<iteratorMutex, work, iteratorReference>>
      BY <1>11, <2>2 DEF CallBackStep, ReceiveReport, CallBackUses, CallBackDestroys,
                         WalkDone
    <3>2. \E place \in {"enter", "destroy", "exit"} : \E name, st, s :
              Moves(CallBackThread, place, name, st, s)
      BY <1>11, <2>2, OutsideMoves, Zenon DEF CallBackStep
    <3> QED
      BY <1>b, <3>1, <3>2, MutexUntouched DEF Deleting
  <2> QED
    BY <2>1, <2>2
<1>12. CASE DestroyCallback
  <2>1. pc[CallBackThread] = "idle" /\ MutexFree /\ UNCHANGED iteratorReference
    BY <1>12 DEF DestroyCallback
  <2>2. CASE sessionList = {}
    <3>1. Moves(CallBackThread, "gone", op[CallBackThread], "teardown", cur[CallBackThread])
      BY <1>12, <2>2, OutsideMoves
    <3>2. UNCHANGED <<iteratorMutex, work>>
      BY <1>12, <2>2 DEF DestroyCallback
    <3> QED
      BY <1>b, <2>1, <3>1, <3>2, MutexUntouched DEF Deleting
  <2>3. CASE sessionList # {}
    <3>1. Moves(CallBackThread, "delete", op[CallBackThread], "teardown", cur[CallBackThread])
      BY <1>12, <2>3, OutsideMoves
    <3>2. PICK order : /\ work' = [work EXCEPT ![CallBackThread] = order]
                       /\ \A s \in sessionList : \E i \in DOMAIN order : order[i] = s
      BY <1>12, <2>3 DEF DestroyCallback
    <3>3. iteratorMutex' = CallBackThread
      BY <1>12, <2>3 DEF DestroyCallback
    <3>4. order # <<>>
      BY <2>3, <3>2
    <3> QED
      BY <1>b, <2>1, <3>1, <3>2, <3>3, <3>4, MutexTaken
  <2> QED
    BY <2>2, <2>3
<1>13. CASE DaemonReports \/ DaemonStops \/ DaemonRestarts \/ UNCHANGED vars
  BY <1>13 DEF DaemonReports, DaemonStops, DaemonRestarts, vars, threadVars, MutexInv
<1> QED
  BY <1>1, <1>2, <1>3, <1>5, <1>6, <1>7, <1>8, <1>9, <1>10, <1>11, <1>12, <1>13
  DEF Next, ClientCall, LockStep, RunStep

-----------------------------------------------------------------------------
(***************************************************************************)
(* m_IteratorReference                                                     *)
(***************************************************************************)
\* How often a thread is counted by m_IteratorReference: for its walk, and for
\* the round of callbacks that it may be in.
Inside(t) ==
    (IF pc[t] \in Walking THEN 1 ELSE 0)
        + (IF t = CallBackThread /\ InRound THEN 1 ELSE 0)

\* The counter follows the one thread that moves.
LEMMA InsideMoves ==
  ASSUME TypeOK, IteratorInv, NEW t \in Threads,
         \A u \in Threads \ {t} : pc'[u] = pc[u] /\ op'[u] = op[u],
         iteratorReference' = iteratorReference - Inside(t) + Inside(t)'
  PROVE  IteratorInv'
<1>1. /\ Cardinality(Walkers) \in Nat /\ iteratorReference \in Nat
      /\ Walkers \subseteq Threads
  BY ThreadsCounted DEF TypeOK, Walkers
<1>2. Walkers' = IF pc'[t] \in Walking THEN Walkers \cup {t} ELSE Walkers \ {t}
  BY DEF Walkers
<1>3. t \in Walkers <=> pc[t] \in Walking
  BY DEF Walkers
<1>4. Cardinality(Walkers') = Cardinality(Walkers)
          - (IF pc[t] \in Walking THEN 1 ELSE 0)
          + (IF pc'[t] \in Walking THEN 1 ELSE 0)
  <2>1. CASE pc[t] \in Walking <=> pc'[t] \in Walking
    <3>1. Walkers' = Walkers
      BY <1>2, <1>3, <2>1
    <3> QED
      BY <1>1, <2>1, <3>1
  <2>2. CASE pc[t] \in Walking /\ pc'[t] \notin Walking
    BY <1>1, <1>2, <1>3, <2>2, ThreadsChange
  <2>3. CASE pc[t] \notin Walking /\ pc'[t] \in Walking
    BY <1>1, <1>2, <1>3, <2>3, ThreadsChange
  <2> QED
    BY <2>1, <2>2, <2>3
<1>5. t # CallBackThread => (InRound' <=> InRound)
  BY DEF InRound, Threads
<1> QED
  BY <1>1, <1>4, <1>5 DEF IteratorInv, Inside

\* A thread that moves outside the list, or along it.
LEMMA InsideSame ==
  ASSUME TypeOK, IteratorInv, NEW t \in Threads, NEW place, NEW name, NEW st, NEW s,
         Moves(t, place, name, st, s), UNCHANGED iteratorReference,
         pc[t] \in Walking <=> place \in Walking,
         t = CallBackThread =>
             (InRound <=> place = "walk" \/ name # "none")
  PROVE  IteratorInv'
<1>1. Inside(t)' = Inside(t)
  BY DEF Moves, Inside, InRound
<1>2. \A u \in Threads \ {t} : pc'[u] = pc[u] /\ op'[u] = op[u]
  BY DEF Moves
<1>3. iteratorReference \in Nat /\ Inside(t) \in Nat
  BY DEF TypeOK, Inside
<1>4. iteratorReference' = iteratorReference - Inside(t) + Inside(t)'
  BY <1>1, <1>3
<1> QED
  BY <1>2, <1>4, InsideMoves

\* Every step keeps: m_IteratorReference is the number of threads in the list.
LEMMA IteratorStep ==
  ASSUME SessionInv, [Next]_vars
  PROVE  IteratorInv'
<1>a. TypeOK /\ PlaceInv /\ IteratorInv
  BY DEF SessionInv
<1>b. CallBackThread \in Threads /\ Clients \subseteq Threads /\ CallBackThread \notin Clients
  BY ThreadsAssumption DEF Threads
<1>c. \A t \in Threads : PlaceOf(t)
  BY <1>a DEF PlaceInv
<1>d. iteratorReference \in Nat
  BY <1>a DEF TypeOK
<1> USE <1>a
<1>1. ASSUME NEW t \in Clients,
             \/ HDCPCreate(t)
             \/ \E s \in Handles \cup {NoHandle} : HDCPUse(t, s)
             \/ \E s \in Handles : HDCPDestroy(t, s)
      PROVE  IteratorInv'
  <2>1. pc[t] = "idle" /\ UNCHANGED iteratorReference
    BY <1>1 DEF HDCPCreate, HDCPUse, HDCPDestroy
  <2>2. \E place \in {"init", "enter", "destroy"} : \E name, st, s : Moves(t, place, name, st, s)
    BY <1>1, OutsideMoves, Zenon
  <2> QED
    BY <1>b, <2>1, <2>2, InsideSame DEF Walking
<1>2. ASSUME NEW t \in Threads, Insert(t) PROVE IteratorInv'
  <2>1. pc[t] = "insert" /\ UNCHANGED iteratorReference /\ t # CallBackThread
    BY <1>2, <1>b, <1>c DEF Insert, PlaceOf
  <2>2. Moves(t, "enter", op[t], "get", cur[t])
    BY <1>2, LockMoves
  <2> QED
    BY <2>1, <2>2, InsideSame DEF Walking
<1>3. ASSUME NEW t \in Threads, IteratorCriticalSectionEnter(t) PROVE IteratorInv'
  <2>1. pc[t] = "enter" /\ iteratorReference' = iteratorReference + 1
    BY <1>3 DEF IteratorCriticalSectionEnter
  <2>2. Moves(t, IF stage[t] = "iterate" THEN "walk" ELSE "find", op[t], stage[t], cur[t])
    BY <1>3, LockMoves
  <2>3. /\ stage[t] = "iterate" => t = CallBackThread /\ op[t] = "none"
        /\ stage[t] # "iterate" => op[t] # "none"
    BY <1>c, <2>1 DEF PlaceOf
  <2>4. Inside(t)' = Inside(t) + 1
    BY <2>1, <2>2, <2>3 DEF Moves, Inside, InRound, Walking
  <2>5. iteratorReference' = iteratorReference - Inside(t) + Inside(t)'
    BY <1>d, <2>1, <2>4 DEF Inside
  <2> QED
    BY <2>2, <2>5, InsideMoves DEF Moves
<1>4. ASSUME NEW t \in Threads, Leaves(t), PlaceOf(t), pc[t] \in {"exit", "unlink"}
      PROVE  \E place \in {"use", "destroy", "idle", "walk"} : \E name, st, s :
                 /\ Moves(t, place, name, st, s)
                 /\ t = CallBackThread => (InRound <=> place = "walk" \/ name # "none")
  <2>1. CASE Returns(t)
    <3>1. stage[t] \in {"miss", "put"}
      BY <1>4, <2>1 DEF Leaves, Returns, Moves, PlaceOf
    <3>2. op[t] # "none"
      BY <1>4, <3>1 DEF PlaceOf
    <3> QED
      BY <2>1, <3>2 DEF Returns, InRound
  <2>2. CASE stage[t] = "get" /\ Moves(t, "use", op[t], "get", cur[t])
    BY <1>4, <2>2 DEF InRound
  <2>3. CASE op[t] = "failed" /\ Moves(t, "destroy", "failed", "destroy", cur[t])
    BY <1>4, <2>3 DEF InRound
  <2>4. CASE Moves(t, "idle", op[t], "none", cur[t])
    BY <1>4, <2>4 DEF InRound
  <2> QED
    BY <1>4, <2>1, <2>2, <2>3, <2>4 DEF Leaves
<1>5. ASSUME NEW t \in Threads, IteratorCriticalSectionExit(t) PROVE IteratorInv'
  <2>1. pc[t] = "exit" /\ iteratorReference' = iteratorReference - 1
    BY <1>5 DEF IteratorCriticalSectionExit
  <2>2. PICK place, name, st, s :
            /\ place \in {"use", "destroy", "idle", "walk", "delete"}
            /\ Moves(t, place, name, st, s)
            /\ t = CallBackThread => (InRound <=> place = "walk" \/ name # "none")
    <3>1. CASE Leaves(t)
      BY <1>4, <1>c, <2>1, <3>1
    <3>2. CASE Moves(t, "delete", op[t], stage[t], cur[t])
      BY <2>1, <3>2 DEF InRound
    <3> QED
      BY <1>5, <3>1, <3>2, LockMoves
  <2>3. Inside(t)' = Inside(t) - 1
    BY <2>1, <2>2 DEF Moves, Inside, InRound, Walking
  <2>4. iteratorReference' = iteratorReference - Inside(t) + Inside(t)'
    BY <1>d, <2>1, <2>3 DEF Inside
  <2> QED
    BY <2>2, <2>4, InsideMoves DEF Moves
<1>6. ASSUME NEW t \in Threads, DestroySession(t) PROVE IteratorInv'
  <2>1. pc[t] = "destroy" /\ UNCHANGED iteratorReference
    BY <1>6 DEF DestroySession
  <2>2. op[t] # "none"
    BY <1>c, <2>1 DEF PlaceOf
  <2>3. Returns(t) \/ Moves(t, "delete", op[t], stage[t], cur[t])
    BY <1>6, LockMoves
  <2> QED
    BY <2>1, <2>2, <2>3, InsideSame DEF Walking, Returns, InRound
<1>7. ASSUME NEW t \in Threads, InitCallBackOk(t) PROVE IteratorInv'
  <2>1. /\ pc[t] = "init" /\ pc[CallBackThread] = "none" /\ UNCHANGED iteratorReference
    BY <1>7, <1>b DEF InitCallBackOk, PlaceInv
  <2>2. /\ pc'[t] = "insert" /\ pc'[CallBackThread] = "idle" /\ UNCHANGED op
        /\ \A u \in Threads \ {t, CallBackThread} : pc'[u] = pc[u]
    BY <1>7, RunMoves
  <2>3. Walkers' = Walkers /\ (InRound' <=> InRound)
    BY <2>1, <2>2 DEF Walkers, Walking, InRound
  <2> QED
    BY <2>1, <2>3 DEF IteratorInv
<1>8. ASSUME NEW t \in Threads,
             InitCallBackDone(t) \/ InitCallBackError(t) \/ CreateSessionError(t)
      PROVE  IteratorInv'
  <2>1. pc[t] \in {"init", "insert"} /\ UNCHANGED iteratorReference
    BY <1>8 DEF InitCallBackDone, InitCallBackError, CreateSessionError
  <2>2. t # CallBackThread
    BY <1>b, <1>c, <2>1 DEF PlaceOf
  <2>3. Returns(t) \/ Moves(t, "insert", op[t], stage[t], cur[t])
    BY <1>8, RunMoves
  <2> QED
    BY <2>1, <2>2, <2>3, InsideSame DEF Walking, Returns
<1>9. ASSUME NEW t \in Threads,
             Find(t) \/ CheckPending(t) \/ IncreaseReference(t) \/ DecreaseReference(t)
      PROVE  IteratorInv'
  <2>1. pc[t] \in {"find", "check", "grab", "drop"} /\ UNCHANGED iteratorReference
    BY <1>9 DEF Find, CheckPending, IncreaseReference, DecreaseReference
  <2>2. op[t] # "none"
    BY <1>c, <2>1 DEF PlaceOf
  <2>3. PICK place, st, s :
            place \in {"check", "drop", "exit", "grab"} /\ Moves(t, place, op[t], st, s)
    BY <1>9, RunMoves
  <2> QED
    BY <2>1, <2>2, <2>3, InsideSame DEF Walking, InRound
<1>10. ASSUME NEW t \in Threads, Transact(t) PROVE IteratorInv'
  <2>1. pc[t] = "use" /\ UNCHANGED iteratorReference
    BY <1>10 DEF Transact
  <2>2. op[t] # "none"
    BY <1>c, <2>1 DEF PlaceOf
  <2>3. PICK name \in {"created", "failed", "use"} : Moves(t, "enter", name, "put", cur[t])
    BY <1>10, RunMoves
  <2> QED
    BY <2>1, <2>2, <2>3, InsideSame DEF Walking, InRound
<1>11. ASSUME NEW t \in Threads, Delete(t) \/ Wakeup(t) PROVE IteratorInv'
  <2>1. pc[t] \in {"delete", "wait"} /\ UNCHANGED iteratorReference
    BY <1>11 DEF Delete, Wakeup
  <2>2. PICK place \in {"wait", "unlink"} : Moves(t, place, op[t], stage[t], cur[t])
    BY <1>11, LockMoves
  <2> QED
    BY <2>1, <2>2, InsideSame DEF Walking, InRound
<1>12. ASSUME NEW t \in Threads, Unlink(t) PROVE IteratorInv'
  <2>1. pc[t] = "unlink" /\ UNCHANGED iteratorReference
    BY <1>12 DEF Unlink
  <2>2. CASE Leaves(t)
    BY <1>4, <1>c, <2>1, <2>2, InsideSame DEF Walking
  <2>3. CASE stage[t] = "destroy" /\ Returns(t)
    <3>1. op[t] # "none"
      BY <1>c, <2>3 DEF PlaceOf
    <3> QED
      BY <2>1, <2>3, <3>1, InsideSame DEF Walking, InRound, Returns
  <2>4. CASE \E place \in {"delete", "gone"} : Moves(t, place, op[t], stage[t], cur[t])
    BY <2>1, <2>4, InsideSame DEF Walking, InRound
  <2> QED
    BY <1>12, <2>2, <2>3, <2>4, LockMoves
<1>13. CASE ReceiveReport
  <2>1. pc[CallBackThread] = "idle" /\ UNCHANGED iteratorReference
    BY <1>13 DEF ReceiveReport
  <2>2. op[CallBackThread] = "none"
    BY <1>b, <1>c, <2>1 DEF PlaceOf
  <2> QED
    BY <1>b, <1>13, <2>1, <2>2, OutsideMoves, InsideSame DEF Walking, InRound
<1>14. ASSUME NEW s, NEW h, CallBackUses(s, h) \/ CallBackDestroys(s, h)
       PROVE  IteratorInv'
  <2>1. pc[CallBackThread] = "walk" /\ UNCHANGED iteratorReference
    BY <1>14 DEF CallBackUses, CallBackDestroys
  <2>2. \E place \in {"enter", "destroy"}, name \in {"use", "destroy"} : \E st :
            Moves(CallBackThread, place, name, st, h)
    BY <1>14, OutsideMoves
  <2> QED
    BY <1>b, <2>1, <2>2, InsideSame DEF Walking, InRound
<1>15. CASE WalkDone
  \* The round ends and its thread is counted for the way out.
  <2>1. pc[CallBackThread] = "walk" /\ UNCHANGED iteratorReference
    BY <1>15 DEF WalkDone
  <2>2. op[CallBackThread] = "none"
    BY <1>b, <1>c, <2>1 DEF PlaceOf
  <2>3. Moves(CallBackThread, "exit", op[CallBackThread], "iterate", cur[CallBackThread])
    BY <1>15, OutsideMoves
  <2>4. Inside(CallBackThread) = 1 /\ Inside(CallBackThread)' = 1
    BY <2>1, <2>2, <2>3 DEF Moves, Inside, InRound, Walking
  <2>5. iteratorReference' =
            iteratorReference - Inside(CallBackThread) + Inside(CallBackThread)'
    BY <1>d, <2>1, <2>4
  <2> QED
    BY <1>b, <2>3, <2>5, InsideMoves DEF Moves
<1>16. CASE DestroyCallback
  <2>1. pc[CallBackThread] = "idle" /\ UNCHANGED iteratorReference
    BY <1>16 DEF DestroyCallback
  <2>2. op[CallBackThread] = "none"
    BY <1>b, <1>c, <2>1 DEF PlaceOf
  <2> QED
    BY <1>b, <1>16, <2>1, <2>2, OutsideMoves, InsideSame DEF Walking, InRound
<1>17. ASSUME UNCHANGED <<pc, op, iteratorReference>> PROVE IteratorInv'
  BY <1>17 DEF IteratorInv, Walkers, InRound
<1>18. CASE \/ \E s \in Handles : CallBack(s)
            \/ DaemonReports \/ DaemonStops \/ DaemonRestarts \/ UNCHANGED vars
  BY <1>17, <1>18 DEF CallBack, DaemonReports, DaemonStops, DaemonRestarts, vars, threadVars
<1> QED
  BY <1>1, <1>2, <1>3, <1>5, <1>6, <1>7, <1>8, <1>9, <1>10, <1>11, <1>12, <1>13,
     <1>14, <1>15, <1>16, <1>18
  DEF Next, ClientCall, LockStep, RunStep, CallBackStep

-----------------------------------------------------------------------------
(***************************************************************************)
(* m_ActiveReferences                                                      *)
(***************************************************************************)
\* The thread holds a reference to its session.
Referring(t) == Holds(t, cur[t])

\* The number of holders of a session follows the one thread that moves.
LEMMA HolderMoves ==
  ASSUME NEW s \in Handles, NEW t \in Threads,
         \A u \in Threads \ {t} : Holds(u, s)' <=> Holds(u, s)
  PROVE  Cardinality(Holders(s)') = Cardinality(Holders(s))
             - (IF Holds(t, s) THEN 1 ELSE 0) + (IF Holds(t, s)' THEN 1 ELSE 0)
<1>1. /\ Cardinality(Holders(s)) \in Nat /\ Holders(s) \subseteq Threads
  BY ThreadsCounted DEF Holders
<1>2. Holders(s)' = IF Holds(t, s)' THEN Holders(s) \cup {t} ELSE Holders(s) \ {t}
  BY DEF Holders
<1>3. t \in Holders(s) <=> Holds(t, s)
  BY DEF Holders
<1>4. CASE Holds(t, s) <=> Holds(t, s)'
  <2>1. Holders(s)' = Holders(s)
    BY <1>2, <1>3, <1>4
  <2> QED
    BY <1>1, <1>4, <2>1
<1>5. CASE Holds(t, s) /\ ~Holds(t, s)'
  BY <1>1, <1>2, <1>3, <1>5, ThreadsChange
<1>6. CASE ~Holds(t, s) /\ Holds(t, s)'
  BY <1>1, <1>2, <1>3, <1>6, ThreadsChange
<1> QED
  BY <1>4, <1>5, <1>6

\* A step that neither takes nor gives back a reference.
LEMMA ReferencesKept ==
  ASSUME ReferenceInv, UNCHANGED activeReferences, alive' \subseteq alive,
         \A s \in Handles, u \in Threads : Holds(u, s)' <=> Holds(u, s)
  PROVE  ReferenceInv'
<1>1. \A s \in Handles : Holders(s)' = Holders(s)
  BY DEF Holders
<1> QED
  BY <1>1 DEF ReferenceInv

\* Such is the step of a thread that moves with the reference it has, or without
\* one.
LEMMA ReferencesMove ==
  ASSUME ReferenceInv, UNCHANGED activeReferences, alive' \subseteq alive,
         NEW t \in Threads, NEW place, NEW name, NEW st, NEW c,
         Moves(t, place, name, st, c),
         Referring(t)' <=> Referring(t), Referring(t) => c = cur[t]
  PROVE  ReferenceInv'
<1>1. \A s \in Handles : \A u \in Threads \ {t} : Holds(u, s)' <=> Holds(u, s)
  BY DEF Moves, Holds
<1>2. \A s \in Handles : Holds(t, s)' <=> Holds(t, s)
  BY DEF Moves, Holds, Referring
<1> QED
  BY <1>1, <1>2, ReferencesKept

\* Every step keeps: a session's references are its users.
LEMMA ReferenceStep ==
  ASSUME SessionInv, [Next]_vars
  PROVE  ReferenceInv'
<1>a. TypeOK /\ PlaceInv /\ ReferenceInv
  BY DEF SessionInv
<1>b. CallBackThread \in Threads /\ Clients \subseteq Threads /\ CallBackThread \notin Clients
  BY ThreadsAssumption DEF Threads
<1>c. \A t \in Threads : PlaceOf(t)
  BY <1>a DEF PlaceInv
<1>d. \A s \in Handles : activeReferences[s] \in Nat /\ Cardinality(Holders(s)) \in Nat
  BY <1>a, ThreadsCounted DEF TypeOK, Holders
<1> USE <1>a
<1>1. ASSUME NEW t \in Clients,
             \/ HDCPCreate(t)
             \/ \E s \in Handles \cup {NoHandle} : HDCPUse(t, s)
             \/ \E s \in Handles : HDCPDestroy(t, s)
      PROVE  ReferenceInv'
  <2>1. pc[t] = "idle" /\ UNCHANGED <<activeReferences, alive>>
    BY <1>1 DEF HDCPCreate, HDCPUse, HDCPDestroy, listVars
  <2>2. PICK place, name, st, s :
            /\ place \in {"init", "enter", "destroy"}
            /\ Moves(t, place, name, st, s) /\ st # "put"
    BY <1>1, OutsideMoves
  <2>3. ~Referring(t) /\ ~Referring(t)'
    BY <2>1, <2>2 DEF Moves, Referring, Holds
  <2> QED
    BY <1>b, <2>1, <2>2, <2>3, ReferencesMove
<1>2. ASSUME NEW t \in Threads, Insert(t) PROVE ReferenceInv'
  <2>1. /\ pc[t] = "insert" /\ alive' = alive \cup {cur[t]} /\ UNCHANGED activeReferences
    BY <1>2 DEF Insert
  <2>2. Moves(t, "enter", op[t], "get", cur[t])
    BY <1>2, LockMoves
  <2>3. \A s \in Handles, u \in Threads : Holds(u, s)' <=> Holds(u, s)
    BY <2>1, <2>2 DEF Moves, Holds
  <2>4. \A s \in Handles : Holders(s)' = Holders(s)
    BY <2>3 DEF Holders
  <2>5. activeReferences[cur[t]] = 0 /\ cur[t] \in Handles
    BY <1>c, <2>1 DEF SessionInv, FreshInv, Unknown, PlaceOf
  <2>6. activeReferences[cur[t]] = Cardinality(Holders(cur[t]))
    BY <1>d, <2>5 DEF ReferenceInv
  <2> QED
    BY <2>1, <2>4, <2>6 DEF ReferenceInv
<1>3. ASSUME NEW t \in Threads, IteratorCriticalSectionEnter(t) PROVE ReferenceInv'
  <2>1. pc[t] = "enter" /\ UNCHANGED <<activeReferences, alive>>
    BY <1>3 DEF IteratorCriticalSectionEnter, listVars
  <2>2. Moves(t, IF stage[t] = "iterate" THEN "walk" ELSE "find", op[t], stage[t], cur[t])
    BY <1>3, LockMoves
  <2>3. Referring(t)' <=> Referring(t)
    BY <2>1, <2>2 DEF Moves, Referring, Holds
  <2> QED
    BY <2>1, <2>2, <2>3, ReferencesMove
<1>4. ASSUME NEW t \in Threads, Leaves(t), pc[t] \in {"exit", "unlink"},
             UNCHANGED activeReferences, alive' \subseteq alive
      PROVE  ReferenceInv'
  <2>1. CASE stage[t] = "get" /\ Moves(t, "use", op[t], "get", cur[t])
    <3>1. Referring(t)' <=> Referring(t)
      BY <1>4, <2>1 DEF Moves, Referring, Holds
    <3> QED
      BY <1>4, <2>1, <3>1, ReferencesMove
  <2>2. CASE stage[t] # "get"
    <3>1. PICK place, name, st, s :
              place \in {"destroy", "idle", "walk"} /\ Moves(t, place, name, st, s)
      BY <1>4, <2>2 DEF Leaves, Returns
    <3>2. ~Referring(t) /\ ~Referring(t)'
      BY <1>4, <2>2, <3>1 DEF Moves, Referring, Holds
    <3> QED
      BY <1>4, <3>1, <3>2, ReferencesMove
  <2> QED
    BY <1>4, <2>1, <2>2 DEF Leaves
<1>5. ASSUME NEW t \in Threads, IteratorCriticalSectionExit(t) PROVE ReferenceInv'
  <2>1. pc[t] = "exit" /\ UNCHANGED <<activeReferences, alive>>
    BY <1>5 DEF IteratorCriticalSectionExit, listVars
  <2>2. CASE Moves(t, "delete", op[t], stage[t], cur[t])
    <3>1. Referring(t)' <=> Referring(t)
      BY <2>1, <2>2 DEF Moves, Referring, Holds
    <3> QED
      BY <2>1, <2>2, <3>1, ReferencesMove
  <2> QED
    BY <1>4, <1>5, <2>1, <2>2, LockMoves
<1>6. ASSUME NEW t \in Threads, DestroySession(t) PROVE ReferenceInv'
  <2>1. pc[t] = "destroy" /\ UNCHANGED <<activeReferences, alive>> /\ stage[t] = "destroy"
    BY <1>6, <1>c DEF DestroySession, PlaceOf
  <2>2. Returns(t) \/ Moves(t, "delete", op[t], stage[t], cur[t])
    BY <1>6, LockMoves
  <2>3. ~Referring(t) /\ ~Referring(t)'
    BY <2>1, <2>2 DEF Moves, Returns, Referring, Holds
  <2> QED
    BY <2>1, <2>2, <2>3, ReferencesMove DEF Returns
<1>7. ASSUME NEW t \in Threads, InitCallBackOk(t) PROVE ReferenceInv'
  <2>1. /\ pc[t] = "init" /\ pc[CallBackThread] = "none"
        /\ UNCHANGED <<activeReferences, alive>>
    BY <1>7, <1>b DEF InitCallBackOk, PlaceInv, listVars
  <2>2. /\ pc'[t] = "insert" /\ pc'[CallBackThread] = "idle" /\ UNCHANGED <<stage, cur>>
        /\ \A u \in Threads \ {t, CallBackThread} : pc'[u] = pc[u]
    BY <1>7, RunMoves
  <2>3. \A s \in Handles, u \in Threads : Holds(u, s)' <=> Holds(u, s)
    BY <2>1, <2>2 DEF Holds
  <2> QED
    BY <2>1, <2>3, ReferencesKept
<1>8. ASSUME NEW t \in Threads,
             \/ InitCallBackDone(t) \/ InitCallBackError(t) \/ CreateSessionError(t)
             \/ CheckPending(t)
      PROVE  ReferenceInv'
  <2>1. pc[t] \in {"init", "insert", "check"} /\ UNCHANGED <<activeReferences, alive>>
    BY <1>8 DEF InitCallBackDone, InitCallBackError, CreateSessionError, CheckPending,
                listVars
  <2>2. PICK place, name, st, s :
            /\ Moves(t, place, name, st, s)
            /\ place \in {"walk", "idle", "insert", "grab", "exit"}
            /\ place = "exit" => st = "miss"
    BY <1>8, RunMoves DEF Returns
  <2>3. ~Referring(t) /\ ~Referring(t)'
    BY <2>1, <2>2 DEF Moves, Referring, Holds
  <2> QED
    BY <2>1, <2>2, <2>3, ReferencesMove
<1>9. ASSUME NEW t \in Threads, Find(t) PROVE ReferenceInv'
  <2>1. pc[t] = "find" /\ UNCHANGED <<activeReferences, alive>> /\ stage[t] \in {"get", "put"}
    BY <1>9, <1>c DEF Find, listVars, PlaceOf
  <2>2. CASE /\ cur[t] \in sessionList
             /\ Moves(t, IF stage[t] = "get" THEN "check" ELSE "drop",
                      op[t], stage[t], cur[t])
    <3>1. Referring(t)' <=> Referring(t)
      BY <2>1, <2>2 DEF Moves, Referring, Holds
    <3> QED
      BY <2>1, <2>2, <3>1, ReferencesMove
  <2>3. CASE stage[t] = "get" /\ Moves(t, "exit", op[t], "miss", cur[t])
    <3>1. Referring(t)' <=> Referring(t)
      BY <2>1, <2>3 DEF Moves, Referring, Holds
    <3> QED
      BY <2>1, <2>3, <3>1, ReferencesMove
  <2>4. CASE /\ stage[t] = "put" /\ cur[t] \notin sessionList
             /\ Moves(t, "exit", op[t], "put", cur[t])
    \* The session is gone, and so is its counter.
    <3>1. \A s \in Handles, u \in Threads \ {t} : Holds(u, s)' <=> Holds(u, s)
      BY <2>4 DEF Moves, Holds
    <3>2. \A s \in Handles : ~Holds(t, s)' /\ (Holds(t, s) => s = cur[t])
      BY <2>4 DEF Moves, Holds
    <3>3. cur[t] \notin alive
      BY <2>4 DEF SessionInv, ListInv
    <3>4. ASSUME NEW s \in Handles
          PROVE  /\ activeReferences'[s] >= Cardinality(Holders(s)')
                 /\ s \in alive' => activeReferences'[s] = Cardinality(Holders(s)')
      <4>1. Cardinality(Holders(s)') =
                Cardinality(Holders(s)) - (IF Holds(t, s) THEN 1 ELSE 0)
                    + (IF Holds(t, s)' THEN 1 ELSE 0)
        BY <3>1, HolderMoves
      <4> QED
        BY <1>d, <2>1, <3>2, <3>3, <4>1 DEF ReferenceInv
    <3> QED
      BY <3>4 DEF ReferenceInv
  <2> QED
    BY <1>9, <2>1, <2>2, <2>3, <2>4, RunMoves
<1>10. ASSUME NEW t \in Threads, IncreaseReference(t) PROVE ReferenceInv'
  <2>1. /\ pc[t] = "grab" /\ stage[t] = "get" /\ cur[t] \in Handles /\ UNCHANGED alive
        /\ activeReferences' = [activeReferences EXCEPT ![cur[t]] = @ + 1]
    BY <1>10, <1>c DEF IncreaseReference, listVars, PlaceOf
  <2>2. Moves(t, "exit", op[t], stage[t], cur[t])
    BY <1>10, RunMoves
  <2>3. \A s \in Handles : \A u \in Threads \ {t} : Holds(u, s)' <=> Holds(u, s)
    BY <2>2 DEF Moves, Holds
  <2>4. \A s \in Handles : ~Holds(t, s) /\ (Holds(t, s)' <=> s = cur[t])
    BY <2>1, <2>2 DEF Moves, Holds
  <2>5. ASSUME NEW s \in Handles
        PROVE  /\ activeReferences'[s] >= Cardinality(Holders(s)')
               /\ s \in alive' => activeReferences'[s] = Cardinality(Holders(s)')
    <3>1. Cardinality(Holders(s)') =
              Cardinality(Holders(s)) - (IF Holds(t, s) THEN 1 ELSE 0)
                  + (IF Holds(t, s)' THEN 1 ELSE 0)
      BY <2>3, HolderMoves
    <3>2. activeReferences'[s] = activeReferences[s] + (IF s = cur[t] THEN 1 ELSE 0)
      BY <1>d, <2>1 DEF TypeOK
    <3> QED
      BY <1>d, <2>1, <2>4, <3>1, <3>2 DEF ReferenceInv
  <2> QED
    BY <2>5 DEF ReferenceInv
<1>11. ASSUME NEW t \in Threads, DecreaseReference(t) PROVE ReferenceInv'
  <2>1. /\ pc[t] = "drop" /\ stage[t] = "put" /\ cur[t] \in Handles /\ UNCHANGED alive
        /\ activeReferences' = [activeReferences EXCEPT ![cur[t]] = @ - 1]
    BY <1>11, <1>c DEF DecreaseReference, listVars, PlaceOf
  <2>2. Moves(t, "exit", op[t], stage[t], cur[t])
    BY <1>11, RunMoves
  <2>3. \A s \in Handles : \A u \in Threads \ {t} : Holds(u, s)' <=> Holds(u, s)
    BY <2>2 DEF Moves, Holds
  <2>4. \A s \in Handles : ~Holds(t, s)' /\ (Holds(t, s) <=> s = cur[t])
    BY <2>1, <2>2 DEF Moves, Holds
  <2>5. ASSUME NEW s \in Handles
        PROVE  /\ activeReferences'[s] >= Cardinality(Holders(s)')
               /\ s \in alive' => activeReferences'[s] = Cardinality(Holders(s)')
    <3>1. Cardinality(Holders(s)') =
              Cardinality(Holders(s)) - (IF Holds(t, s) THEN 1 ELSE 0)
                  + (IF Holds(t, s)' THEN 1 ELSE 0)
      BY <2>3, HolderMoves
    <3>2. activeReferences'[s] = activeReferences[s] - (IF s = cur[t] THEN 1 ELSE 0)
      BY <1>d, <2>1 DEF TypeOK
    <3> QED
      BY <1>d, <2>1, <2>4, <3>1, <3>2 DEF ReferenceInv
  <2> QED
    BY <2>5 DEF ReferenceInv
<1>12. ASSUME NEW t \in Threads, Transact(t) PROVE ReferenceInv'
  <2>1. pc[t] = "use" /\ UNCHANGED <<activeReferences, alive>>
    BY <1>12 DEF Transact, listVars
  <2>2. PICK name : Moves(t, "enter", name, "put", cur[t])
    BY <1>12, RunMoves
  <2>3. Referring(t) /\ Referring(t)'
    BY <2>1, <2>2 DEF Moves, Referring, Holds
  <2> QED
    BY <2>1, <2>2, <2>3, ReferencesMove
<1>13. ASSUME NEW t \in Threads, Delete(t) \/ Wakeup(t) PROVE ReferenceInv'
  <2>1. pc[t] \in {"delete", "wait"} /\ UNCHANGED activeReferences /\ alive' \subseteq alive
    BY <1>13 DEF Delete, Wakeup
  <2>2. PICK place \in {"wait", "unlink"} : Moves(t, place, op[t], stage[t], cur[t])
    BY <1>13, LockMoves
  <2>3. Referring(t)' <=> Referring(t)
    BY <2>1, <2>2 DEF Moves, Referring, Holds
  <2> QED
    BY <2>1, <2>2, <2>3, ReferencesMove
<1>14. ASSUME NEW t \in Threads, Unlink(t) PROVE ReferenceInv'
  <2>1. pc[t] = "unlink" /\ UNCHANGED <<activeReferences, alive>>
    BY <1>14 DEF Unlink
  <2>2. CASE Moves(t, "delete", op[t], stage[t], cur[t])
    <3>1. Referring(t)' <=> Referring(t)
      BY <2>1, <2>2 DEF Moves, Referring, Holds
    <3> QED
      BY <2>1, <2>2, <3>1, ReferencesMove
  <2>3. CASE /\ stage[t] \in {"destroy", "teardown"}
             /\ Returns(t) \/ Moves(t, "gone", op[t], stage[t], cur[t])
    <3>1. ~Referring(t) /\ ~Referring(t)'
      BY <2>1, <2>3 DEF Moves, Returns, Referring, Holds
    <3> QED
      BY <2>1, <2>3, <3>1, ReferencesMove DEF Returns
  <2> QED
    BY <1>4, <1>14, <2>1, <2>2, <2>3, LockMoves
<1>15. CASE ReceiveReport \/ WalkDone \/ DestroyCallback
  <2>1. /\ pc[CallBackThread] \in {"idle", "walk"} /\ UNCHANGED <<activeReferences, alive>>
    BY <1>15 DEF ReceiveReport, WalkDone, DestroyCallback, listVars
  <2>2. PICK place \in {"enter", "exit", "gone", "delete"}, st \in {"iterate", "teardown"} :
            Moves(CallBackThread, place, op[CallBackThread], st, cur[CallBackThread])
    BY <1>15, OutsideMoves, Zenon
  <2>3. ~Referring(CallBackThread) /\ ~Referring(CallBackThread)'
    BY <2>1, <2>2 DEF Moves, Referring, Holds
  <2> QED
    BY <1>b, <2>1, <2>2, <2>3, ReferencesMove
<1>16. ASSUME NEW s, NEW h, CallBackUses(s, h) \/ CallBackDestroys(s, h)
       PROVE  ReferenceInv'
  <2>1. /\ pc[CallBackThread] = "walk" /\ UNCHANGED <<activeReferences, alive>>
    BY <1>16 DEF CallBackUses, CallBackDestroys, listVars
  <2>2. \/ Moves(CallBackThread, "enter", "use", "get", h)
        \/ Moves(CallBackThread, "destroy", "destroy", "destroy", h)
    BY <1>16, OutsideMoves
  <2>3. ~Referring(CallBackThread) /\ ~Referring(CallBackThread)'
    BY <2>1, <2>2 DEF Moves, Referring, Holds
  <2> QED
    BY <1>b, <2>1, <2>2, <2>3, ReferencesMove
<1>17. CASE \/ \E s \in Handles : CallBack(s)
            \/ DaemonReports \/ DaemonStops \/ DaemonRestarts \/ UNCHANGED vars
  <2>1. UNCHANGED <<pc, stage, cur, activeReferences, alive>>
    BY <1>17 DEF CallBack, DaemonReports, DaemonStops, DaemonRestarts, vars, threadVars,
                 listVars
  <2> QED
    BY <2>1, ReferencesKept DEF Holds
<1> QED
  BY <1>1, <1>2, <1>3, <1>5, <1>6, <1>7, <1>8, <1>9, <1>10, <1>11, <1>12, <1>13,
     <1>14, <1>15, <1>16, <1>17
  DEF Next, ClientCall, LockStep, RunStep, CallBackStep

-----------------------------------------------------------------------------
(***************************************************************************)
(* Handles that are not in use yet                                         *)
(***************************************************************************)
\* Only the session of the thread that moves becomes known, and a thread works
\* on the session it had, on none, or on one the application was given.
LEMMA FreshMoves ==
  ASSUME TypeOK, PlaceInv, FreshInv, NEW t \in Threads,
         NEW place, NEW name, NEW st, NEW c, Moves(t, place, name, st, c),
         UNCHANGED handleIncrementor, c \in {cur[t], NoHandle} \cup given,
         \A s \in Handles : Unknown(s) /\ s # cur[t] => Unknown(s)',
         place \in {"init", "insert"} =>
             pc[t] \in {"init", "insert"} /\ c = cur[t] /\ Unknown(c)'
  PROVE  FreshInv'
<1>1. /\ handleIncrementor \in Nat /\ handleIncrementor > 0
      /\ Handles \subseteq Nat /\ NoHandle = 0 /\ NoHandle \notin Handles
      /\ given \subseteq Handles
  BY SessionBoundsAssumption DEF TypeOK, Handles, NoHandle
<1>2. \A u \in Threads : pc[u] \in {"init", "insert"} => cur[u] \in Handles
  BY DEF PlaceInv, PlaceOf
<1>3. ASSUME NEW s \in given PROVE s < handleIncrementor
  <2>1. s \in Handles /\ s \in Nat /\ ~Unknown(s)
    BY <1>1 DEF Unknown
  <2>2. ~(s >= handleIncrementor)
    BY <2>1 DEF FreshInv
  <2> QED
    BY <1>1, <2>1, <2>2
<1>4. c < handleIncrementor
  BY <1>1, <1>3 DEF FreshInv
<1>5. \A u \in Threads : cur'[u] < handleIncrementor'
  BY <1>4 DEF FreshInv, Moves
<1>6. \A s \in Handles : s >= handleIncrementor' => Unknown(s)'
  BY <1>1 DEF FreshInv
<1>7. ASSUME NEW u \in Threads, pc'[u] \in {"init", "insert"}
      PROVE  Unknown(cur[u])' /\ \A v \in Threads : cur'[v] = cur'[u] => v = u
  <2>1. CASE u = t
    <3>1. pc[t] \in {"init", "insert"} /\ cur'[t] = cur[t] /\ c = cur[t] /\ Unknown(c)'
      BY <1>7, <2>1 DEF Moves
    <3>2. \A v \in Threads \ {t} : cur'[v] # cur[t]
      BY <3>1 DEF FreshInv, Moves
    <3>3. Unknown(cur[t])'
      BY <3>1 DEF Unknown, Queued
    <3> QED
      BY <2>1, <3>1, <3>2, <3>3
  <2>2. CASE u # t
    <3>1. pc[u] \in {"init", "insert"} /\ cur'[u] = cur[u]
      BY <1>7, <2>2 DEF Moves
    <3>2. Unknown(cur[u]) /\ \A v \in Threads : cur[v] = cur[u] => v = u
      BY <3>1 DEF FreshInv
    <3>3. PICK x \in Handles : x = cur[u]
      BY <1>2, <3>1
    <3>4. x # c /\ x # cur[t] /\ Unknown(x)
      BY <1>1, <2>2, <3>2, <3>3 DEF Unknown
    <3>5. Unknown(x)'
      BY <3>4
    <3>6. Unknown(cur[u])'
      BY <3>1, <3>3, <3>5 DEF Unknown, Queued
    <3>7. \A v \in Threads : cur'[v] = x => v = u
      BY <3>2, <3>3, <3>4 DEF Moves
    <3> QED
      BY <3>1, <3>3, <3>6, <3>7
  <2> QED
    BY <2>1, <2>2
<1> QED
  BY <1>5, <1>6, <1>7 DEF FreshInv

\* Every step keeps: a handle that is not inserted yet is its creator's.
LEMMA FreshStep ==
  ASSUME SessionInv, [Next]_vars
  PROVE  FreshInv'
<1>a. TypeOK /\ PlaceInv /\ FreshInv
  BY DEF SessionInv
<1>b. CallBackThread \in Threads /\ Clients \subseteq Threads /\ CallBackThread \notin Clients
  BY ThreadsAssumption DEF Threads
<1>c. \A t \in Threads : PlaceOf(t)
  BY <1>a DEF PlaceInv
<1>d. activeReferences \in [Handles -> Nat]
  BY <1>a DEF TypeOK
<1> USE <1>a
<1>e. ASSUME NEW t \in Threads, NEW place, NEW name, NEW st, NEW c,
             Moves(t, place, name, st, c), c \in {cur[t], NoHandle} \cup given,
             place \in {"init", "insert"} => pc[t] \in {"init", "insert"} /\ c = cur[t],
             UNCHANGED <<handleIncrementor, sessionList, given, activeReferences,
                         pendingDestroyQueue>>
      PROVE  FreshInv'
  <2>1. \A s : Unknown(s)' <=> Unknown(s)
    BY <1>e DEF Unknown, Queued
  <2>2. pc[t] \in {"init", "insert"} => Unknown(cur[t])
    BY DEF FreshInv
  <2> QED
    BY <1>e, <2>1, <2>2, FreshMoves
<1>f. ASSUME NEW t \in Threads, NEW place, NEW name, NEW st, NEW c,
             Moves(t, place, name, st, c), c \in {cur[t], NoHandle},
             place \notin {"init", "insert"}, UNCHANGED handleIncrementor,
             \A s \in Handles \ {cur[t]} : Unknown(s) => Unknown(s)'
      PROVE  FreshInv'
  BY <1>f, FreshMoves
<1>1. ASSUME NEW t \in Clients, HDCPCreate(t) PROVE FreshInv'
  <2> DEFINE h == handleIncrementor
  <2>1. /\ h \in Handles /\ handleIncrementor' = h + 1
        /\ UNCHANGED <<sessionList, given, activeReferences, pendingDestroyQueue>>
    BY <1>1 DEF HDCPCreate, listVars, clientVars
  <2>2. Moves(t, "init", "create", "none", h)
    BY <1>1, OutsideMoves
  <2>3. Handles \subseteq Nat /\ cur \in [Threads -> Nat] /\ h \in Nat
    BY <2>1, SessionBoundsAssumption DEF TypeOK, Handles, NoHandle
  <2>4. \A s : Unknown(s)' <=> Unknown(s)
    BY <2>1 DEF Unknown, Queued
  <2>5. \A u \in Threads : cur'[u] < handleIncrementor'
    BY <1>b, <2>1, <2>2, <2>3 DEF FreshInv, Moves
  <2>6. \A s \in Handles : s >= handleIncrementor' => Unknown(s)'
    BY <2>1, <2>3, <2>4 DEF FreshInv
  <2>7. Unknown(h) /\ \A u \in Threads : cur[u] # h
    BY <2>1, <2>3 DEF FreshInv
  <2>8. ASSUME NEW u \in Threads, pc'[u] \in {"init", "insert"}
        PROVE  Unknown(cur[u])' /\ \A v \in Threads : cur'[v] = cur'[u] => v = u
    <3>1. \A v \in Threads \ {t} : pc'[v] = pc[v] /\ cur'[v] = cur[v]
      BY <2>2 DEF Moves
    <3>2. cur'[t] = h
      BY <2>2 DEF Moves
    <3>3. Unknown(cur'[u])
      BY <2>7, <2>8, <3>1, <3>2 DEF FreshInv
    <3>4. Unknown(cur[u])'
      BY <2>1, <3>3 DEF Unknown, Queued
    <3>5. \A v \in Threads : cur'[v] = cur'[u] => v = u
      BY <2>7, <2>8, <3>1, <3>2 DEF FreshInv
    <3> QED
      BY <3>4, <3>5
  <2> QED
    BY <2>5, <2>6, <2>8 DEF FreshInv
<1>2. ASSUME NEW t \in Clients, NEW s, HDCPUse(t, s) \/ HDCPDestroy(t, s)
      PROVE  FreshInv'
  <2>1. /\ s \in {NoHandle} \cup given
        /\ UNCHANGED <<handleIncrementor, sessionList, given, activeReferences,
                       pendingDestroyQueue>>
    BY <1>2 DEF HDCPUse, HDCPDestroy, UseAllowed, DestroyAllowed, listVars, createVars,
                clientVars, TypeOK
  <2>2. \/ Moves(t, "enter", "use", "get", s)
        \/ Moves(t, "destroy", "destroy", "destroy", s)
    BY <1>2, OutsideMoves
  <2> QED
    BY <1>b, <1>e, <2>1, <2>2
<1>3. ASSUME NEW t \in Threads, Insert(t) PROVE FreshInv'
  <2>1. /\ sessionList' = sessionList \cup {cur[t]}
        /\ UNCHANGED <<handleIncrementor, given, activeReferences, pendingDestroyQueue>>
    BY <1>3 DEF Insert, createVars, clientVars
  <2>2. \A s \in Handles \ {cur[t]} : Unknown(s) => Unknown(s)'
    BY <2>1 DEF Unknown, Queued
  <2>3. Moves(t, "enter", op[t], "get", cur[t])
    BY <1>3, LockMoves
  <2> QED
    BY <1>f, <2>1, <2>2, <2>3
<1>4. ASSUME NEW t \in Threads, IteratorCriticalSectionEnter(t) PROVE FreshInv'
  <2>1. UNCHANGED <<handleIncrementor, sessionList, given, activeReferences,
                    pendingDestroyQueue>>
    BY <1>4 DEF IteratorCriticalSectionEnter, createVars, listVars, clientVars
  <2>2. \/ Moves(t, "walk", op[t], stage[t], cur[t])
        \/ Moves(t, "find", op[t], stage[t], cur[t])
    BY <1>4, LockMoves
  <2> QED
    BY <1>e, <2>1, <2>2
<1>5. ASSUME NEW t \in Threads, Leaves(t),
             UNCHANGED <<handleIncrementor, activeReferences>>,
             sessionList' \subseteq sessionList,
             pendingDestroyQueue' \in {pendingDestroyQueue, <<>>}
      PROVE  FreshInv'
  <2>1. given' \subseteq given \cup {cur[t]}
    BY <1>5 DEF Leaves
  <2>2. \A s : ~Queued(s) => ~Queued(s)'
    BY <1>5 DEF Queued
  <2>3. \A s \in Handles \ {cur[t]} : Unknown(s) => Unknown(s)'
    BY <1>5, <2>1, <2>2 DEF Unknown
  <2>4. \/ Returns(t)
        \/ \E place \in {"use", "destroy", "idle"} : \E name, st : Moves(t, place, name, st, cur[t])
    BY <1>5 DEF Leaves
  <2> QED
    BY <1>5, <1>f, <2>3, <2>4 DEF Returns
<1>6. ASSUME NEW t \in Threads, IteratorCriticalSectionExit(t) PROVE FreshInv'
  <2>1. UNCHANGED <<handleIncrementor, sessionList, activeReferences, pendingDestroyQueue>>
    BY <1>6 DEF IteratorCriticalSectionExit, createVars, listVars
  <2>2. CASE Moves(t, "delete", op[t], stage[t], cur[t]) /\ UNCHANGED given
    BY <1>e, <2>1, <2>2
  <2> QED
    BY <1>5, <1>6, <2>1, <2>2, LockMoves
<1>7. ASSUME NEW t \in Threads, DestroySession(t) PROVE FreshInv'
  <2>1. /\ UNCHANGED <<handleIncrementor, sessionList, given, activeReferences>>
        /\ \/ UNCHANGED pendingDestroyQueue
           \/ pendingDestroyQueue' = Append(pendingDestroyQueue, cur[t])
    BY <1>7 DEF DestroySession, createVars, clientVars
  <2>2. pendingDestroyQueue \in Seq(Handles)
    BY DEF TypeOK
  <2>3. \A s \in Handles \ {cur[t]} : ~Queued(s) => ~Queued(s)'
    BY <2>1, <2>2 DEF Queued
  <2>4. \A s \in Handles \ {cur[t]} : Unknown(s) => Unknown(s)'
    BY <2>1, <2>3 DEF Unknown
  <2>5. Returns(t) \/ Moves(t, "delete", op[t], stage[t], cur[t])
    BY <1>7, LockMoves
  <2> QED
    BY <1>f, <2>1, <2>4, <2>5 DEF Returns
<1>8. ASSUME NEW t \in Threads, InitCallBackOk(t) PROVE FreshInv'
  <2>1. /\ pc[t] = "init"
        /\ UNCHANGED <<handleIncrementor, sessionList, given, activeReferences,
                       pendingDestroyQueue>>
    BY <1>8 DEF InitCallBackOk, listVars, clientVars
  <2>2. /\ pc'[t] = "insert" /\ pc'[CallBackThread] = "idle" /\ UNCHANGED cur
        /\ \A u \in Threads \ {t, CallBackThread} : pc'[u] = pc[u]
    BY <1>8, RunMoves
  <2>3. \A u \in Threads : pc'[u] \in {"init", "insert"} => pc[u] \in {"init", "insert"}
    BY <2>1, <2>2
  <2> QED
    BY <2>1, <2>2, <2>3 DEF FreshInv, Unknown, Queued
<1>9. ASSUME NEW t \in Threads,
             \/ InitCallBackDone(t) \/ InitCallBackError(t) \/ CreateSessionError(t)
             \/ Find(t) \/ CheckPending(t) \/ Transact(t)
      PROVE  FreshInv'
  <2>1. /\ UNCHANGED <<handleIncrementor, sessionList, given, activeReferences,
                       pendingDestroyQueue>>
        /\ InitCallBackDone(t) => pc[t] = "init"
    BY <1>9 DEF InitCallBackDone, InitCallBackError, CreateSessionError, Find,
                CheckPending, Transact, createVars, listVars, clientVars
  <2>2. CASE InitCallBackDone(t)
    BY <1>e, <2>1, <2>2, RunMoves
  <2>3. CASE ~InitCallBackDone(t)
    <3>1. \/ Returns(t)
          \/ \E place \in {"check", "drop", "exit", "grab", "enter"} : \E name, st :
                 Moves(t, place, name, st, cur[t])
      BY <1>9, <2>3, RunMoves
    <3> QED
      BY <1>e, <2>1, <3>1 DEF Returns
  <2> QED
    BY <2>2, <2>3
<1>10. ASSUME NEW t \in Threads, IncreaseReference(t) \/ DecreaseReference(t)
       PROVE  FreshInv'
  <2>1. /\ UNCHANGED <<handleIncrementor, sessionList, given, pendingDestroyQueue>>
        /\ \A s \in Handles \ {cur[t]} : activeReferences'[s] = activeReferences[s]
    BY <1>10, <1>d DEF IncreaseReference, DecreaseReference, createVars, listVars, clientVars
  <2>2. \A s \in Handles \ {cur[t]} : Unknown(s) => Unknown(s)'
    BY <2>1 DEF Unknown, Queued
  <2>3. Moves(t, "exit", op[t], stage[t], cur[t])
    BY <1>10, RunMoves
  <2> QED
    BY <1>f, <2>1, <2>2, <2>3
<1>11. ASSUME NEW t \in Threads, Delete(t) \/ Wakeup(t) PROVE FreshInv'
  <2>1. UNCHANGED <<handleIncrementor, sessionList, given, activeReferences,
                    pendingDestroyQueue>>
    BY <1>11 DEF Delete, Wakeup, createVars, clientVars
  <2>2. \/ Moves(t, "wait", op[t], stage[t], cur[t])
        \/ Moves(t, "unlink", op[t], stage[t], cur[t])
    BY <1>11, LockMoves
  <2> QED
    BY <1>e, <2>1, <2>2
<1>12. ASSUME NEW t \in Threads, Unlink(t) PROVE FreshInv'
  <2>1. /\ sessionList' \subseteq sessionList
        /\ UNCHANGED <<handleIncrementor, activeReferences>>
    BY <1>12 DEF Unlink, createVars
  <2>2. pendingDestroyQueue' \in {pendingDestroyQueue, <<>>}
    BY <1>12 DEF Unlink, QueueAfter
  <2>3. CASE Leaves(t)
    BY <1>5, <2>1, <2>2, <2>3
  <2>4. CASE ~Leaves(t)
    <3>1. UNCHANGED given
      BY <1>12, <2>4, LockMoves
    <3>2. \A s : ~Queued(s) => ~Queued(s)'
      BY <2>2 DEF Queued
    <3>3. \A s \in Handles \ {cur[t]} : Unknown(s) => Unknown(s)'
      BY <2>1, <3>1, <3>2 DEF Unknown
    <3>4. \/ Returns(t)
          \/ \E place \in {"delete", "gone"} : Moves(t, place, op[t], stage[t], cur[t])
      BY <1>12, <2>4, LockMoves
    <3> QED
      BY <1>f, <2>1, <3>3, <3>4 DEF Returns
  <2> QED
    BY <2>3, <2>4
<1>13. CASE ReceiveReport \/ WalkDone \/ DestroyCallback
  <2>1. UNCHANGED <<handleIncrementor, sessionList, given, activeReferences,
                    pendingDestroyQueue>>
    BY <1>13 DEF ReceiveReport, WalkDone, DestroyCallback, createVars, listVars, clientVars
  <2>2. PICK place \in {"enter", "exit", "gone", "delete"}, st \in {"iterate", "teardown"} :
            Moves(CallBackThread, place, op[CallBackThread], st, cur[CallBackThread])
    BY <1>13, OutsideMoves, Zenon
  <2> QED
    BY <1>b, <1>e, <2>1, <2>2
<1>14. ASSUME NEW s, NEW h, CallBackUses(s, h) \/ CallBackDestroys(s, h)
       PROVE  FreshInv'
  <2>1. /\ h \in {NoHandle} \cup given
        /\ UNCHANGED <<handleIncrementor, sessionList, given, activeReferences,
                       pendingDestroyQueue>>
    BY <1>14 DEF CallBackUses, CallBackDestroys, UseAllowed, DestroyAllowed, listVars,
                 createVars, clientVars, TypeOK
  <2>2. \/ Moves(CallBackThread, "enter", "use", "get", h)
        \/ Moves(CallBackThread, "destroy", "destroy", "destroy", h)
    BY <1>14, OutsideMoves
  <2> QED
    BY <1>b, <1>e, <2>1, <2>2
<1>15. CASE \/ \E s \in Handles : CallBack(s)
            \/ DaemonReports \/ DaemonStops \/ DaemonRestarts \/ UNCHANGED vars
  <2>1. UNCHANGED <<pc, cur, handleIncrementor, sessionList, given, activeReferences,
                    pendingDestroyQueue>>
    BY <1>15 DEF CallBack, DaemonReports, DaemonStops, DaemonRestarts, vars, threadVars,
                 listVars, createVars, clientVars
  <2> QED
    BY <2>1 DEF FreshInv, Unknown, Queued
<1> QED
  BY <1>1, <1>2, <1>3, <1>4, <1>6, <1>7, <1>8, <1>9, <1>10, <1>11, <1>12, <1>13,
     <1>14, <1>15
  DEF Next, ClientCall, LockStep, RunStep, CallBackStep

-----------------------------------------------------------------------------
(***************************************************************************)
(* The list                                                                *)
(***************************************************************************)
\* A step that neither deletes nor inserts, of a thread that is not deleting.
LEMMA ListKept ==
  ASSUME ListInv, NEW t \in Threads, NEW place, NEW name, NEW st, NEW s,
         Moves(t, place, name, st, s), place \notin Deleting,
         UNCHANGED <<sessionList, alive, iteratorMutex, work>>
  PROVE  ListInv'
BY DEF ListInv, MutexFree, Moves, Deleting

\* A step that ends with the list equal to the sessions that exist.
LEMMA ListClean ==
  ASSUME NEW t \in Threads, NEW place, NEW name, NEW st, NEW s,
         Moves(t, place, name, st, s), sessionList' = alive',
         place # "unlink", \A u \in Threads \ {t} : pc[u] # "unlink"
  PROVE  ListInv'
BY DEF ListInv, Moves

\* Every step keeps: the list is what exists, but for the session that is being
\* unlinked.
LEMMA ListStep ==
  ASSUME SessionInv, [Next]_vars
  PROVE  ListInv'
<1>a. TypeOK /\ PlaceInv /\ MutexInv /\ IteratorInv /\ ListInv
  BY DEF SessionInv
<1>b. CallBackThread \in Threads /\ Clients \subseteq Threads
  BY DEF Threads
<1> USE <1>a
<1>c. MutexFree => sessionList = alive /\ \A u \in Threads : pc[u] \notin Deleting
  BY DeleterAlone DEF ListInv
<1>d. \A t \in Threads : pc[t] \in Deleting => \A u \in Threads \ {t} : pc[u] \notin Deleting
  BY DeleterAlone
<1>e. "unlink" \in Deleting /\ "delete" \in Deleting /\ "wait" \in Deleting
  BY DEF Deleting
<1>1. ASSUME NEW t \in Clients,
             \/ HDCPCreate(t)
             \/ \E s \in Handles \cup {NoHandle} : HDCPUse(t, s)
             \/ \E s \in Handles : HDCPDestroy(t, s)
      PROVE  ListInv'
  <2>1. UNCHANGED <<sessionList, alive, iteratorMutex, work>>
    BY <1>1 DEF HDCPCreate, HDCPUse, HDCPDestroy, listVars
  <2>2. \E place \in {"init", "enter", "destroy"} : \E name, st, s : Moves(t, place, name, st, s)
    BY <1>1, OutsideMoves, Zenon
  <2> QED
    BY <1>b, <2>1, <2>2, ListKept DEF Deleting
<1>2. ASSUME NEW t \in Threads, Insert(t) PROVE ListInv'
  <2>1. MutexFree /\ sessionList' = sessionList \cup {cur[t]} /\ alive' = alive \cup {cur[t]}
    BY <1>2 DEF Insert
  <2>2. Moves(t, "enter", op[t], "get", cur[t])
    BY <1>2, LockMoves
  <2> QED
    BY <1>c, <1>e, <2>1, <2>2, ListClean
<1>3. ASSUME NEW t \in Threads, NEW place, NEW name, NEW st, NEW s,
             Moves(t, place, name, st, s), MutexFree, UNCHANGED <<sessionList, alive>>,
             place # "unlink"
      PROVE  ListInv'
  BY <1>3, <1>c, <1>e, ListClean
<1>4. ASSUME NEW t \in Threads,
             \/ IteratorCriticalSectionEnter(t) \/ IteratorCriticalSectionExit(t)
             \/ DestroySession(t)
      PROVE  ListInv'
  <2>1. MutexFree /\ UNCHANGED <<sessionList, alive>>
    BY <1>4 DEF IteratorCriticalSectionEnter, IteratorCriticalSectionExit, DestroySession,
                listVars
  <2>2. Leaves(t) => \E place \in {"use", "destroy", "idle", "walk"} : \E name, st, s :
                         Moves(t, place, name, st, s)
    BY DEF Leaves, Returns
  <2>3. \E place \in {"walk", "find", "use", "destroy", "idle", "delete"} : \E name, st, s :
            Moves(t, place, name, st, s)
    BY <1>4, <2>2, LockMoves DEF Returns
  <2> QED
    BY <1>3, <2>1, <2>3
<1>5. ASSUME NEW t \in Threads, InitCallBackOk(t) PROVE ListInv'
  <2>1. UNCHANGED <<sessionList, alive, iteratorMutex, work>>
    BY <1>5 DEF InitCallBackOk, listVars
  <2>2. /\ pc'[t] = "insert" /\ pc'[CallBackThread] = "idle"
        /\ \A u \in Threads \ {t, CallBackThread} : pc'[u] = pc[u]
    BY <1>5, RunMoves
  <2>3. \A u \in Threads : pc'[u] \in {"delete", "wait", "unlink"} => pc'[u] = pc[u]
    BY <2>2
  <2> QED
    BY <2>1, <2>3 DEF ListInv, MutexFree
<1>6. ASSUME NEW t \in Threads,
             \/ InitCallBackDone(t) \/ InitCallBackError(t) \/ CreateSessionError(t)
             \/ Find(t) \/ CheckPending(t) \/ IncreaseReference(t)
             \/ DecreaseReference(t) \/ Transact(t)
      PROVE  ListInv'
  <2>1. UNCHANGED <<sessionList, alive, iteratorMutex, work>>
    BY <1>6 DEF InitCallBackDone, InitCallBackError, CreateSessionError, Find,
                CheckPending, IncreaseReference, DecreaseReference, Transact, listVars
  <2>2. \E place \in {"insert", "walk", "idle", "check", "drop", "exit", "grab", "enter"} :
            \E name, st, s : Moves(t, place, name, st, s)
    BY <1>6, RunMoves DEF Returns
  <2> QED
    BY <2>1, <2>2, ListKept DEF Deleting
<1>7. ASSUME NEW t \in Threads, Delete(t) \/ Wakeup(t) PROVE ListInv'
  <2>1. pc[t] \in {"delete", "wait"} /\ UNCHANGED <<sessionList, work, iteratorMutex>>
    BY <1>7 DEF Delete, Wakeup
  <2>2. sessionList = alive
    BY <2>1 DEF ListInv
  <2>3. CASE Moves(t, "wait", op[t], stage[t], cur[t]) /\ UNCHANGED alive
    BY <1>d, <1>e, <2>1, <2>2, <2>3, ListClean
  <2>4. CASE Moves(t, "unlink", op[t], stage[t], cur[t]) /\ alive' = alive \ {Head(work[t])}
    <3>1. ~MutexFree
      BY <1>e, <2>1, DeleterAlone
    <3>2. \A u \in Threads \ {t} : pc'[u] \notin Deleting
      BY <1>d, <1>e, <2>1, <2>4 DEF Moves
    <3> QED
      BY <1>e, <2>1, <2>2, <2>4, <3>1, <3>2 DEF ListInv, MutexFree, Moves
  <2> QED
    BY <1>7, <2>3, <2>4, LockMoves DEF Delete, Wakeup
<1>8. ASSUME NEW t \in Threads, Unlink(t) PROVE ListInv'
  <2>1. /\ pc[t] = "unlink" /\ UNCHANGED alive
        /\ sessionList' = sessionList \ {Head(work[t])}
    BY <1>8 DEF Unlink
  <2>2. sessionList' = alive'
    BY <2>1 DEF ListInv
  <2>3. Leaves(t) => \E place \in {"use", "destroy", "idle", "walk"} : \E name, st, s :
                         Moves(t, place, name, st, s)
    BY DEF Leaves, Returns
  <2>4. \E place \in {"use", "destroy", "idle", "walk", "delete", "gone"} : \E name, st, s :
            Moves(t, place, name, st, s)
    BY <1>8, <2>3, LockMoves DEF Returns
  <2> QED
    BY <1>d, <1>e, <2>1, <2>2, <2>4, ListClean
<1>9. CASE ReceiveReport \/ WalkDone
  <2>1. UNCHANGED <<sessionList, alive, iteratorMutex, work>>
    BY <1>9 DEF ReceiveReport, WalkDone, listVars
  <2> QED
    BY <1>9, <1>b, <2>1, OutsideMoves, ListKept DEF Deleting
<1>10. ASSUME NEW s, NEW h, CallBackUses(s, h) \/ CallBackDestroys(s, h)
       PROVE  ListInv'
  <2>1. UNCHANGED <<sessionList, alive, iteratorMutex, work>>
    BY <1>10 DEF CallBackUses, CallBackDestroys, listVars
  <2> QED
    BY <1>10, <1>b, <2>1, OutsideMoves, ListKept DEF Deleting
<1>11. CASE DestroyCallback
  <2>1. MutexFree /\ UNCHANGED <<sessionList, alive>>
    BY <1>11 DEF DestroyCallback, listVars
  <2> QED
    BY <1>11, <1>b, <1>3, <2>1, OutsideMoves
<1>12. CASE \/ \E s \in Handles : CallBack(s)
            \/ DaemonReports \/ DaemonStops \/ DaemonRestarts \/ UNCHANGED vars
  BY <1>12 DEF CallBack, DaemonReports, DaemonStops, DaemonRestarts, vars, threadVars,
               listVars, ListInv, MutexFree
<1> QED
  BY <1>1, <1>2, <1>4, <1>5, <1>6, <1>7, <1>8, <1>9, <1>10, <1>11, <1>12
  DEF Next, ClientCall, LockStep, RunStep, CallBackStep

-----------------------------------------------------------------------------
(***************************************************************************)
(* Garbage                                                                 *)
(***************************************************************************)
\* A step that touches neither the queue nor the counter, of a thread that does
\* not stop deleting.
LEMMA GarbageKept ==
  ASSUME GarbageInv, NEW t \in Threads, NEW place, NEW name, NEW st, NEW s,
         Moves(t, place, name, st, s),
         UNCHANGED <<pendingDestroyQueue, iteratorReference>>,
         pc[t] \in Deleting => place \in Deleting /\ st = stage[t]
  PROVE  GarbageInv'
<1>1. \A u \in Threads : pc[u] \in Deleting =>
          pc'[u] \in Deleting /\ stage'[u] = stage[u]
  BY DEF Moves
<1> QED
  BY <1>1 DEF GarbageInv

\* Every step keeps: queued sessions have somebody to delete them.
LEMMA GarbageStep ==
  ASSUME SessionInv, [Next]_vars
  PROVE  GarbageInv'
<1>a. TypeOK /\ PlaceInv /\ MutexInv /\ IteratorInv /\ GarbageInv
  BY DEF SessionInv
<1>b. CallBackThread \in Threads /\ Clients \subseteq Threads
  BY DEF Threads
<1> USE <1>a
<1>c. iteratorReference \in Nat
  BY DEF TypeOK
<1>d. MutexFree /\ pendingDestroyQueue # <<>> => iteratorReference > 0
  BY DeleterAlone DEF GarbageInv
<1>1. ASSUME NEW t \in Clients,
             \/ HDCPCreate(t)
             \/ \E s \in Handles \cup {NoHandle} : HDCPUse(t, s)
             \/ \E s \in Handles : HDCPDestroy(t, s)
      PROVE  GarbageInv'
  <2>1. pc[t] = "idle" /\ UNCHANGED <<pendingDestroyQueue, iteratorReference>>
    BY <1>1 DEF HDCPCreate, HDCPUse, HDCPDestroy, listVars
  <2>2. \E place, name, st, s : Moves(t, place, name, st, s)
    BY <1>1, OutsideMoves, Zenon
  <2> QED
    BY <1>b, <2>1, <2>2, GarbageKept DEF Deleting
<1>2. ASSUME NEW t \in Threads, Insert(t) PROVE GarbageInv'
  <2>1. pc[t] = "insert" /\ UNCHANGED <<pendingDestroyQueue, iteratorReference>>
    BY <1>2 DEF Insert
  <2> QED
    BY <1>2, <2>1, LockMoves, GarbageKept DEF Deleting
<1>3. ASSUME NEW t \in Threads, IteratorCriticalSectionEnter(t) PROVE GarbageInv'
  <2>1. iteratorReference' = iteratorReference + 1
    BY <1>3 DEF IteratorCriticalSectionEnter
  <2> QED
    BY <1>c, <2>1 DEF GarbageInv
<1>4. ASSUME NEW t \in Threads, IteratorCriticalSectionExit(t) PROVE GarbageInv'
  \* The last one out deletes what is queued.
  <2>1. /\ pc[t] = "exit" /\ iteratorReference' = iteratorReference - 1
        /\ UNCHANGED pendingDestroyQueue
    BY <1>4 DEF IteratorCriticalSectionExit, listVars
  <2>2. iteratorReference > 0
    BY <2>1, WalkerCounted DEF Walking
  <2>3. CASE ExitMustDelete
    <3>1. pc'[t] \in Deleting /\ stage'[t] = stage[t]
      BY <1>4, <2>3, LockMoves DEF Moves, Deleting
    <3>2. stage[t] \notin {"destroy", "teardown"}
      BY <2>1 DEF PlaceInv, PlaceOf
    <3> QED
      BY <3>1, <3>2 DEF GarbageInv
  <2>4. CASE ~ExitMustDelete
    BY <1>c, <2>1, <2>2, <2>4 DEF GarbageInv, ExitMustDelete
  <2> QED
    BY <2>3, <2>4
<1>5. ASSUME NEW t \in Threads, DestroySession(t) PROVE GarbageInv'
  <2>1. MutexFree /\ UNCHANGED iteratorReference
    BY <1>5 DEF DestroySession
  <2>2. pendingDestroyQueue' # pendingDestroyQueue => iteratorReference # 0
    BY <1>5 DEF DestroySession, SafeToDelete
  <2> QED
    BY <1>c, <1>d, <2>1, <2>2 DEF GarbageInv
<1>6. ASSUME NEW t \in Threads, InitCallBackOk(t) PROVE GarbageInv'
  <2>1. /\ pc[t] = "init" /\ pc[CallBackThread] = "none" /\ UNCHANGED stage
        /\ UNCHANGED <<pendingDestroyQueue, iteratorReference>>
    BY <1>6, <1>b DEF InitCallBackOk, PlaceInv, listVars
  <2>2. \A u \in Threads \ {t, CallBackThread} : pc'[u] = pc[u]
    BY <1>6, RunMoves
  <2>3. \A u \in Threads : pc[u] \in Deleting => pc'[u] = pc[u]
    BY <2>1, <2>2 DEF Deleting
  <2> QED
    BY <2>1, <2>3 DEF GarbageInv
<1>7. ASSUME NEW t \in Threads,
             \/ InitCallBackDone(t) \/ InitCallBackError(t) \/ CreateSessionError(t)
             \/ Find(t) \/ CheckPending(t) \/ IncreaseReference(t)
             \/ DecreaseReference(t) \/ Transact(t)
      PROVE  GarbageInv'
  <2>1. pc[t] \notin Deleting /\ UNCHANGED <<pendingDestroyQueue, iteratorReference>>
    BY <1>7 DEF InitCallBackDone, InitCallBackError, CreateSessionError, Find,
                CheckPending, IncreaseReference, DecreaseReference, Transact, listVars,
                Deleting
  <2>2. \E place, name, st, s : Moves(t, place, name, st, s)
    BY <1>7, RunMoves, Zenon DEF Returns
  <2> QED
    BY <2>1, <2>2, GarbageKept
<1>8. ASSUME NEW t \in Threads, Delete(t) \/ Wakeup(t) PROVE GarbageInv'
  <2>1. UNCHANGED <<pendingDestroyQueue, iteratorReference>>
    BY <1>8 DEF Delete, Wakeup
  <2>2. \E place \in {"wait", "unlink"} : Moves(t, place, op[t], stage[t], cur[t])
    BY <1>8, LockMoves
  <2> QED
    BY <2>1, <2>2, GarbageKept DEF Deleting
<1>9. ASSUME NEW t \in Threads, Unlink(t) PROVE GarbageInv'
  <2>1. pc[t] = "unlink" /\ UNCHANGED iteratorReference
    BY <1>9 DEF Unlink
  <2>2. \A u \in Threads : pc[u] \in Deleting => u = t
    BY <2>1, DeleterAlone DEF Deleting
  <2>3. CASE Tail(work[t]) # <<>>
    <3>1. UNCHANGED pendingDestroyQueue /\ Moves(t, "delete", op[t], stage[t], cur[t])
      BY <1>9, <2>3, LockMoves DEF Unlink
    <3> QED
      BY <2>1, <3>1, GarbageKept DEF Deleting
  <2>4. CASE Tail(work[t]) = <<>>
    <3>1. pendingDestroyQueue' = QueueAfter(t)
      BY <1>9, <2>4 DEF Unlink
    <3> QED
      BY <2>1, <2>2, <3>1 DEF GarbageInv, QueueAfter
  <2> QED
    BY <2>3, <2>4
<1>10. CASE ReceiveReport \/ WalkDone \/ DestroyCallback
  <2>1. /\ pc[CallBackThread] \in {"idle", "walk"}
        /\ UNCHANGED <<pendingDestroyQueue, iteratorReference>>
    BY <1>10 DEF ReceiveReport, WalkDone, DestroyCallback, listVars
  <2>2. \E place, name, st, s : Moves(CallBackThread, place, name, st, s)
    BY <1>10, OutsideMoves, Zenon
  <2> QED
    BY <1>b, <2>1, <2>2, GarbageKept DEF Deleting
<1>11. ASSUME NEW s, NEW h, CallBackUses(s, h) \/ CallBackDestroys(s, h)
       PROVE  GarbageInv'
  <2>1. /\ pc[CallBackThread] = "walk"
        /\ UNCHANGED <<pendingDestroyQueue, iteratorReference>>
    BY <1>11 DEF CallBackUses, CallBackDestroys, listVars
  <2> QED
    BY <1>11, <1>b, <2>1, OutsideMoves, GarbageKept DEF Deleting
<1>12. CASE \/ \E s \in Handles : CallBack(s)
            \/ DaemonReports \/ DaemonStops \/ DaemonRestarts \/ UNCHANGED vars
  BY <1>12 DEF CallBack, DaemonReports, DaemonStops, DaemonRestarts, vars, threadVars,
               listVars, GarbageInv
<1> QED
  BY <1>1, <1>2, <1>3, <1>4, <1>5, <1>6, <1>7, <1>8, <1>9, <1>10, <1>11, <1>12
  DEF Next, ClientCall, LockStep, RunStep, CallBackStep

-----------------------------------------------------------------------------
(***************************************************************************)
(* Who may destroy a session                                               *)
(***************************************************************************)
\* A step of a thread that comes to claim nothing new, while no session is
\* queued or handed over.
LEMMA ClaimKept ==
  ASSUME ClaimInv, NEW t \in Threads, NEW place, NEW name, NEW st, NEW c,
         Moves(t, place, name, st, c),
         name \in {"create", "created", "failed", "destroy"} => Claims(t, c),
         open' \subseteq open, pendingDestroyQueue' \in {pendingDestroyQueue, <<>>}
  PROVE  ClaimInv'
<1>1. \A u \in Threads, s \in Handles : Claims(u, s)' => Claims(u, s)
  BY DEF Moves, Claims
<1>2. \A s : ~Queued(s) => ~Queued(s)'
  BY DEF Queued
<1>3. Distinct(pendingDestroyQueue')
  BY DEF ClaimInv, Distinct
<1> QED
  BY <1>1, <1>2, <1>3 DEF ClaimInv, Distinct

\* A thread comes to claim a session that nobody claims, that is not queued and
\* that the application does not own any more.
LEMMA ClaimTaken ==
  ASSUME ClaimInv, NEW t \in Threads, NEW place, NEW name, NEW st, NEW c,
         Moves(t, place, name, st, c), \A u \in Threads \ {t} : ~Claims(u, c),
         ~Queued(c), open' = open \ {c}, UNCHANGED pendingDestroyQueue
  PROVE  ClaimInv'
<1>1. \A u \in Threads \ {t} : \A s : Claims(u, s)' <=> Claims(u, s)
  BY DEF Moves, Claims
<1>2. \A s : Claims(t, s)' => s = c
  BY DEF Moves, Claims
<1>3. \A s : Queued(s)' <=> Queued(s)
  BY DEF Queued
<1>4. Distinct(pendingDestroyQueue')
  BY DEF ClaimInv, Distinct
<1>5. \A s \in Handles, u \in Threads : Claims(u, s)' =>
        /\ s \notin open' /\ ~Queued(s)'
        /\ \A v \in Threads : Claims(v, s)' => v = u
  BY <1>1, <1>2, <1>3 DEF ClaimInv
<1>6. \A s \in open' : ~Queued(s)'
  BY <1>3 DEF ClaimInv
<1> QED
  BY <1>4, <1>5, <1>6 DEF ClaimInv, Distinct

\* Every step keeps: there is one who may destroy a session.
LEMMA ClaimStep ==
  ASSUME SessionInv, [Next]_vars
  PROVE  ClaimInv'
<1>a. TypeOK /\ PlaceInv /\ FreshInv /\ ClaimInv
  BY DEF SessionInv
<1>b. CallBackThread \in Threads /\ Clients \subseteq Threads
  BY DEF Threads
<1> USE <1>a
<1>1. ASSUME NEW t \in Clients, HDCPCreate(t) PROVE ClaimInv'
  <2> DEFINE h == handleIncrementor
  <2>1. h \in Handles /\ UNCHANGED <<open, pendingDestroyQueue>>
    BY <1>1 DEF HDCPCreate, listVars, clientVars
  <2>2. Handles \subseteq Nat /\ cur \in [Threads -> Nat]
    BY SessionBoundsAssumption DEF TypeOK, Handles, NoHandle
  <2>3. Unknown(h) /\ \A u \in Threads : cur[u] # h
    BY <2>1, <2>2 DEF FreshInv
  <2>4. h \notin open /\ ~Queued(h) /\ \A u \in Threads : ~Claims(u, h)
    BY <2>3 DEF Unknown, Claims, TypeOK
  <2>5. Moves(t, "init", "create", "none", h)
    BY <1>1, OutsideMoves
  <2>6. open' = open \ {h}
    BY <2>1, <2>4
  <2> QED
    BY <1>b, <2>1, <2>4, <2>5, <2>6, ClaimTaken
<1>2. ASSUME NEW t \in Clients, NEW s, HDCPUse(t, s) PROVE ClaimInv'
  <2>1. UNCHANGED <<open, pendingDestroyQueue>>
    BY <1>2 DEF HDCPUse, listVars, clientVars
  <2> QED
    BY <1>2, <1>b, <2>1, OutsideMoves, ClaimKept
<1>3. ASSUME NEW t \in Threads, NEW s \in Handles, s \in open,
             Moves(t, "destroy", "destroy", "destroy", s),
             open' = open \ {s}, UNCHANGED pendingDestroyQueue
      PROVE  ClaimInv'
  <2>1. ~Queued(s) /\ \A u \in Threads : ~Claims(u, s)
    BY <1>3 DEF ClaimInv
  <2> QED
    BY <1>3, <2>1, ClaimTaken
<1>4. ASSUME NEW t \in Clients, NEW s \in Handles, HDCPDestroy(t, s) PROVE ClaimInv'
  <2>1. s \in open /\ open' = open \ {s} /\ UNCHANGED pendingDestroyQueue
    BY <1>4 DEF HDCPDestroy, DestroyAllowed, listVars
  <2> QED
    BY <1>3, <1>4, <1>b, <2>1, OutsideMoves
<1>5. ASSUME NEW t \in Threads, NEW place, NEW st,
             Moves(t, place, op[t], st, cur[t]),
             UNCHANGED open, pendingDestroyQueue' \in {pendingDestroyQueue, <<>>}
      PROVE  ClaimInv'
  BY <1>5, ClaimKept DEF Claims
<1>6. ASSUME NEW t \in Threads, Returns(t),
             UNCHANGED open, pendingDestroyQueue' \in {pendingDestroyQueue, <<>>}
      PROVE  ClaimInv'
  BY <1>6, ClaimKept DEF Returns
<1>7. ASSUME NEW t \in Threads, Leaves(t),
             pendingDestroyQueue' \in {pendingDestroyQueue, <<>>}
      PROVE  ClaimInv'
  <2>1. CASE /\ op[t] = "created" /\ Returns(t) /\ open' = open \cup {cur[t]}
    <3>1. Claims(t, cur[t]) /\ cur[t] \in Handles
      BY <2>1 DEF Claims, PlaceInv, PlaceOf
    <3>2. /\ ~Queued(cur[t]) /\ \A u \in Threads \ {t} : ~Claims(u, cur[t])
      BY <3>1 DEF ClaimInv
    <3>3. \A u \in Threads : \A s : Claims(u, s)' => u # t /\ Claims(u, s)
      BY <2>1 DEF Returns, Moves, Claims
    <3>4. \A s : ~Queued(s) => ~Queued(s)'
      BY <1>7 DEF Queued
    <3>5. \A s \in Handles, u \in Threads : Claims(u, s)' =>
            /\ s \notin open' /\ ~Queued(s)'
            /\ \A v \in Threads : Claims(v, s)' => v = u
      BY <2>1, <3>2, <3>3, <3>4 DEF ClaimInv
    <3>6. \A s \in open' : ~Queued(s)'
      BY <2>1, <3>2, <3>4 DEF ClaimInv
    <3>7. Distinct(pendingDestroyQueue')
      BY <1>7 DEF ClaimInv, Distinct
    <3> QED
      BY <3>5, <3>6, <3>7 DEF ClaimInv, Distinct
  <2>2. CASE Returns(t) /\ UNCHANGED open
    BY <1>6, <1>7, <2>2
  <2>3. CASE /\ UNCHANGED open
             /\ \E place, st : Moves(t, place, op[t], st, cur[t])
    BY <1>5, <1>7, <2>3
  <2> QED
    BY <1>7, <2>1, <2>2, <2>3 DEF Leaves
<1>8. ASSUME NEW t \in Threads, Insert(t) \/ IteratorCriticalSectionEnter(t)
      PROVE  ClaimInv'
  <2>1. UNCHANGED <<open, pendingDestroyQueue>>
    BY <1>8 DEF Insert, IteratorCriticalSectionEnter, listVars, clientVars
  <2> QED
    BY <1>5, <1>8, <2>1, LockMoves
<1>9. ASSUME NEW t \in Threads, IteratorCriticalSectionExit(t) PROVE ClaimInv'
  <2>1. UNCHANGED pendingDestroyQueue
    BY <1>9 DEF IteratorCriticalSectionExit, listVars
  <2> QED
    BY <1>5, <1>7, <1>9, <2>1, LockMoves
<1>10. ASSUME NEW t \in Threads, DestroySession(t) PROVE ClaimInv'
  <2>1. UNCHANGED open /\ pc[t] = "destroy"
    BY <1>10 DEF DestroySession, clientVars
  <2>2. CASE pendingDestroyQueue' = Append(pendingDestroyQueue, cur[t]) /\ Returns(t)
    <3>1. Claims(t, cur[t]) /\ cur[t] \in Handles
      BY <2>1 DEF Claims, PlaceInv, PlaceOf
    <3>2. /\ ~Queued(cur[t]) /\ cur[t] \notin open
          /\ \A u \in Threads \ {t} : ~Claims(u, cur[t])
      BY <3>1 DEF ClaimInv
    <3>3. \A u \in Threads : \A s : Claims(u, s)' => u # t /\ Claims(u, s)
      BY <2>2 DEF Returns, Moves, Claims
    <3>4. pendingDestroyQueue \in Seq(Handles)
      BY DEF TypeOK
    <3>5. \A s : Queued(s)' => Queued(s) \/ s = cur[t]
      BY <2>2, <3>4 DEF Queued
    <3>6. \A s \in Handles, u \in Threads : Claims(u, s)' =>
            /\ s \notin open' /\ ~Queued(s)'
            /\ \A v \in Threads : Claims(v, s)' => v = u
      BY <2>1, <3>2, <3>3, <3>5 DEF ClaimInv
    <3>7. \A s \in open' : ~Queued(s)'
      BY <2>1, <3>2, <3>5 DEF ClaimInv
    <3>8. Distinct(Append(pendingDestroyQueue, cur[t]))
      BY <3>1, <3>2, <3>4 DEF ClaimInv, Distinct, Queued
    <3> QED
      BY <2>2, <3>6, <3>7, <3>8 DEF ClaimInv, Distinct
  <2>3. CASE UNCHANGED pendingDestroyQueue
    BY <1>5, <1>6, <1>10, <2>1, <2>3, LockMoves
  <2> QED
    BY <1>10, <2>2, <2>3, LockMoves DEF DestroySession
<1>11. ASSUME NEW t \in Threads, InitCallBackOk(t) PROVE ClaimInv'
  <2>1. UNCHANGED <<op, cur, open, pendingDestroyQueue>>
    BY <1>11 DEF InitCallBackOk, listVars, clientVars
  <2> QED
    BY <2>1 DEF ClaimInv, Claims, Queued, Distinct
<1>12. ASSUME NEW t \in Threads,
              \/ InitCallBackDone(t) \/ InitCallBackError(t) \/ CreateSessionError(t)
              \/ Find(t) \/ CheckPending(t) \/ IncreaseReference(t) \/ DecreaseReference(t)
       PROVE  ClaimInv'
  <2>1. UNCHANGED <<open, pendingDestroyQueue>>
    BY <1>12 DEF InitCallBackDone, InitCallBackError, CreateSessionError, Find,
                 CheckPending, IncreaseReference, DecreaseReference, listVars, clientVars
  <2>2. Returns(t) \/ \E place, st : Moves(t, place, op[t], st, cur[t])
    BY <1>12, RunMoves, Zenon
  <2> QED
    BY <1>5, <1>6, <2>1, <2>2
<1>13. ASSUME NEW t \in Threads, Transact(t) PROVE ClaimInv'
  <2>1. UNCHANGED <<open, pendingDestroyQueue>>
    BY <1>13 DEF Transact, listVars, clientVars
  <2>2. CASE op[t] = "create"
    <3>1. Claims(t, cur[t])
      BY <2>2 DEF Claims
    <3> QED
      BY <1>13, <2>1, <2>2, <3>1, RunMoves, ClaimKept
  <2>3. CASE op[t] = "use"
    BY <1>5, <1>13, <2>1, <2>3, RunMoves
  <2> QED
    BY <1>13, <2>2, <2>3, RunMoves
<1>14. ASSUME NEW t \in Threads, Delete(t) \/ Wakeup(t) PROVE ClaimInv'
  <2>1. UNCHANGED <<open, pendingDestroyQueue>>
    BY <1>14 DEF Delete, Wakeup, clientVars
  <2> QED
    BY <1>5, <1>14, <2>1, LockMoves
<1>15. ASSUME NEW t \in Threads, Unlink(t) PROVE ClaimInv'
  <2>1. pendingDestroyQueue' \in {pendingDestroyQueue, <<>>}
    BY <1>15 DEF Unlink, QueueAfter
  <2> QED
    BY <1>5, <1>6, <1>7, <1>15, <2>1, LockMoves
<1>16. CASE ReceiveReport \/ WalkDone \/ DestroyCallback
  <2>1. UNCHANGED <<open, pendingDestroyQueue>>
    BY <1>16 DEF ReceiveReport, WalkDone, DestroyCallback, listVars, clientVars
  <2> QED
    BY <1>5, <1>b, <1>16, <2>1, OutsideMoves
<1>17. ASSUME NEW s, NEW h, CallBackUses(s, h) PROVE ClaimInv'
  <2>1. UNCHANGED <<open, pendingDestroyQueue>>
    BY <1>17 DEF CallBackUses, listVars, clientVars
  <2> QED
    BY <1>17, <1>b, <2>1, OutsideMoves, ClaimKept
<1>18. ASSUME NEW s, NEW h \in Handles, CallBackDestroys(s, h) PROVE ClaimInv'
  <2>1. h \in open /\ open' = open \ {h} /\ UNCHANGED pendingDestroyQueue
    BY <1>18 DEF CallBackDestroys, DestroyAllowed, listVars
  <2> QED
    BY <1>3, <1>18, <1>b, <2>1, OutsideMoves
<1>19. CASE \/ \E s \in Handles : CallBack(s)
            \/ DaemonReports \/ DaemonStops \/ DaemonRestarts \/ UNCHANGED vars
  <2>1. UNCHANGED <<op, cur, open, pendingDestroyQueue>>
    BY <1>19 DEF CallBack, DaemonReports, DaemonStops, DaemonRestarts, vars, threadVars,
                 listVars, clientVars
  <2> QED
    BY <2>1 DEF ClaimInv, Claims, Queued, Distinct
<1> QED
  BY <1>1, <1>2, <1>4, <1>8, <1>9, <1>10, <1>11, <1>12, <1>13, <1>14, <1>15, <1>16,
     <1>17, <1>18, <1>19
  DEF Next, ClientCall, LockStep, RunStep, CallBackStep

-----------------------------------------------------------------------------
(***************************************************************************)
(* Types, references and garbage                                           *)
(***************************************************************************)
\* Initially nothing exists and nobody is in a call.
LEMMA SessionInit == Init => SessionInv /\ LinkInv /\ QuietInv
<1> SUFFICES ASSUME Init PROVE SessionInv /\ LinkInv /\ QuietInv
  OBVIOUS
<1>a. /\ \A t \in Threads : /\ pc[t] \in {"none", "idle"} /\ op[t] = "none"
                            /\ stage[t] = "none" /\ cur[t] = NoHandle /\ work[t] = <<>>
                            /\ pc[t] = "none" => t = CallBackThread
      /\ CallBackThread \in Threads /\ pc[CallBackThread] = "none"
  BY DEF Init, Threads
<1>b. \A t \in Threads, s \in Handles : ~Holds(t, s)
  BY <1>a DEF Holds
<1>c. \A s : ~Queued(s)
  BY DEF Init, Queued
<1>d. Handles \subseteq Nat /\ NoHandle = 0 /\ NoHandle \notin Handles
  BY SessionBoundsAssumption DEF Handles, NoHandle
<1>1. TypeOK
  <2>1. ManagerTypes /\ OutsideTypes
    <3>1. /\ callBackInitialized \in BOOLEAN /\ daemonUp \in BOOLEAN
          /\ callBackLink \in BOOLEAN
      BY Zenon DEF Init
    <3>2. /\ handleIncrementor \in 1 .. MaxSessions + 1 /\ reports \in 0 .. MaxReports
          /\ sent \in 0 .. MaxReports /\ stops \in 0 .. MaxStops
      BY SessionBoundsAssumption DEF Init
    <3>3. activeReferences \in [Handles -> Nat] /\ pendingDestroyQueue \in Seq(Handles)
      BY DEF Init
    <3> QED
      BY <3>1, <3>2, <3>3 DEF Init, ManagerTypes, OutsideTypes
  <2>2. ThreadTypes
    BY DEF Init, ThreadTypes, PCs, Ops, Stages
  <2> QED
    BY <2>1, <2>2, TypeParts
<1>2. PlaceInv
  <2>1. \A t \in Threads : PlaceOf(t)
    BY <1>a DEF PlaceOf, Deleting, Holds
  <2> QED
    BY <1>a, <2>1 DEF PlaceInv, Init
<1>3. MutexInv
  BY <1>a, ThreadsAssumption DEF MutexInv, Deleting, Init, Threads
<1>4. IteratorInv
  <2>1. Walkers = {} /\ ~InRound
    BY <1>a DEF Walkers, Walking, InRound
  <2>2. Cardinality(Walkers) = 0
    BY <2>1, FS_EmptySet
  <2> QED
    BY <2>1, <2>2 DEF IteratorInv, Init
<1>5. ReferenceInv
  <2>1. \A s \in Handles : Holders(s) = {}
    BY <1>b DEF Holders
  <2>2. Cardinality({}) = 0
    BY FS_EmptySet
  <2>3. \A s \in Handles : activeReferences[s] = 0
    BY DEF Init
  <2> QED
    BY <2>1, <2>2, <2>3 DEF ReferenceInv
<1>6. FreshInv
  <2>1. \A s \in Handles : Unknown(s)
    BY <1>c DEF Unknown, Init
  <2> QED
    BY <1>a, <1>d, <2>1 DEF FreshInv, Init
<1>7. ListInv
  BY <1>a DEF ListInv, Init
<1>8. ClaimInv
  BY <1>a, <1>c DEF ClaimInv, Claims, Distinct, Init
<1>9. GarbageInv
  BY DEF GarbageInv, Init
<1>10. LinkInv
  BY <1>a DEF LinkInv
<1>11. QuietInv
  BY <1>a DEF QuietInv, LiveInv, Touches, Holds, WorkLives, Distinct, Elements, Init
<1> QED
  BY <1>1, <1>2, <1>3, <1>4, <1>5, <1>6, <1>7, <1>8, <1>9, <1>10, <1>11 DEF SessionInv

\* The invariant is inductive, whatever the daemon does and however often a
\* destructor wakes up without a signal.
LEMMA SessionStep == SessionInv /\ [Next]_vars => SessionInv'
BY TypeStep, PlaceStep, MutexStep, IteratorStep, ReferenceStep, FreshStep, ListStep,
   ClaimStep, GarbageStep DEF SessionInv

\* It holds in every reachable state.
LEMMA SessionInvariant == Spec => []SessionInv
BY SessionInit, SessionStep, PTL DEF Spec

\* The session manager keeps its types: m_IteratorReference and
\* m_ActiveReferences never go below zero, and every list, queue and pending
\* deletion holds handles that GetUniqueHandle gave out.
THEOREM TypeCorrect == Spec => []TypeOK
<1>1. SessionInv => TypeOK
  BY DEF SessionInv
<1> QED
  BY <1>1, SessionInvariant, PTL

\* m_ActiveReferences of every session that exists is the number of threads
\* between GetInstance and PutInstance.
THEOREM ReferencesCorrect == Spec => []ReferencesCounted
<1>1. SessionInv => ReferencesCounted
  BY DEF SessionInv, TypeOK, ReferenceInv, Holders, ReferencesCounted
<1> QED
  BY <1>1, SessionInvariant, PTL

\* While m_PendingDestroyQueue is not empty, somebody is in the list or deletes.
THEOREM GarbageCorrect == Spec => []GarbageNotStranded
<1>1. SessionInv => GarbageNotStranded
  <2> SUFFICES ASSUME SessionInv PROVE GarbageNotStranded
    OBVIOUS
  <2>1. \A t \in Threads : pc[t] \in Deleting => iteratorMutex # NoThread
    BY DeleterAlone DEF SessionInv, MutexFree
  <2> QED
    BY <2>1 DEF SessionInv, GarbageInv, GarbageNotStranded
<1> QED
  BY <1>1, SessionInvariant, PTL

-----------------------------------------------------------------------------
(***************************************************************************)
(* Until the daemon stops: removal                                         *)
(***************************************************************************)
\* Every step keeps: before the daemon stopped DestroyCallback does not run.
LEMMA LinkStep ==
  ASSUME SessionInv, LinkInv, [Next]_vars
  PROVE  LinkInv'
<1>a. TypeOK /\ PlaceInv
  BY DEF SessionInv
<1>b. CallBackThread \in Threads /\ Clients \subseteq Threads /\ CallBackThread \notin Clients
  BY ThreadsAssumption DEF Threads
<1>c. \A t \in Threads : PlaceOf(t)
  BY <1>a DEF PlaceInv
<1>d. stops \in Nat
  BY <1>a, SessionBoundsAssumption DEF TypeOK
<1> USE <1>a
<1> DEFINE Calm(t) ==
             /\ stage'[t] = "teardown" => stage[t] = "teardown"
             /\ \A u \in Threads \ {t} : pc'[u] = pc[u] /\ stage'[u] = stage[u]
<1>1. ASSUME NEW t \in Threads, Calm(t), pc[t] # "none",
             UNCHANGED <<callBackLink, stops>>
      PROVE  LinkInv'
  BY <1>1, <1>b DEF LinkInv
<1>m. \A t \in Threads : \A place, name, st, s :
          Moves(t, place, name, st, s) /\ (st # "teardown" \/ st = stage[t]) => Calm(t)
  BY DEF Moves
<1>2. ASSUME NEW t \in Clients,
             \/ HDCPCreate(t)
             \/ \E s \in Handles \cup {NoHandle} : HDCPUse(t, s)
             \/ \E s \in Handles : HDCPDestroy(t, s)
      PROVE  LinkInv'
  <2>1. UNCHANGED <<callBackLink, stops>> /\ pc[t] = "idle"
    BY <1>2 DEF HDCPCreate, HDCPUse, HDCPDestroy, envVars
  <2>2. Calm(t)
    BY <1>2, <1>b, <1>m, OutsideMoves
  <2> QED
    BY <1>1, <1>b, <2>1, <2>2
<1>3. \A t \in Threads : Leaves(t) \/ Returns(t) => Calm(t)
  BY <1>m DEF Leaves, Returns
<1>4. ASSUME NEW t \in Threads, LockStep(t) PROVE LinkInv'
  <2>1. UNCHANGED <<callBackLink, stops>> /\ pc[t] # "none"
    BY <1>4 DEF LockStep, Insert, IteratorCriticalSectionEnter, IteratorCriticalSectionExit,
                DestroySession, envVars
  <2>2. Calm(t)
    BY <1>3, <1>4, <1>m, LockMoves DEF LockStep
  <2> QED
    BY <1>1, <2>1, <2>2
<1>5. ASSUME NEW t \in Threads, InitCallBackOk(t) PROVE LinkInv'
  <2>1. callBackLink' = TRUE /\ UNCHANGED <<stage, stops>>
    BY <1>5 DEF InitCallBackOk
  <2> QED
    BY <2>1 DEF LinkInv
<1>6. ASSUME NEW t \in Threads,
             \/ InitCallBackDone(t) \/ InitCallBackError(t) \/ CreateSessionError(t)
             \/ Find(t) \/ CheckPending(t) \/ IncreaseReference(t)
             \/ DecreaseReference(t) \/ Transact(t)
      PROVE  LinkInv'
  <2>1. UNCHANGED <<callBackLink, stops>> /\ pc[t] # "none"
    BY <1>6 DEF InitCallBackDone, InitCallBackError, CreateSessionError, Find,
                CheckPending, IncreaseReference, DecreaseReference, Transact, envVars
  <2>2. Calm(t)
    BY <1>3, <1>6, <1>m, RunMoves
  <2> QED
    BY <1>1, <2>1, <2>2
<1>7. ASSUME NEW t \in Threads, Delete(t) \/ Wakeup(t) \/ Unlink(t) PROVE LinkInv'
  <2>1. UNCHANGED <<callBackLink, stops>> /\ pc[t] # "none"
    BY <1>7 DEF Delete, Wakeup, Unlink, envVars
  <2>2. Calm(t)
    BY <1>3, <1>7, <1>m, LockMoves
  <2> QED
    BY <1>1, <2>1, <2>2
<1>8. CASE ReceiveReport \/ WalkDone
  <2>1. UNCHANGED <<callBackLink, stops>> /\ pc[CallBackThread] # "none"
    BY <1>8 DEF ReceiveReport, WalkDone, envVars
  <2> QED
    BY <1>1, <1>8, <1>b, <1>m, <2>1, OutsideMoves
<1>9. ASSUME NEW s, NEW h, CallBackUses(s, h) \/ CallBackDestroys(s, h)
      PROVE  LinkInv'
  <2>1. UNCHANGED <<callBackLink, stops>> /\ pc[CallBackThread] # "none"
    BY <1>9 DEF CallBackUses, CallBackDestroys, envVars
  <2> QED
    BY <1>1, <1>9, <1>b, <1>m, <2>1, OutsideMoves
<1>10. CASE DestroyCallback
  <2>1. pc[CallBackThread] = "idle" /\ ~callBackLink /\ UNCHANGED stops
    BY <1>10 DEF DestroyCallback, envVars
  <2> QED
    BY <2>1 DEF LinkInv
<1>11. CASE DaemonStops
  <2>1. stops' # 0
    BY <1>11, <1>d DEF DaemonStops
  <2> QED
    BY <2>1 DEF LinkInv
<1>12. CASE \/ \E s \in Handles : CallBack(s)
            \/ DaemonReports \/ DaemonRestarts \/ UNCHANGED vars
  <2>1. UNCHANGED <<pc, stage, callBackLink, stops>>
    BY <1>12 DEF CallBack, DaemonReports, DaemonRestarts, vars, threadVars, envVars
  <2> QED
    BY <2>1 DEF LinkInv
<1> QED
  BY <1>2, <1>4, <1>5, <1>6, <1>7, <1>8, <1>9, <1>10, <1>11, <1>12
  DEF Next, ClientCall, RunStep, CallBackStep

\* Until the daemon goes away a session leaves the list only while
\* m_IteratorReference is zero, with or without spurious wakeups.
THEOREM RemovalCorrect == Spec => NoRemovalWhileIterating
<1>1. SessionInv /\ LinkInv /\ [Next]_vars =>
          [stops = 0 => \A s \in sessionList \ sessionList' : iteratorReference = 0]_vars
  <2> SUFFICES ASSUME SessionInv, LinkInv, [Next]_vars, stops = 0
               PROVE  \A s \in sessionList \ sessionList' : iteratorReference = 0
    OBVIOUS
  <2>1. ASSUME NEW t \in Threads, Unlink(t) PROVE iteratorReference = 0
    <3>1. pc[t] \in Deleting /\ stage[t] # "teardown"
      BY <2>1 DEF Unlink, Deleting, LinkInv
    <3> QED
      BY <3>1 DEF SessionInv, MutexInv
  <2>2. CASE \E t \in Threads : Unlink(t)
    BY <2>1, <2>2
  <2>3. CASE ~\E t \in Threads : Unlink(t)
    <3>1. CASE ClientCall
      BY <3>1 DEF ClientCall, HDCPCreate, HDCPUse, HDCPDestroy, listVars
    <3>2. CASE \E t \in Threads : LockStep(t)
      BY <3>2 DEF LockStep, Insert, IteratorCriticalSectionEnter,
                  IteratorCriticalSectionExit, DestroySession, listVars
    <3>3. CASE \E t \in Threads : RunStep(t)
      BY <2>3, <3>3 DEF RunStep, InitCallBackDone, InitCallBackOk, InitCallBackError,
                        CreateSessionError, Find, CheckPending, IncreaseReference,
                        DecreaseReference, Transact, Delete, Wakeup, listVars
    <3>4. CASE CallBackStep \/ DestroyCallback
      BY <3>4 DEF CallBackStep, ReceiveReport, CallBack, CallBackUses, CallBackDestroys,
                  WalkDone, DestroyCallback, listVars
    <3>5. CASE DaemonReports \/ DaemonStops \/ DaemonRestarts \/ UNCHANGED vars
      BY <3>5 DEF DaemonReports, DaemonStops, DaemonRestarts, vars, listVars
    <3> QED
      BY <3>1, <3>2, <3>3, <3>4, <3>5 DEF Next
  <2> QED
    BY <2>2, <2>3
<1>2. Init => SessionInv /\ LinkInv
  BY SessionInit
<1>3. SessionInv /\ LinkInv /\ [Next]_vars => SessionInv' /\ LinkInv'
  BY SessionStep, LinkStep
<1> QED
  BY <1>1, <1>2, <1>3, PTL DEF Spec, NoRemovalWhileIterating

-----------------------------------------------------------------------------
(***************************************************************************)
(* What the application may have in its calls                              *)
(***************************************************************************)
\* Only handles that HDCPCreate returned are used, and a session that is being
\* created is not among them.
GivenInv ==
    \A t \in Threads :
        /\ op[t] = "use" => cur[t] \in given \cup {NoHandle}
        /\ op[t] \in {"create", "created", "failed"} => cur[t] \notin given

\* The thread is past the test for queued sessions and has not given its
\* reference back.
Using(t) == pc[t] = "grab" \/ Holds(t, cur[t])

\* If the application does not destroy a session that it is using, the users of
\* a session and its destruction exclude each other.
PoliteInv ==
    ~RacingDestroy => \A t \in Threads :
        /\ Using(t) => ~Queued(cur[t])
        /\ \A u \in Threads : op[t] = "use" /\ op[u] = "destroy" => cur[t] # cur[u]

\* Outside DestroyCallback a thread deletes the session of its call, or queued ones.
WorkInv ==
    \A t \in Threads : stage[t] # "teardown" =>
        \A i \in DOMAIN work[t] :
            IF stage[t] = "destroy" THEN work[t][i] = cur[t] ELSE Queued(work[t][i])

\* Then no destructor ever waits.
NoWaitInv ==
    stops = 0 /\ ~RacingDestroy => \A t \in Threads : pc[t] # "wait"

\* What has to be shown of the one thread that moves.
LEMMA GivenKept ==
  ASSUME GivenInv, NEW t \in Threads, NEW place, NEW name, NEW st, NEW c,
         Moves(t, place, name, st, c), UNCHANGED given,
         name = "use" => c \in given \cup {NoHandle},
         name \in {"create", "created", "failed"} => c \notin given
  PROVE  GivenInv'
BY DEF GivenInv, Moves

\* Every step keeps: handles are used after HDCPCreate has returned them.
LEMMA GivenStep ==
  ASSUME SessionInv, GivenInv, [Next]_vars
  PROVE  GivenInv'
<1>a. TypeOK /\ PlaceInv /\ FreshInv /\ ClaimInv
  BY DEF SessionInv
<1>b. CallBackThread \in Threads /\ Clients \subseteq Threads
  BY DEF Threads
<1> USE <1>a
<1>1. ASSUME NEW t \in Clients, HDCPCreate(t) PROVE GivenInv'
  <2>1. handleIncrementor \in Handles /\ UNCHANGED given
    BY <1>1 DEF HDCPCreate, clientVars
  <2>2. Handles \subseteq Nat
    BY SessionBoundsAssumption DEF Handles
  <2>3. handleIncrementor \notin given
    BY <2>1, <2>2 DEF FreshInv, Unknown
  <2> QED
    BY <1>1, <1>b, <2>1, <2>3, OutsideMoves, GivenKept
<1>2. ASSUME NEW t \in Clients, NEW s, HDCPUse(t, s) \/ HDCPDestroy(t, s)
      PROVE  GivenInv'
  <2>1. UNCHANGED given /\ (HDCPUse(t, s) => s \in given \cup {NoHandle})
    BY <1>2 DEF HDCPUse, HDCPDestroy, UseAllowed, clientVars
  <2> QED
    BY <1>2, <1>b, <2>1, OutsideMoves, GivenKept
<1>3. ASSUME NEW t \in Threads, NEW place, NEW st,
             Moves(t, place, op[t], st, cur[t]), UNCHANGED given
      PROVE  GivenInv'
  BY <1>3, GivenKept DEF GivenInv
<1>4. ASSUME NEW t \in Threads, Returns(t), UNCHANGED given PROVE GivenInv'
  BY <1>4, GivenKept DEF Returns
<1>5. ASSUME NEW t \in Threads, Leaves(t) PROVE GivenInv'
  <2>1. CASE op[t] = "created" /\ Returns(t) /\ given' = given \cup {cur[t]}
    <3>1. Claims(t, cur[t]) /\ cur[t] \in Handles
      BY <2>1 DEF Claims, PlaceInv, PlaceOf
    <3>2. \A u \in Threads \ {t} : ~Claims(u, cur[t])
      BY <3>1 DEF ClaimInv
    <3>3. \A u \in Threads \ {t} :
              op[u] \in {"create", "created", "failed"} => cur[u] # cur[t]
      BY <3>2 DEF Claims
    <3>4. op'[t] = "none" /\ \A u \in Threads \ {t} : op'[u] = op[u] /\ cur'[u] = cur[u]
      BY <2>1 DEF Returns, Moves
    <3> QED
      BY <2>1, <3>3, <3>4 DEF GivenInv
  <2>2. CASE Returns(t) /\ UNCHANGED given
    BY <1>4, <2>2
  <2>3. CASE UNCHANGED given /\ \E place, st : Moves(t, place, op[t], st, cur[t])
    BY <1>3, <2>3
  <2> QED
    BY <1>5, <2>1, <2>2, <2>3 DEF Leaves
<1>6. ASSUME NEW t \in Threads, LockStep(t) PROVE GivenInv'
  <2>1. IteratorCriticalSectionExit(t) \/ UNCHANGED given
    BY <1>6 DEF LockStep, Insert, IteratorCriticalSectionEnter, DestroySession, clientVars
  <2> QED
    BY <1>3, <1>4, <1>5, <1>6, <2>1, LockMoves DEF LockStep
<1>7. ASSUME NEW t \in Threads, InitCallBackOk(t) PROVE GivenInv'
  BY <1>7 DEF InitCallBackOk, GivenInv, clientVars
<1>8. ASSUME NEW t \in Threads,
             \/ InitCallBackDone(t) \/ InitCallBackError(t) \/ CreateSessionError(t)
             \/ Find(t) \/ CheckPending(t) \/ IncreaseReference(t) \/ DecreaseReference(t)
      PROVE  GivenInv'
  <2>1. UNCHANGED given
    BY <1>8 DEF InitCallBackDone, InitCallBackError, CreateSessionError, Find,
                CheckPending, IncreaseReference, DecreaseReference, clientVars
  <2>2. Returns(t) \/ \E place, st : Moves(t, place, op[t], st, cur[t])
    BY <1>8, RunMoves, Zenon
  <2> QED
    BY <1>3, <1>4, <2>1, <2>2
<1>9. ASSUME NEW t \in Threads, Transact(t) PROVE GivenInv'
  <2>1. UNCHANGED given
    BY <1>9 DEF Transact, clientVars
  <2>2. op[t] = "create" => cur[t] \notin given
    BY DEF GivenInv
  <2> QED
    BY <1>3, <1>9, <2>1, <2>2, RunMoves, GivenKept
<1>10. ASSUME NEW t \in Threads, Delete(t) \/ Wakeup(t) PROVE GivenInv'
  <2>1. UNCHANGED given
    BY <1>10 DEF Delete, Wakeup, clientVars
  <2> QED
    BY <1>3, <1>10, <2>1, LockMoves
<1>11. ASSUME NEW t \in Threads, Unlink(t) PROVE GivenInv'
  BY <1>3, <1>4, <1>5, <1>11, LockMoves
<1>12. CASE ReceiveReport \/ WalkDone \/ DestroyCallback
  <2>1. UNCHANGED given
    BY <1>12 DEF ReceiveReport, WalkDone, DestroyCallback, clientVars
  <2> QED
    BY <1>3, <1>b, <1>12, <2>1, OutsideMoves
<1>13. ASSUME NEW s, NEW h, CallBackUses(s, h) \/ CallBackDestroys(s, h)
       PROVE  GivenInv'
  <2>1. UNCHANGED given /\ (CallBackUses(s, h) => h \in given \cup {NoHandle})
    BY <1>13 DEF CallBackUses, CallBackDestroys, UseAllowed, clientVars
  <2> QED
    BY <1>13, <1>b, <2>1, OutsideMoves, GivenKept
<1>14. CASE \/ \E s \in Handles : CallBack(s)
            \/ DaemonReports \/ DaemonStops \/ DaemonRestarts \/ UNCHANGED vars
  <2>1. UNCHANGED <<op, cur, given>>
    BY <1>14 DEF CallBack, DaemonReports, DaemonStops, DaemonRestarts, vars, threadVars,
                 clientVars
  <2> QED
    BY <2>1 DEF GivenInv
<1> QED
  BY <1>1, <1>2, <1>6, <1>7, <1>8, <1>9, <1>10, <1>11, <1>12, <1>13, <1>14
  DEF Next, ClientCall, RunStep, CallBackStep

\* A step that starts no call, hands out no session and queues none.
LEMMA PoliteKept ==
  ASSUME PoliteInv, NEW t \in Threads, NEW place, NEW name, NEW st, NEW c,
         Moves(t, place, name, st, c),
         pendingDestroyQueue' \in {pendingDestroyQueue, <<>>},
         name \in {"use", "destroy"} => name = op[t] /\ c = cur[t],
         Using(t)' => Using(t) /\ c = cur[t]
  PROVE  PoliteInv'
<1> SUFFICES ASSUME ~RacingDestroy PROVE PoliteInv'
  BY DEF PoliteInv
<1>1. \A u \in Threads : Using(u)' => Using(u) /\ cur'[u] = cur[u]
  BY DEF Moves, Using, Holds
<1>2. \A u \in Threads : op'[u] \in {"use", "destroy"} =>
          op'[u] = op[u] /\ cur'[u] = cur[u]
  BY DEF Moves
<1>3. \A s : ~Queued(s) => ~Queued(s)'
  BY DEF Queued
<1>4. \A u \in Threads : Using(u)' => ~Queued(cur[u])'
  BY <1>1, <1>3 DEF PoliteInv, Queued
<1>5. \A u, v \in Threads : op'[u] = "use" /\ op'[v] = "destroy" => cur'[u] # cur'[v]
  BY <1>2 DEF PoliteInv
<1> QED
  BY <1>4, <1>5 DEF PoliteInv

\* A call begins: the application is in no other call that excludes it.
LEMMA PoliteCall ==
  ASSUME PoliteInv, NEW t \in Threads, NEW s, UNCHANGED pendingDestroyQueue,
         \/ Moves(t, "enter", "use", "get", s) /\ UseAllowed(s)
         \/ Moves(t, "destroy", "destroy", "destroy", s) /\ DestroyAllowed(s)
  PROVE  PoliteInv'
<1> SUFFICES ASSUME ~RacingDestroy PROVE PoliteInv'
  BY DEF PoliteInv
<1>1. \A u \in Threads : Using(u)' => Using(u) /\ cur'[u] = cur[u]
  BY DEF Moves, Using, Holds
<1>2. \A u \in Threads : Using(u)' => ~Queued(cur[u])'
  BY <1>1 DEF PoliteInv, Queued
<1>3. CASE Moves(t, "enter", "use", "get", s) /\ UseAllowed(s)
  <2>1. \A u \in Threads : op[u] = "destroy" => cur[u] # s
    BY <1>3 DEF UseAllowed, InCall
  <2>2. \A u, v \in Threads : op'[u] = "use" /\ op'[v] = "destroy" => cur'[u] # cur'[v]
    BY <1>3, <2>1 DEF PoliteInv, Moves
  <2> QED
    BY <1>2, <2>2 DEF PoliteInv
<1>4. CASE Moves(t, "destroy", "destroy", "destroy", s) /\ DestroyAllowed(s)
  <2>1. \A u \in Threads : op[u] = "use" => cur[u] # s
    BY <1>4 DEF DestroyAllowed, InCall
  <2>2. \A u, v \in Threads : op'[u] = "use" /\ op'[v] = "destroy" => cur'[u] # cur'[v]
    BY <1>4, <2>1 DEF PoliteInv, Moves
  <2> QED
    BY <1>2, <2>2 DEF PoliteInv
<1> QED
  BY <1>3, <1>4

\* Nobody else uses the session that a polite application's thread destroys.
LEMMA DestroyerAlone ==
  ASSUME SessionInv, GivenInv, PoliteInv, ~RacingDestroy,
         NEW t \in Threads, stage[t] = "destroy", NEW u \in Threads, Using(u)
  PROVE  cur[u] # cur[t]
<1> SUFFICES ASSUME cur[u] = cur[t] PROVE FALSE
  OBVIOUS
<1>a. PlaceOf(t) /\ PlaceOf(u) /\ ClaimInv
  BY DEF SessionInv, PlaceInv
<1>1. op[t] \in {"failed", "destroy"} /\ cur[t] \in Handles /\ u # t
  BY <1>a DEF PlaceOf, Using, Holds
<1>2. op[u] \in {"create", "created", "failed", "use"}
  BY <1>a DEF PlaceOf, Using, Holds
<1>3. op[u] = "use"
  BY <1>a, <1>1, <1>2 DEF ClaimInv, Claims
<1>4. op[t] = "failed"
  BY <1>1, <1>3 DEF PoliteInv
<1>5. NoHandle \notin Handles
  BY SessionBoundsAssumption DEF Handles, NoHandle
<1> QED
  BY <1>1, <1>3, <1>4, <1>5 DEF GivenInv

\* Every step keeps: users and destruction exclude each other.
LEMMA PoliteStep ==
  ASSUME SessionInv, GivenInv, PoliteInv, [Next]_vars
  PROVE  PoliteInv'
<1>a. TypeOK /\ PlaceInv
  BY DEF SessionInv
<1>b. CallBackThread \in Threads /\ Clients \subseteq Threads
  BY DEF Threads
<1>c. \A t \in Threads : PlaceOf(t)
  BY <1>a DEF PlaceInv
<1> USE <1>a
<1>1. ASSUME NEW t \in Clients, HDCPCreate(t) PROVE PoliteInv'
  <2>1. Moves(t, "init", "create", "none", handleIncrementor)
        /\ UNCHANGED pendingDestroyQueue
    BY <1>1, OutsideMoves DEF HDCPCreate, listVars
  <2>2. ~Using(t)'
    BY <2>1 DEF Moves, Using, Holds
  <2> QED
    BY <1>b, <2>1, <2>2, PoliteKept
<1>2. ASSUME NEW t \in Clients, NEW s, HDCPUse(t, s) \/ HDCPDestroy(t, s)
      PROVE  PoliteInv'
  <2>1. UNCHANGED pendingDestroyQueue
    BY <1>2 DEF HDCPUse, HDCPDestroy, listVars
  <2>2. CASE HDCPUse(t, s)
    BY <1>b, <2>1, <2>2, OutsideMoves, PoliteCall DEF HDCPUse
  <2>3. CASE HDCPDestroy(t, s)
    BY <1>b, <2>1, <2>3, OutsideMoves, PoliteCall DEF HDCPDestroy
  <2> QED
    BY <1>2, <2>2, <2>3
<1>3. ASSUME NEW t \in Threads, NEW place, NEW st,
             Moves(t, place, op[t], st, cur[t]), Using(t)' => Using(t),
             pendingDestroyQueue' \in {pendingDestroyQueue, <<>>}
      PROVE  PoliteInv'
  BY <1>3, PoliteKept
<1>4. ASSUME NEW t \in Threads, Returns(t),
             pendingDestroyQueue' \in {pendingDestroyQueue, <<>>}
      PROVE  PoliteInv'
  <2>1. ~Using(t)'
    BY <1>4 DEF Returns, Moves, Using, Holds
  <2> QED
    BY <1>4, <2>1, PoliteKept DEF Returns
<1>5. ASSUME NEW t \in Threads, Leaves(t), pc[t] \in {"exit", "unlink"},
             pendingDestroyQueue' \in {pendingDestroyQueue, <<>>}
      PROVE  PoliteInv'
  <2>1. CASE Returns(t)
    BY <1>4, <1>5, <2>1
  <2>2. CASE stage[t] = "get" /\ Moves(t, "use", op[t], "get", cur[t])
    <3>1. Using(t)
      BY <1>5, <2>2 DEF Using, Holds
    <3> QED
      BY <1>3, <1>5, <2>2, <3>1
  <2>3. CASE op[t] = "failed" /\ Moves(t, "destroy", "failed", "destroy", cur[t])
    <3>1. ~Using(t)'
      BY <2>3 DEF Moves, Using, Holds
    <3> QED
      BY <1>3, <1>5, <2>3, <3>1
  <2>4. CASE Moves(t, "idle", op[t], "none", cur[t])
    <3>1. ~Using(t)'
      BY <2>4 DEF Moves, Using, Holds
    <3> QED
      BY <1>3, <1>5, <2>4, <3>1
  <2> QED
    BY <1>5, <2>1, <2>2, <2>3, <2>4 DEF Leaves
<1>6. ASSUME NEW t \in Threads, Insert(t) \/ IteratorCriticalSectionEnter(t)
      PROVE  PoliteInv'
  <2>1. UNCHANGED pendingDestroyQueue /\ pc[t] \in {"insert", "enter"}
    BY <1>6 DEF Insert, IteratorCriticalSectionEnter, listVars
  <2>2. CASE Moves(t, "enter", op[t], "get", cur[t])
    <3>1. ~Using(t)'
      BY <2>2 DEF Moves, Using, Holds
    <3> QED
      BY <1>3, <2>1, <2>2, <3>1
  <2>3. CASE /\ pc[t] = "enter"
             /\ Moves(t, IF stage[t] = "iterate" THEN "walk" ELSE "find",
                      op[t], stage[t], cur[t])
    <3>1. Using(t)' => Using(t)
      BY <2>3 DEF Moves, Using, Holds
    <3> QED
      BY <1>3, <2>1, <2>3, <3>1
  <2> QED
    BY <1>6, <2>2, <2>3, LockMoves DEF IteratorCriticalSectionEnter
<1>7. ASSUME NEW t \in Threads, IteratorCriticalSectionExit(t) PROVE PoliteInv'
  <2>1. UNCHANGED pendingDestroyQueue /\ pc[t] = "exit"
    BY <1>7 DEF IteratorCriticalSectionExit, listVars
  <2>2. CASE Moves(t, "delete", op[t], stage[t], cur[t])
    <3>1. Using(t)' => Using(t)
      BY <2>1, <2>2 DEF Moves, Using, Holds
    <3> QED
      BY <1>3, <2>1, <2>2, <3>1
  <2> QED
    BY <1>5, <1>7, <2>1, <2>2, LockMoves
<1>8. ASSUME NEW t \in Threads, DestroySession(t) PROVE PoliteInv'
  <2>1. pc[t] = "destroy" /\ stage[t] = "destroy"
    BY <1>8, <1>c DEF DestroySession, PlaceOf
  <2>2. CASE pendingDestroyQueue' = Append(pendingDestroyQueue, cur[t]) /\ Returns(t)
    <3> SUFFICES ASSUME ~RacingDestroy PROVE PoliteInv'
      BY DEF PoliteInv
    <3>1. ~Using(t)' /\ \A u \in Threads \ {t} : Using(u)' => Using(u) /\ cur'[u] = cur[u]
      BY <2>2 DEF Returns, Moves, Using, Holds
    <3>2. \A u \in Threads : Using(u) => cur[u] # cur[t]
      BY <2>1, DestroyerAlone
    <3>3. pendingDestroyQueue \in Seq(Handles)
      BY DEF TypeOK
    <3>4. \A s : Queued(s)' => Queued(s) \/ s = cur[t]
      BY <2>2, <3>3 DEF Queued
    <3>5. \A u \in Threads : Using(u)' => ~Queued(cur[u])'
      <4>1. ASSUME NEW u \in Threads, Using(u)' PROVE ~Queued(cur[u])'
        <5>1. Using(u) /\ cur'[u] = cur[u] /\ cur[u] # cur[t]
          BY <3>1, <3>2, <4>1
        <5>2. ~Queued(cur[u])
          BY <5>1 DEF PoliteInv
        <5>3. \A i \in DOMAIN pendingDestroyQueue' : pendingDestroyQueue'[i] # cur[u]
          BY <3>4, <5>1, <5>2 DEF Queued
        <5> QED
          BY <5>1, <5>3 DEF Queued
      <4> QED
        BY <4>1
    <3>6. \A u, v \in Threads : op'[u] = "use" /\ op'[v] = "destroy" => cur'[u] # cur'[v]
      BY <2>2 DEF PoliteInv, Returns, Moves
    <3> QED
      BY <3>5, <3>6 DEF PoliteInv
  <2>3. CASE UNCHANGED pendingDestroyQueue
    <3>1. CASE Moves(t, "delete", op[t], stage[t], cur[t])
      <4>1. ~Using(t)'
        BY <2>1, <3>1 DEF Moves, Using, Holds
      <4> QED
        BY <1>3, <2>3, <3>1, <4>1
    <3> QED
      BY <1>4, <1>8, <2>3, <3>1, LockMoves
  <2> QED
    BY <1>8, <2>2, <2>3, LockMoves DEF DestroySession
<1>9. ASSUME NEW t \in Threads, InitCallBackOk(t) PROVE PoliteInv'
  <2>1. UNCHANGED <<op, stage, cur, pendingDestroyQueue>>
    BY <1>9 DEF InitCallBackOk, listVars
  <2>2. /\ pc'[t] = "insert" /\ pc'[CallBackThread] = "idle"
        /\ \A u \in Threads \ {t, CallBackThread} : pc'[u] = pc[u]
    BY <1>9, RunMoves
  <2>3. \A u \in Threads : Using(u)' => Using(u)
    BY <2>1, <2>2 DEF Using, Holds
  <2> QED
    BY <2>1, <2>3 DEF PoliteInv, Queued
<1>10. ASSUME NEW t \in Threads,
              InitCallBackDone(t) \/ InitCallBackError(t) \/ CreateSessionError(t)
       PROVE  PoliteInv'
  <2>1. UNCHANGED pendingDestroyQueue
    BY <1>10 DEF InitCallBackDone, InitCallBackError, CreateSessionError, listVars
  <2>2. CASE Moves(t, "insert", op[t], stage[t], cur[t])
    <3>1. ~Using(t)'
      BY <2>2 DEF Moves, Using, Holds
    <3> QED
      BY <1>3, <2>1, <2>2, <3>1
  <2> QED
    BY <1>4, <1>10, <2>1, <2>2, RunMoves
<1>11. ASSUME NEW t \in Threads, Find(t) PROVE PoliteInv'
  <2>1. UNCHANGED pendingDestroyQueue /\ pc[t] = "find" /\ stage[t] \in {"get", "put"}
    BY <1>11, <1>c DEF Find, listVars, PlaceOf
  <2>2. CASE Moves(t, IF stage[t] = "get" THEN "check" ELSE "drop",
                   op[t], stage[t], cur[t])
    <3>1. Using(t)' => Using(t)
      BY <2>1, <2>2 DEF Moves, Using, Holds
    <3> QED
      BY <1>3, <2>1, <2>2, <3>1
  <2>3. CASE Moves(t, "exit", op[t], IF stage[t] = "get" THEN "miss" ELSE stage[t], cur[t])
    <3>1. ~Using(t)'
      BY <2>1, <2>3 DEF Moves, Using, Holds
    <3> QED
      BY <1>3, <2>1, <2>3, <3>1
  <2> QED
    BY <1>11, <2>2, <2>3, RunMoves
<1>12. ASSUME NEW t \in Threads, CheckPending(t) PROVE PoliteInv'
  <2>1. UNCHANGED pendingDestroyQueue
    BY <1>12 DEF CheckPending, listVars
  <2>2. CASE Moves(t, "exit", op[t], "miss", cur[t])
    <3>1. ~Using(t)'
      BY <2>2 DEF Moves, Using, Holds
    <3> QED
      BY <1>3, <2>1, <2>2, <3>1
  <2>3. CASE ~Queued(cur[t]) /\ Moves(t, "grab", op[t], stage[t], cur[t])
    <3>1. /\ \A u \in Threads : op'[u] = op[u] /\ cur'[u] = cur[u]
          /\ \A u \in Threads \ {t} : Using(u)' => Using(u)
      BY <2>3 DEF Moves, Using, Holds
    <3> QED
      BY <2>1, <2>3, <3>1 DEF PoliteInv, Queued
  <2> QED
    BY <1>12, <2>2, <2>3, RunMoves
<1>13. ASSUME NEW t \in Threads, IncreaseReference(t) \/ DecreaseReference(t)
       PROVE  PoliteInv'
  <2>1. UNCHANGED pendingDestroyQueue /\ pc[t] \in {"grab", "drop"}
    BY <1>13 DEF IncreaseReference, DecreaseReference, listVars
  <2>2. Moves(t, "exit", op[t], stage[t], cur[t]) /\ (pc[t] = "drop" => stage[t] = "put")
    BY <1>13, <1>c, RunMoves DEF PlaceOf
  <2>3. Using(t)' => Using(t)
    BY <2>1, <2>2 DEF Moves, Using, Holds
  <2> QED
    BY <1>3, <2>1, <2>2, <2>3
<1>14. ASSUME NEW t \in Threads, Transact(t) PROVE PoliteInv'
  <2>1. UNCHANGED pendingDestroyQueue /\ Using(t)
    BY <1>14 DEF Transact, listVars, Using, Holds
  <2> QED
    BY <1>3, <1>14, <2>1, RunMoves, PoliteKept
<1>15. ASSUME NEW t \in Threads, Delete(t) \/ Wakeup(t) \/ Unlink(t) PROVE PoliteInv'
  <2>1. /\ pendingDestroyQueue' \in {pendingDestroyQueue, <<>>} /\ pc[t] \in Deleting
        /\ Unlink(t) => pc[t] = "unlink"
    BY <1>15 DEF Delete, Wakeup, Unlink, QueueAfter, Deleting
  <2>2. ASSUME NEW place, Moves(t, place, op[t], stage[t], cur[t]),
               place \in Deleting \cup {"gone"}
        PROVE  PoliteInv'
    <3>1. Using(t)' => Using(t)
      BY <2>1, <2>2 DEF Moves, Using, Holds, Deleting
    <3> QED
      BY <1>3, <2>1, <2>2, <3>1
  <2> QED
    BY <1>4, <1>5, <1>15, <2>1, <2>2, LockMoves DEF Deleting
<1>16. CASE ReceiveReport \/ WalkDone \/ DestroyCallback
  <2>1. UNCHANGED pendingDestroyQueue
    BY <1>16 DEF ReceiveReport, WalkDone, DestroyCallback, listVars
  <2>2. ASSUME NEW place, NEW st, st \in {"iterate", "teardown"},
               Moves(CallBackThread, place, op[CallBackThread], st, cur[CallBackThread]),
               place \in {"enter", "exit", "gone", "delete"}
        PROVE  PoliteInv'
    <3>1. ~Using(CallBackThread)'
      BY <2>2 DEF Moves, Using, Holds
    <3> QED
      BY <1>3, <1>b, <2>1, <2>2, <3>1
  <2> QED
    BY <1>b, <1>16, <2>2, OutsideMoves
<1>17. ASSUME NEW s, NEW h, CallBackUses(s, h) \/ CallBackDestroys(s, h)
       PROVE  PoliteInv'
  <2>1. UNCHANGED pendingDestroyQueue
    BY <1>17 DEF CallBackUses, CallBackDestroys, listVars
  <2>2. CASE CallBackUses(s, h)
    BY <1>b, <2>1, <2>2, OutsideMoves, PoliteCall DEF CallBackUses
  <2>3. CASE CallBackDestroys(s, h)
    BY <1>b, <2>1, <2>3, OutsideMoves, PoliteCall DEF CallBackDestroys
  <2> QED
    BY <1>17, <2>2, <2>3
<1>18. CASE \/ \E s \in Handles : CallBack(s)
            \/ DaemonReports \/ DaemonStops \/ DaemonRestarts \/ UNCHANGED vars
  <2>1. UNCHANGED <<pc, op, stage, cur, pendingDestroyQueue>>
    BY <1>18 DEF CallBack, DaemonReports, DaemonStops, DaemonRestarts, vars, threadVars,
                 listVars
  <2> QED
    BY <2>1 DEF PoliteInv, Using, Holds, Queued
<1> QED
  BY <1>1, <1>2, <1>6, <1>7, <1>8, <1>9, <1>10, <1>11, <1>12, <1>13, <1>14, <1>15,
     <1>16, <1>17, <1>18
  DEF Next, ClientCall, LockStep, RunStep, CallBackStep

\* What has to be shown of the one thread that moves, when the queue keeps what
\* the others have still to delete.
LEMMA WorkMoves ==
  ASSUME WorkInv, NEW t \in Threads, NEW place, NEW name, NEW st, NEW c,
         Moves(t, place, name, st, c),
         \A u \in Threads \ {t} :
             /\ work'[u] = work[u]
             /\ work[u] # <<>> => \A s : Queued(s) => Queued(s)',
         st # "teardown" => \A i \in DOMAIN work'[t] :
             IF st = "destroy" THEN work'[t][i] = c ELSE Queued(work[t][i])'
  PROVE  WorkInv'
<1>1. ASSUME NEW u \in Threads \ {t}, stage'[u] # "teardown", NEW i \in DOMAIN work'[u]
      PROVE  IF stage'[u] = "destroy" THEN work'[u][i] = cur'[u] ELSE Queued(work[u][i])'
  <2>1. stage'[u] = stage[u] /\ cur'[u] = cur[u] /\ work'[u] = work[u]
    BY DEF Moves
  <2>2. CASE stage[u] = "destroy"
    BY <1>1, <2>1, <2>2 DEF WorkInv
  <2>3. CASE stage[u] # "destroy"
    <3>1. Queued(work[u][i])
      BY <1>1, <2>1, <2>3 DEF WorkInv
    <3>2. work[u] # <<>>
      BY <1>1, <2>1
    <3>3. \A s : Queued(s) => Queued(s)'
      BY <3>2
    <3>4. \E j \in DOMAIN pendingDestroyQueue' : pendingDestroyQueue'[j] = work[u][i]
      BY <3>1, <3>3 DEF Queued
    <3> QED
      BY <2>1, <2>3, <3>4 DEF Queued
  <2> QED
    BY <2>2, <2>3
<1>2. stage'[t] = st /\ cur'[t] = c
  BY DEF Moves
<1> QED
  BY <1>1, <1>2 DEF WorkInv

\* A thread that does not delete moves to a place where it does not delete.
LEMMA WorkKept ==
  ASSUME TypeOK, MutexInv, WorkInv, NEW t \in Threads, NEW place, NEW name, NEW st, NEW c,
         Moves(t, place, name, st, c), pc[t] \notin Deleting, UNCHANGED work,
         \A s : Queued(s) => Queued(s)'
  PROVE  WorkInv'
<1>1. work[t] = <<>>
  BY DEF MutexInv
<1> QED
  BY <1>1, WorkMoves

\* Every step keeps: only what is destroyed is deleted.
LEMMA WorkStep ==
  ASSUME SessionInv, WorkInv, [Next]_vars
  PROVE  WorkInv'
<1>a. TypeOK /\ PlaceInv /\ MutexInv /\ IteratorInv
  BY DEF SessionInv
<1>b. CallBackThread \in Threads /\ Clients \subseteq Threads
  BY DEF Threads
<1>c. \A t \in Threads : PlaceOf(t)
  BY <1>a DEF PlaceInv
<1> USE <1>a
<1>q. UNCHANGED pendingDestroyQueue => \A s : Queued(s) <=> Queued(s)'
  BY DEF Queued
<1>1. ASSUME NEW t \in Clients,
             \/ HDCPCreate(t)
             \/ \E s \in Handles \cup {NoHandle} : HDCPUse(t, s)
             \/ \E s \in Handles : HDCPDestroy(t, s)
      PROVE  WorkInv'
  <2>1. UNCHANGED <<work, pendingDestroyQueue>> /\ pc[t] \notin Deleting
    BY <1>1 DEF HDCPCreate, HDCPUse, HDCPDestroy, listVars, Deleting
  <2> QED
    BY <1>1, <1>b, <1>q, <2>1, OutsideMoves, WorkKept
<1>2. ASSUME NEW t \in Threads, Insert(t) \/ IteratorCriticalSectionEnter(t)
      PROVE  WorkInv'
  <2>1. UNCHANGED <<work, pendingDestroyQueue>> /\ pc[t] \notin Deleting
    BY <1>2 DEF Insert, IteratorCriticalSectionEnter, listVars, Deleting
  <2> QED
    BY <1>2, <1>q, <2>1, LockMoves, WorkKept
<1>3. ASSUME NEW t \in Threads, Leaves(t) \/ Returns(t), pc[t] \notin Deleting,
             UNCHANGED work, \A s : Queued(s) => Queued(s)'
      PROVE  WorkInv'
  BY <1>3, WorkKept DEF Leaves, Returns
<1>4. ASSUME NEW t \in Threads, IteratorCriticalSectionExit(t) PROVE WorkInv'
  <2>1. /\ UNCHANGED pendingDestroyQueue /\ pc[t] = "exit"
        /\ \/ ExitMustDelete /\ work' = [work EXCEPT ![t] = pendingDestroyQueue]
           \/ ~ExitMustDelete /\ UNCHANGED work
    BY <1>4 DEF IteratorCriticalSectionExit, listVars
  <2>2. CASE ExitMustDelete
    <3>1. Moves(t, "delete", op[t], stage[t], cur[t])
      BY <1>4, <2>2, LockMoves
    <3>2. /\ work'[t] = pendingDestroyQueue
          /\ \A u \in Threads \ {t} : work'[u] = work[u]
      BY <2>1, <2>2 DEF TypeOK
    <3>3. stage[t] # "destroy"
      BY <1>c, <2>1 DEF PlaceOf
    <3>4. \A i \in DOMAIN work'[t] : Queued(work[t][i])'
      BY <2>1, <3>2 DEF Queued
    <3> QED
      BY <1>q, <2>1, <3>1, <3>2, <3>3, <3>4, WorkMoves
  <2>3. CASE ~ExitMustDelete
    BY <1>3, <1>4, <1>q, <2>1, <2>3, LockMoves DEF Deleting
  <2> QED
    BY <2>2, <2>3
<1>5. ASSUME NEW t \in Threads, DestroySession(t) PROVE WorkInv'
  <2>1. pc[t] = "destroy" /\ stage[t] = "destroy" /\ pc[t] \notin Deleting
    BY <1>5, <1>c DEF DestroySession, PlaceOf, Deleting
  <2>2. CASE pendingDestroyQueue' = Append(pendingDestroyQueue, cur[t])
             /\ UNCHANGED work /\ Returns(t)
    <3>1. pendingDestroyQueue \in Seq(Handles)
      BY DEF TypeOK
    <3>2. \A s : Queued(s) => Queued(s)'
      BY <2>2, <3>1 DEF Queued
    <3> QED
      BY <1>3, <2>1, <2>2, <3>2
  <2>3. CASE UNCHANGED <<pendingDestroyQueue, work>> /\ Returns(t)
    BY <1>3, <1>q, <2>1, <2>3
  <2>4. CASE /\ UNCHANGED pendingDestroyQueue /\ work' = [work EXCEPT ![t] = <<cur[t]>>]
             /\ Moves(t, "delete", op[t], stage[t], cur[t])
    <3>1. work'[t] = <<cur[t]>> /\ \A u \in Threads \ {t} : work'[u] = work[u]
      BY <2>4 DEF TypeOK
    <3> QED
      BY <1>q, <2>1, <2>4, <3>1, WorkMoves
  <2> QED
    BY <1>5, <2>2, <2>3, <2>4, LockMoves DEF DestroySession
<1>6. ASSUME NEW t \in Threads, InitCallBackOk(t) PROVE WorkInv'
  <2>1. UNCHANGED <<stage, cur, work, pendingDestroyQueue>>
    BY <1>6 DEF InitCallBackOk, listVars
  <2> QED
    BY <2>1 DEF WorkInv, Queued
<1>7. ASSUME NEW t \in Threads,
             \/ InitCallBackDone(t) \/ InitCallBackError(t) \/ CreateSessionError(t)
             \/ Find(t) \/ CheckPending(t) \/ IncreaseReference(t)
             \/ DecreaseReference(t) \/ Transact(t)
      PROVE  WorkInv'
  <2>1. UNCHANGED <<work, pendingDestroyQueue>> /\ pc[t] \notin Deleting
    BY <1>7 DEF InitCallBackDone, InitCallBackError, CreateSessionError, Find,
                CheckPending, IncreaseReference, DecreaseReference, Transact, listVars,
                Deleting
  <2>2. \E place, name, st, c : Moves(t, place, name, st, c)
    BY <1>7, RunMoves DEF Returns
  <2> QED
    BY <1>q, <2>1, <2>2, WorkKept
<1>8. ASSUME NEW t \in Threads, Delete(t) \/ Wakeup(t) PROVE WorkInv'
  <2>1. UNCHANGED <<work, pendingDestroyQueue>>
    BY <1>8 DEF Delete, Wakeup
  <2>2. PICK place : Moves(t, place, op[t], stage[t], cur[t])
    BY <1>8, LockMoves
  <2>3. stage[t] # "teardown" => \A i \in DOMAIN work'[t] :
            IF stage[t] = "destroy" THEN work'[t][i] = cur[t] ELSE Queued(work[t][i])'
    BY <2>1 DEF WorkInv, Queued
  <2> QED
    BY <1>q, <2>1, <2>2, <2>3, WorkMoves
<1>9. ASSUME NEW t \in Threads, Unlink(t) PROVE WorkInv'
  <2>1. pc[t] = "unlink" /\ work' = [work EXCEPT ![t] = Tail(work[t])]
    BY <1>9 DEF Unlink
  <2>2. work'[t] = Tail(work[t]) /\ \A u \in Threads \ {t} : work'[u] = work[u]
    BY <2>1 DEF TypeOK
  <2>3. \A u \in Threads \ {t} : work[u] = <<>>
    BY <2>1 DEF MutexInv, Deleting
  <2>4. work[t] \in Seq(Handles) /\ work[t] # <<>>
    BY <2>1 DEF TypeOK, MutexInv, Deleting
  <2>5. CASE Tail(work[t]) # <<>>
    <3>1. Moves(t, "delete", op[t], stage[t], cur[t]) /\ UNCHANGED pendingDestroyQueue
      BY <1>9, <2>5, LockMoves DEF Unlink
    <3>2. \A i \in DOMAIN Tail(work[t]) :
              i + 1 \in DOMAIN work[t] /\ Tail(work[t])[i] = work[t][i + 1]
      BY <2>4
    <3>3. stage[t] # "teardown" => \A i \in DOMAIN work'[t] :
              IF stage[t] = "destroy" THEN work'[t][i] = cur[t] ELSE Queued(work'[t][i])
      BY <2>2, <3>2 DEF WorkInv
    <3>4. stage[t] # "teardown" => \A i \in DOMAIN work'[t] :
              IF stage[t] = "destroy" THEN work'[t][i] = cur[t] ELSE Queued(work[t][i])'
      BY <3>1, <3>3 DEF Queued
    <3> QED
      BY <2>2, <2>3, <3>1, <3>4, WorkMoves
  <2>6. CASE Tail(work[t]) = <<>>
    <3>1. work'[t] = <<>>
      BY <2>2, <2>6
    <3>2. \A i \in DOMAIN work'[t] : FALSE
      BY <3>1
    <3>3. \E place, name, st, c : Moves(t, place, name, st, c)
      BY <1>9, <2>6, LockMoves DEF Leaves, Returns
    <3> QED
      BY <2>2, <2>3, <3>2, <3>3, WorkMoves
  <2> QED
    BY <2>5, <2>6
<1>10. CASE ReceiveReport \/ WalkDone
  <2>1. UNCHANGED <<work, pendingDestroyQueue>> /\ pc[CallBackThread] \notin Deleting
    BY <1>10 DEF ReceiveReport, WalkDone, listVars, Deleting
  <2> QED
    BY <1>b, <1>q, <1>10, <2>1, OutsideMoves, WorkKept
<1>11. ASSUME NEW s, NEW h, CallBackUses(s, h) \/ CallBackDestroys(s, h) PROVE WorkInv'
  <2>1. UNCHANGED <<work, pendingDestroyQueue>> /\ pc[CallBackThread] \notin Deleting
    BY <1>11 DEF CallBackUses, CallBackDestroys, listVars, Deleting
  <2> QED
    BY <1>b, <1>q, <1>11, <2>1, OutsideMoves, WorkKept
<1>12. CASE DestroyCallback
  <2>1. UNCHANGED pendingDestroyQueue
        /\ \A u \in Threads \ {CallBackThread} : work'[u] = work[u]
    BY <1>12 DEF DestroyCallback, listVars, TypeOK
  <2> QED
    BY <1>b, <1>q, <1>12, <2>1, OutsideMoves, WorkMoves
<1>13. CASE \/ \E s \in Handles : CallBack(s)
            \/ DaemonReports \/ DaemonStops \/ DaemonRestarts \/ UNCHANGED vars
  <2>1. UNCHANGED <<stage, cur, work, pendingDestroyQueue>>
    BY <1>13 DEF CallBack, DaemonReports, DaemonStops, DaemonRestarts, vars, threadVars,
                 listVars
  <2> QED
    BY <2>1 DEF WorkInv, Queued
<1> QED
  BY <1>1, <1>2, <1>4, <1>5, <1>6, <1>7, <1>8, <1>9, <1>10, <1>11, <1>12, <1>13
  DEF Next, ClientCall, LockStep, RunStep, CallBackStep

\* Until the daemon stops, the destructor of a session that a polite application
\* destroys finds no reference.
LEMMA NothingToWaitFor ==
  ASSUME SessionInv, LinkInv, GivenInv, PoliteInv, WorkInv, stops = 0, ~RacingDestroy,
         LiveInv, NEW t \in Threads, pc[t] = "delete"
  PROVE  ~MustWait(Head(work[t]))
<1> DEFINE s == Head(work[t])
<1>a. TypeOK /\ MutexInv /\ ReferenceInv
  BY DEF SessionInv
<1>1. work[t] \in Seq(Handles) /\ work[t] # <<>> /\ stage[t] # "teardown"
  BY <1>a DEF TypeOK, MutexInv, Deleting, LinkInv
<1>2. s = work[t][1] /\ 1 \in DOMAIN work[t] /\ s \in Handles
  BY <1>1
<1>3. s \in alive
  BY <1>2 DEF LiveInv, WorkLives, Elements
<1>4. IF stage[t] = "destroy" THEN s = cur[t] ELSE Queued(s)
  BY <1>1, <1>2 DEF WorkInv
<1> HIDE DEF s
<1>5. ASSUME NEW u \in Threads, Holds(u, s) PROVE FALSE
  <2>1. Using(u) /\ cur[u] = s
    BY <1>5 DEF Using, Holds
  <2>2. CASE stage[t] = "destroy"
    BY <1>4, <2>1, <2>2, DestroyerAlone
  <2>3. CASE stage[t] # "destroy"
    BY <1>4, <2>1, <2>3 DEF PoliteInv
  <2> QED
    BY <2>2, <2>3
<1>6. Holders(s) = {}
  BY <1>5 DEF Holders
<1>7. activeReferences[s] = 0
  BY <1>2, <1>3, <1>6, <1>a, FS_EmptySet DEF ReferenceInv
<1> QED
  BY <1>7 DEF MustWait, s

\* Every step keeps: no destructor waits.
LEMMA NoWaitStep ==
  ASSUME SessionInv, LinkInv, GivenInv, PoliteInv, WorkInv, QuietInv, NoWaitInv,
         [Next]_vars
  PROVE  NoWaitInv'
<1>a. TypeOK /\ PlaceInv
  BY DEF SessionInv
<1>b. CallBackThread \in Threads /\ Clients \subseteq Threads
  BY DEF Threads
<1>c. stops \in Nat
  BY <1>a, SessionBoundsAssumption DEF TypeOK
<1>d. stops' = stops \/ stops' = stops + 1
  BY DEF Next, ClientCall, HDCPCreate, HDCPUse, HDCPDestroy, LockStep, RunStep, Insert,
         IteratorCriticalSectionEnter, IteratorCriticalSectionExit, DestroySession,
         InitCallBackDone, InitCallBackOk, InitCallBackError, CreateSessionError, Find,
         CheckPending, IncreaseReference, DecreaseReference, Transact, Delete, Wakeup,
         Unlink, CallBackStep, ReceiveReport, CallBack, CallBackUses, CallBackDestroys,
         WalkDone, DestroyCallback, DaemonReports, DaemonStops, DaemonRestarts,
         envVars, vars
<1> SUFFICES ASSUME stops = 0, ~RacingDestroy, NEW t \in Threads
             PROVE  pc'[t] # "wait"
  BY <1>c, <1>d DEF NoWaitInv
<1>e. pc[t] # "wait"
  BY DEF NoWaitInv
<1> USE <1>a, <1>e
<1>m. ASSUME NEW u \in Threads, NEW place, NEW name, NEW st, NEW c,
             Moves(u, place, name, st, c), place # "wait"
      PROVE  pc'[t] # "wait"
  BY <1>m DEF Moves
<1>1. ASSUME NEW u \in Threads, Returns(u) \/ Leaves(u) PROVE pc'[t] # "wait"
  BY <1>1, <1>m DEF Returns, Leaves
<1>2. CASE ClientCall
  BY <1>2, <1>b, <1>m, OutsideMoves DEF ClientCall
<1>3. ASSUME NEW u \in Threads, LockStep(u) PROVE pc'[t] # "wait"
  BY <1>1, <1>3, <1>m, LockMoves DEF LockStep
<1>4. ASSUME NEW u \in Threads, InitCallBackOk(u) PROVE pc'[t] # "wait"
  BY <1>4, RunMoves
<1>5. ASSUME NEW u \in Threads,
             \/ InitCallBackDone(u) \/ InitCallBackError(u) \/ CreateSessionError(u)
             \/ Find(u) \/ CheckPending(u) \/ IncreaseReference(u)
             \/ DecreaseReference(u) \/ Transact(u)
      PROVE  pc'[t] # "wait"
  BY <1>1, <1>5, <1>m, RunMoves
<1>6. ASSUME NEW u \in Threads, Delete(u) PROVE pc'[t] # "wait"
  <2>1. ~MustWait(Head(work[u]))
    BY <1>6, NothingToWaitFor DEF Delete, QuietInv
  <2> QED
    BY <1>6, <1>m, <2>1, LockMoves
<1>7. ASSUME NEW u \in Threads, Wakeup(u) \/ Unlink(u) PROVE pc'[t] # "wait"
  BY <1>1, <1>7, <1>m, LockMoves
<1>8. CASE ReceiveReport \/ WalkDone \/ DestroyCallback
  BY <1>8, <1>b, <1>m, OutsideMoves
<1>9. ASSUME NEW s, NEW h, CallBackUses(s, h) \/ CallBackDestroys(s, h)
      PROVE  pc'[t] # "wait"
  BY <1>9, <1>b, <1>m, OutsideMoves
<1>10. CASE \/ \E s \in Handles : CallBack(s)
            \/ DaemonReports \/ DaemonStops \/ DaemonRestarts \/ UNCHANGED vars
  <2>1. UNCHANGED pc
    BY <1>10 DEF CallBack, DaemonReports, DaemonStops, DaemonRestarts, vars, threadVars
  <2> QED
    BY <2>1
<1> QED
  BY <1>2, <1>3, <1>4, <1>5, <1>6, <1>7, <1>8, <1>9, <1>10
  DEF Next, RunStep, CallBackStep

-----------------------------------------------------------------------------
(***************************************************************************)
(* Until the daemon stops: no use after free                               *)
(***************************************************************************)
\* What a step of one thread has to show: that what this thread may reach
\* exists afterwards, and that it frees nothing another thread may reach.
LEMMA LiveMoves ==
  ASSUME LiveInv, NEW t \in Threads, NEW place, NEW name, NEW st, NEW c,
         Moves(t, place, name, st, c), UNCHANGED signalled,
         \A u \in Threads \ {t} :
             /\ work'[u] = work[u]
             /\ Touches(u) => cur[u] \in alive'
             /\ pc[u] \in Deleting => alive \subseteq alive',
         Touches(t)' => c \in alive', WorkLives(t)',
         MutexFree' => Elements(pendingDestroyQueue') \subseteq alive',
         visit' \subseteq alive'
  PROVE  LiveInv'
<1>1. ASSUME NEW u \in Threads \ {t} PROVE (Touches(u) => cur[u] \in alive)'
  BY DEF Touches, Holds, Moves
<1>2. ASSUME NEW u \in Threads \ {t} PROVE WorkLives(u)'
  <2>1. WorkLives(u) /\ work'[u] = work[u] /\ pc'[u] = pc[u]
    BY DEF LiveInv, Moves
  <2>2. Distinct(work[u])'
    BY <2>1 DEF WorkLives, Distinct
  <2>3. CASE pc[u] \in Deleting
    <3>1. alive \subseteq alive'
      BY <2>3
    <3> QED
      BY <2>1, <2>2, <3>1 DEF WorkLives, Elements
  <2>4. CASE pc[u] \notin Deleting
    BY <2>1, <2>2, <2>4 DEF WorkLives, Deleting
  <2> QED
    BY <2>3, <2>4
<1>3. cur'[t] = c
  BY DEF Moves
<1> QED
  BY <1>1, <1>2, <1>3 DEF LiveInv

\* A step that neither deletes nor queues anything.
LEMMA LiveKept ==
  ASSUME LiveInv, NEW t \in Threads, NEW place, NEW name, NEW st, NEW c,
         Moves(t, place, name, st, c), place \notin Deleting,
         UNCHANGED <<signalled, work, iteratorMutex, pendingDestroyQueue>>,
         alive \subseteq alive', visit' \subseteq alive', Touches(t)' => c \in alive'
  PROVE  LiveInv'
<1>1. pc'[t] \notin Deleting
  BY DEF Moves
<1>2. WorkLives(t)'
  BY <1>1 DEF LiveInv, WorkLives, Deleting, Distinct
<1>3. MutexFree' => Elements(pendingDestroyQueue') \subseteq alive'
  BY DEF LiveInv, MutexFree, Elements
<1>4. \A u \in Threads \ {t} : Touches(u) => cur[u] \in alive'
  BY DEF LiveInv
<1> QED
  BY <1>2, <1>3, <1>4, LiveMoves

\* While a thread is inside the list nobody deletes, and the list holds the
\* sessions that exist.
LEMMA InsideSafe ==
  ASSUME SessionInv, LinkInv, stops = 0,
         InRound \/ \E t \in Threads : pc[t] \in Walking
  PROVE  /\ sessionList = alive /\ MutexFree
         /\ \A u \in Threads : pc[u] \notin Deleting
<1>1. \A u \in Threads : pc[u] \notin Deleting
  BY DeleterAlone DEF SessionInv, LinkInv
<1>2. MutexFree
  BY <1>1 DEF SessionInv, TypeOK, MutexInv, MutexFree
<1> QED
  BY <1>1, <1>2 DEF SessionInv, ListInv

\* Insert and the iterator sections free nothing; the last walker takes over
\* what was queued, which exists and is there once.
LEMMA LiveLock ==
  ASSUME SessionInv, LinkInv, stops = 0, LiveInv, NEW t \in Threads, LockStep(t)
  PROVE  LiveInv'
<1>a. TypeOK /\ PlaceInv /\ MutexInv
  BY DEF SessionInv
<1>b. PlaceOf(t)
  BY <1>a DEF PlaceInv
<1>c. MutexFree => sessionList = alive
  BY DEF SessionInv, ListInv
<1>d. \A u \in Threads : Touches(u) => cur[u] \in alive
  BY DEF LiveInv
<1>e. visit \subseteq alive
  BY DEF LiveInv
<1>f. t # NoThread
  BY ThreadsAssumption DEF Threads
<1>r. Returns(t) => ~Touches(t)'
  BY DEF Returns, Moves, Touches, Holds
<1>1. CASE Insert(t)
  <2>1. Moves(t, "enter", op[t], "get", cur[t])
    BY <1>1, <1>a, LockMoves
  <2>2. /\ UNCHANGED <<signalled, work, iteratorMutex, pendingDestroyQueue, visit>>
        /\ alive' = alive \cup {cur[t]}
    BY <1>1 DEF Insert
  <2>3. ~Touches(t)'
    BY <2>1 DEF Moves, Touches, Holds
  <2> QED
    BY <1>e, <2>1, <2>2, <2>3, LiveKept DEF Deleting
<1>2. CASE IteratorCriticalSectionEnter(t)
  <2>1. Moves(t, IF stage[t] = "iterate" THEN "walk" ELSE "find", op[t], stage[t], cur[t])
    BY <1>2, <1>a, LockMoves
  <2>2. /\ UNCHANGED <<signalled, work, iteratorMutex, pendingDestroyQueue, alive>>
        /\ pc[t] = "enter" /\ MutexFree
        /\ visit' = visit \/ visit' = sessionList
    BY <1>2 DEF IteratorCriticalSectionEnter, listVars
  <2>3. Touches(t)' => Touches(t)
    BY <2>1, <2>2 DEF Moves, Touches, Holds
  <2>4. visit' \subseteq alive' /\ (Touches(t)' => cur[t] \in alive')
    BY <1>c, <1>d, <1>e, <2>2, <2>3
  <2> QED
    BY <2>1, <2>2, <2>4, LiveKept DEF Deleting
<1>3. CASE IteratorCriticalSectionExit(t)
  <2>1. /\ UNCHANGED <<signalled, pendingDestroyQueue, alive, visit>>
        /\ pc[t] = "exit" /\ MutexFree
        /\ \/ /\ ExitMustDelete /\ iteratorMutex' = t
              /\ work' = [work EXCEPT ![t] = pendingDestroyQueue]
           \/ ~ExitMustDelete /\ UNCHANGED <<iteratorMutex, work>>
    BY <1>3 DEF IteratorCriticalSectionExit, listVars
  <2>2. CASE ExitMustDelete
    <3>1. Moves(t, "delete", op[t], stage[t], cur[t])
      BY <1>3, <1>a, <2>2, LockMoves
    <3>2. /\ work'[t] = pendingDestroyQueue /\ ~MutexFree'
          /\ \A u \in Threads \ {t} : work'[u] = work[u]
      BY <1>a, <1>f, <2>1, <2>2 DEF TypeOK, MutexFree
    <3>3. Touches(t)' => Touches(t)
      BY <2>1, <3>1 DEF Moves, Touches, Holds
    <3>4. Distinct(pendingDestroyQueue) /\ Elements(pendingDestroyQueue) \subseteq alive
      BY <2>1 DEF SessionInv, ClaimInv, LiveInv
    <3>5. pc'[t] = "delete"
      BY <3>1 DEF Moves
    <3>6. WorkLives(t)'
      BY <2>1, <3>2, <3>4, <3>5 DEF WorkLives, Distinct, Elements
    <3>7. Touches(t)' => cur[t] \in alive'
      BY <1>d, <2>1, <3>3
    <3> QED
      BY <1>d, <1>e, <2>1, <3>1, <3>2, <3>6, <3>7, LiveMoves
  <2>3. CASE ~ExitMustDelete
    <3>1. Leaves(t)
      BY <1>3, <1>a, <2>3, LockMoves
    <3>2. UNCHANGED <<signalled, work, iteratorMutex, pendingDestroyQueue, alive, visit>>
      BY <2>1, <2>3
    <3>3. CASE stage[t] = "get" /\ Moves(t, "use", op[t], "get", cur[t])
      <4>1. Touches(t)
        BY <2>1, <3>3 DEF Touches, Holds
      <4> QED
        BY <1>d, <1>e, <3>2, <3>3, <4>1, LiveKept DEF Deleting
    <3>4. CASE Moves(t, "destroy", "failed", "destroy", cur[t])
      <4>1. ~Touches(t)'
        BY <3>4 DEF Moves, Touches, Holds
      <4> QED
        BY <1>e, <3>2, <3>4, <4>1, LiveKept DEF Deleting
    <3>5. CASE Moves(t, "idle", op[t], "none", cur[t])
      <4>1. ~Touches(t)'
        BY <3>5 DEF Moves, Touches, Holds
      <4> QED
        BY <1>e, <3>2, <3>5, <4>1, LiveKept DEF Deleting
    <3>6. CASE Returns(t)
      BY <1>e, <1>r, <3>2, <3>6, LiveKept DEF Deleting, Returns
    <3> QED
      BY <3>1, <3>3, <3>4, <3>5, <3>6 DEF Leaves
  <2> QED
    BY <2>2, <2>3
<1>4. CASE DestroySession(t)
  <2>1. /\ UNCHANGED <<signalled, alive, visit>>
        /\ pc[t] = "destroy" /\ MutexFree
        /\ \/ ~Destroyable(cur[t])
              /\ UNCHANGED <<pendingDestroyQueue, iteratorMutex, work>>
           \/ /\ Destroyable(cur[t]) /\ ~SafeToDelete
              /\ pendingDestroyQueue' = Append(pendingDestroyQueue, cur[t])
              /\ UNCHANGED <<iteratorMutex, work>>
           \/ /\ Destroyable(cur[t]) /\ SafeToDelete /\ UNCHANGED pendingDestroyQueue
              /\ iteratorMutex' = t /\ work' = [work EXCEPT ![t] = <<cur[t]>>]
    BY <1>4 DEF DestroySession
  <2>2. CASE Destroyable(cur[t]) /\ SafeToDelete
    <3>1. Moves(t, "delete", op[t], stage[t], cur[t])
      BY <1>4, <1>a, <2>2, LockMoves
    <3>2. /\ work'[t] = <<cur[t]>> /\ ~MutexFree'
          /\ \A u \in Threads \ {t} : work'[u] = work[u]
      BY <1>a, <1>f, <2>1, <2>2 DEF TypeOK, MutexFree
    <3>3. stage[t] = "destroy"
      BY <1>b, <2>1 DEF PlaceOf
    <3>4. ~Touches(t)'
      BY <3>1, <3>3 DEF Moves, Touches, Holds
    <3>5. cur[t] \in alive /\ pc'[t] = "delete"
      BY <1>c, <2>1, <2>2, <3>1 DEF Destroyable, Moves
    <3>6. WorkLives(t)'
      BY <2>1, <3>2, <3>5 DEF WorkLives, Distinct, Elements
    <3> QED
      BY <1>d, <1>e, <2>1, <3>1, <3>2, <3>4, <3>6, LiveMoves
  <2>3. CASE Destroyable(cur[t]) /\ ~SafeToDelete
    <3>1. Returns(t)
      BY <1>4, <1>a, <2>3, LockMoves
    <3>2. UNCHANGED <<iteratorMutex, work>>
          /\ pendingDestroyQueue' = Append(pendingDestroyQueue, cur[t])
      BY <2>1, <2>3
    <3>3. cur[t] \in alive /\ Elements(pendingDestroyQueue) \subseteq alive
      BY <1>c, <2>1, <2>3 DEF Destroyable, LiveInv
    <3>4. Elements(pendingDestroyQueue') \subseteq alive'
      BY <1>a, <2>1, <3>2, <3>3 DEF Elements, TypeOK
    <3>5. pc'[t] \notin Deleting
      BY <3>1 DEF Returns, Moves, Deleting
    <3>6. WorkLives(t)'
      BY <3>2, <3>5 DEF LiveInv, WorkLives, Distinct, Deleting
    <3> QED
      BY <1>d, <1>e, <1>r, <2>1, <3>1, <3>2, <3>4, <3>6, LiveMoves DEF Returns
  <2>4. CASE ~Destroyable(cur[t])
    <3>1. Returns(t)
      BY <1>4, <1>a, <2>4, LockMoves
    <3> QED
      BY <1>e, <1>r, <2>1, <2>4, <3>1, LiveKept DEF Returns, Deleting
  <2> QED
    BY <2>2, <2>3, <2>4
<1> QED
  BY <1>1, <1>2, <1>3, <1>4 DEF LockStep

\* The destructor of a session that nobody uses frees it under nobody: its users
\* are counted, and no thread is inside the list.
LEMMA LiveDelete ==
  ASSUME SessionInv, LinkInv, stops = 0, LiveInv, NEW t \in Threads,
         Delete(t) \/ Unlink(t)
  PROVE  LiveInv'
<1>a. TypeOK /\ PlaceInv /\ MutexInv /\ IteratorInv /\ ReferenceInv /\ GarbageInv
  BY DEF SessionInv
<1>b. \A u \in Threads : PlaceOf(u)
  BY <1>a DEF PlaceInv
<1>c. pc[t] \in Deleting /\ stage[t] # "teardown"
  BY DEF LinkInv, Delete, Unlink, Deleting
<1>d. /\ ~InRound /\ ~MutexFree /\ work[t] # <<>>
      /\ \A u \in Threads : pc[u] \notin Walking
      /\ \A u \in Threads : pc[u] \in Deleting => u = t
  BY <1>a, <1>c, DeleterAlone
<1>e. visit = {}
  BY <1>a, <1>d DEF PlaceInv
<1>f. work[t] \in Seq(Handles) /\ work[t] # <<>>
  BY <1>a, <1>d DEF TypeOK
<1>g. \A u \in Threads : Touches(u) => cur[u] \in alive
  BY DEF LiveInv
<1>h. WorkLives(t)
  BY DEF LiveInv
<1>1. CASE Delete(t) /\ MustWait(Head(work[t]))
  <2>1. Moves(t, "wait", op[t], stage[t], cur[t])
    BY <1>1, <1>a, LockMoves
  <2>2. pc[t] = "delete" /\ UNCHANGED <<signalled, work, iteratorMutex, alive, visit>>
    BY <1>1 DEF Delete
  <2>3. (Touches(t)' => Touches(t)) /\ pc'[t] = "wait" /\ ~MutexFree'
    BY <1>d, <2>1, <2>2 DEF Moves, Touches, Holds, MutexFree
  <2>4. WorkLives(t)'
    BY <1>h, <2>2, <2>3 DEF WorkLives, Distinct, Elements
  <2> QED
    BY <1>e, <1>g, <2>1, <2>2, <2>3, <2>4, LiveMoves
<1>2. CASE Delete(t) /\ ~MustWait(Head(work[t]))
  <2> DEFINE s == Head(work[t])
  <2>1. Moves(t, "unlink", op[t], stage[t], cur[t])
    BY <1>2, <1>a, LockMoves
  <2>2. /\ pc[t] = "delete" /\ UNCHANGED <<signalled, work, iteratorMutex, visit>>
        /\ alive' = alive \ {s}
    BY <1>2 DEF Delete
  <2>3. (Touches(t)' => Touches(t)) /\ pc'[t] = "unlink" /\ ~MutexFree'
    BY <1>d, <2>1, <2>2 DEF Moves, Touches, Holds, MutexFree
  <2>4. \A u \in Threads : Touches(u) => cur[u] # s
    <3>1. ASSUME NEW u \in Threads, Touches(u) PROVE cur[u] # s
      <4>1. Holds(u, cur[u])
        BY <1>d, <3>1 DEF Touches, Walking
      <4>2. cur[u] \in Handles
        BY <1>b, <4>1 DEF PlaceOf
      <4>3. activeReferences[cur[u]] > 0
        BY <1>a, <4>1, <4>2, HolderCounted
      <4> QED
        BY <1>2, <4>3 DEF MustWait
    <3> QED
      BY <3>1
  <2>5. \A i \in DOMAIN work[t] : i # 1 => work[t][i] \in alive \ {s}
    <3>1. s = work[t][1] /\ 1 \in DOMAIN work[t]
      BY <1>f
    <3>2. Elements(work[t]) \subseteq alive /\ Distinct(work[t])
      BY <1>h, <2>2 DEF WorkLives
    <3> QED
      BY <3>1, <3>2 DEF Elements, Distinct
  <2>6. WorkLives(t)'
    BY <1>h, <2>2, <2>3, <2>5 DEF WorkLives, Distinct
  <2>7. \A u \in Threads : Touches(u) => cur[u] \in alive'
    BY <1>g, <2>2, <2>4
  <2> HIDE DEF s
  <2> QED
    BY <1>d, <1>e, <2>1, <2>2, <2>3, <2>6, <2>7, LiveMoves
<1>3. CASE Unlink(t)
  <2>1. pc[t] = "unlink" /\ UNCHANGED <<signalled, alive, visit>>
        /\ work' = [work EXCEPT ![t] = Tail(work[t])]
    BY <1>3 DEF Unlink
  <2>2. work'[t] = Tail(work[t]) /\ \A u \in Threads \ {t} : work'[u] = work[u]
    BY <1>a, <2>1 DEF TypeOK
  <2>3. /\ Distinct(Tail(work[t]))
        /\ Elements(Tail(work[t])) \subseteq alive
    <3>1. /\ Distinct(work[t])
          /\ \A i \in DOMAIN work[t] : i # 1 => work[t][i] \in alive
      BY <1>h, <2>1 DEF WorkLives
    <3>2. /\ DOMAIN Tail(work[t]) = 1 .. Len(work[t]) - 1
          /\ DOMAIN work[t] = 1 .. Len(work[t]) /\ Len(work[t]) \in Nat
          /\ \A i \in DOMAIN Tail(work[t]) : Tail(work[t])[i] = work[t][i + 1]
      BY <1>f
    <3>3. \A i \in DOMAIN Tail(work[t]) :
              i \in Nat /\ i + 1 \in DOMAIN work[t] /\ i + 1 # 1
      BY <3>2
    <3>4. Elements(Tail(work[t])) \subseteq alive
      BY <3>1, <3>2, <3>3 DEF Elements
    <3>5. Distinct(Tail(work[t]))
      <4>1. ASSUME NEW i \in DOMAIN Tail(work[t]), NEW j \in DOMAIN Tail(work[t]),
                   Tail(work[t])[i] = Tail(work[t])[j]
            PROVE  i = j
        <5>1. i + 1 = j + 1
          BY <3>1, <3>2, <3>3, <4>1 DEF Distinct
        <5> QED
          BY <3>3, <5>1
      <4> QED
        BY <4>1 DEF Distinct
    <3> QED
      BY <3>4, <3>5
  <2>4. CASE Tail(work[t]) # <<>>
    <3>1. Moves(t, "delete", op[t], stage[t], cur[t])
      BY <1>3, <1>a, <2>4, LockMoves
    <3>2. UNCHANGED iteratorMutex
      BY <1>3, <2>4 DEF Unlink
    <3>3. (Touches(t)' => Touches(t)) /\ pc'[t] = "delete" /\ ~MutexFree'
      BY <1>d, <2>1, <3>1, <3>2 DEF Moves, Touches, Holds, MutexFree
    <3>4. WorkLives(t)'
      BY <2>1, <2>2, <2>3, <3>3 DEF WorkLives, Distinct, Elements
    <3> QED
      BY <1>e, <1>g, <2>1, <2>2, <3>1, <3>3, <3>4, LiveMoves
  <2>5. CASE Tail(work[t]) = <<>>
    <3>1. pendingDestroyQueue' = QueueAfter(t)
      BY <1>3, <2>5 DEF Unlink
    <3>2. stage[t] = "destroy" => pendingDestroyQueue = <<>>
      <4>1. iteratorReference = 0
        BY <1>a, <1>c DEF MutexInv
      <4> QED
        BY <1>a, <1>d, <4>1 DEF GarbageInv
    <3>3. pendingDestroyQueue' = <<>>
      BY <1>c, <3>1, <3>2 DEF QueueAfter
    <3>4. Elements(pendingDestroyQueue') \subseteq alive'
      BY <3>3 DEF Elements
    <3>5. ASSUME NEW place, NEW name, NEW st, NEW c, Moves(t, place, name, st, c),
                 place \notin Deleting, Touches(t)' => c \in alive
          PROVE  LiveInv'
      <4>1. pc'[t] \notin Deleting
        BY <3>5 DEF Moves
      <4>2. WorkLives(t)'
        BY <2>2, <2>3, <4>1 DEF WorkLives, Distinct, Deleting
      <4> QED
        BY <1>e, <1>g, <2>1, <2>2, <3>4, <3>5, <4>2, LiveMoves
    <3>6. Leaves(t) \/ Returns(t)
      BY <1>3, <1>a, <1>c, <2>5, LockMoves
    <3>7. CASE stage[t] = "get" /\ Moves(t, "use", op[t], "get", cur[t])
      <4>1. Touches(t)
        BY <2>1, <3>7 DEF Touches, Holds
      <4> QED
        BY <1>g, <3>5, <3>7, <4>1 DEF Deleting
    <3>8. CASE Moves(t, "destroy", "failed", "destroy", cur[t])
      <4>1. ~Touches(t)'
        BY <3>8 DEF Moves, Touches, Holds
      <4> QED
        BY <3>5, <3>8, <4>1 DEF Deleting
    <3>9. CASE Moves(t, "idle", op[t], "none", cur[t])
      <4>1. ~Touches(t)'
        BY <3>9 DEF Moves, Touches, Holds
      <4> QED
        BY <3>5, <3>9, <4>1 DEF Deleting
    <3>10. CASE Returns(t)
      <4>1. ~Touches(t)'
        BY <3>10 DEF Returns, Moves, Touches, Holds
      <4> QED
        BY <3>5, <3>10, <4>1 DEF Returns, Deleting
    <3> QED
      BY <3>6, <3>7, <3>8, <3>9, <3>10 DEF Leaves
  <2> QED
    BY <2>4, <2>5
<1> QED
  BY <1>1, <1>2, <1>3

\* Every step keeps: until the daemon stops, what a thread may reach exists.
\* Only a spurious wakeup could let a destructor go on under the users of its
\* session, and there has to be one that waits.
LEMMA QuietStep ==
  ASSUME ~SpuriousWakeups \/ ~RacingDestroy,
         SessionInv, LinkInv, QuietInv, NoWaitInv, [Next]_vars
  PROVE  QuietInv'
<1>a. TypeOK /\ PlaceInv
  BY DEF SessionInv
<1>b. CallBackThread \in Threads /\ Clients \subseteq Threads
  BY DEF Threads
<1>c. stops \in Nat
  BY <1>a, SessionBoundsAssumption DEF TypeOK
<1>d. CASE stops' # 0
  BY <1>d DEF QuietInv
<1>e. CASE stops # 0
  <2>1. stops' = stops \/ stops' = stops + 1
    BY DEF Next, ClientCall, HDCPCreate, HDCPUse, HDCPDestroy, LockStep, RunStep, Insert,
           IteratorCriticalSectionEnter, IteratorCriticalSectionExit, DestroySession,
           InitCallBackDone, InitCallBackOk, InitCallBackError, CreateSessionError, Find,
           CheckPending, IncreaseReference, DecreaseReference, Transact, Delete, Wakeup,
           Unlink, CallBackStep, ReceiveReport, CallBack, CallBackUses, CallBackDestroys,
           WalkDone, DestroyCallback, DaemonReports, DaemonStops, DaemonRestarts,
           envVars, vars
  <2> QED
    BY <1>c, <1>e, <2>1 DEF QuietInv
<1> SUFFICES ASSUME stops = 0, stops' = 0 PROVE LiveInv'
  BY <1>d, <1>e DEF QuietInv
<1>f. LiveInv
  BY DEF QuietInv
<1>g. visit \subseteq alive /\ \A u \in Threads : Touches(u) => cur[u] \in alive
  BY <1>f DEF LiveInv
<1> USE <1>a, <1>b, <1>f
<1>1. ASSUME NEW t \in Clients,
             \/ HDCPCreate(t)
             \/ \E s \in Handles \cup {NoHandle} : HDCPUse(t, s)
             \/ \E s \in Handles : HDCPDestroy(t, s)
      PROVE  LiveInv'
  <2>1. UNCHANGED <<signalled, work, iteratorMutex, pendingDestroyQueue, alive, visit>>
    BY <1>1 DEF HDCPCreate, HDCPUse, HDCPDestroy, listVars
  <2>2. ASSUME NEW place, NEW name, NEW st, NEW s, Moves(t, place, name, st, s),
               place \in {"init", "destroy"} \/ (place = "enter" /\ st = "get")
        PROVE  LiveInv'
    <3>1. ~Touches(t)'
      BY <2>2 DEF Moves, Touches, Holds
    <3> QED
      BY <1>g, <2>1, <2>2, <3>1, LiveKept DEF Deleting
  <2> QED
    BY <1>1, <2>2, OutsideMoves
<1>2. ASSUME NEW t \in Threads, InitCallBackOk(t) PROVE LiveInv'
  <2>1. UNCHANGED <<signalled, work, iteratorMutex, pendingDestroyQueue, alive, visit,
                    op, stage, cur>>
    BY <1>2 DEF InitCallBackOk, listVars
  <2>2. /\ pc'[t] = "insert" /\ pc'[CallBackThread] = "idle"
        /\ \A u \in Threads \ {t, CallBackThread} : pc'[u] = pc[u]
    BY <1>2, RunMoves
  <2>3. \A u \in Threads : Touches(u)' => Touches(u)
    BY <2>1, <2>2 DEF Touches, Holds
  <2>4. ASSUME NEW u \in Threads PROVE WorkLives(u)'
    <3>1. WorkLives(u) /\ (pc'[u] = pc[u] \/ pc'[u] \notin Deleting)
      BY <2>2 DEF LiveInv, Deleting
    <3> QED
      BY <2>1, <3>1 DEF WorkLives, Distinct, Elements, Deleting
  <2> QED
    BY <2>1, <2>3, <2>4 DEF LiveInv, MutexFree, Elements
<1>3. ASSUME NEW t \in Threads,
             \/ InitCallBackDone(t) \/ InitCallBackError(t) \/ CreateSessionError(t)
             \/ CheckPending(t) \/ IncreaseReference(t) \/ Transact(t)
      PROVE  LiveInv'
  <2>1. UNCHANGED <<signalled, work, iteratorMutex, pendingDestroyQueue, alive, visit>>
    BY <1>3 DEF InitCallBackDone, InitCallBackError, CreateSessionError, CheckPending,
                IncreaseReference, Transact, listVars
  <2>2. ASSUME NEW place, NEW name, NEW st, NEW s, Moves(t, place, name, st, s),
               place \notin Deleting,
               \/ place \notin {"check", "grab", "exit", "use", "enter", "find", "drop"}
               \/ place = "exit" /\ st = "miss"
               \/ Touches(t) /\ s = cur[t]
        PROVE  LiveInv'
    <3>1. Touches(t)' => s \in alive'
      BY <1>g, <2>1, <2>2 DEF Moves, Touches, Holds, Deleting
    <3> QED
      BY <1>g, <2>1, <2>2, <3>1, LiveKept
  <2>3. CASE InitCallBackDone(t)
    BY <2>2, <2>3, RunMoves DEF Deleting
  <2>4. CASE InitCallBackError(t) \/ CreateSessionError(t)
    BY <2>2, <2>4, RunMoves DEF Deleting, Returns
  <2>5. CASE CheckPending(t)
    <3>1. Touches(t)
      BY <2>5 DEF CheckPending, Touches
    <3> QED
      BY <2>2, <2>5, <3>1, RunMoves DEF Deleting
  <2>6. CASE IncreaseReference(t)
    <3>1. Touches(t)
      BY <2>6 DEF IncreaseReference, Touches
    <3> QED
      BY <2>2, <2>6, <3>1, RunMoves DEF Deleting
  <2>7. CASE Transact(t)
    <3>1. Touches(t)
      BY <2>7 DEF Transact, Touches, Holds
    <3> QED
      BY <2>2, <2>7, <3>1, RunMoves DEF Deleting
  <2> QED
    BY <1>3, <2>3, <2>4, <2>5, <2>6, <2>7
<1>4. ASSUME NEW t \in Threads, Find(t) PROVE LiveInv'
  <2>1. UNCHANGED <<signalled, work, iteratorMutex, pendingDestroyQueue, alive, visit>>
        /\ pc[t] = "find"
    BY <1>4 DEF Find, listVars
  <2>2. stage[t] \in {"get", "put"}
    BY <2>1 DEF PlaceInv, PlaceOf
  <2>3. sessionList = alive
    BY <2>1, InsideSafe DEF Walking
  <2>4. CASE cur[t] \in sessionList
    <3>1. Moves(t, IF stage[t] = "get" THEN "check" ELSE "drop", op[t], stage[t], cur[t])
      BY <1>4, <2>4, RunMoves
    <3> QED
      BY <1>g, <2>1, <2>3, <2>4, <3>1, LiveKept DEF Deleting
  <2>5. CASE cur[t] \notin sessionList
    <3>1. Moves(t, "exit", op[t], IF stage[t] = "get" THEN "miss" ELSE stage[t], cur[t])
      BY <1>4, <2>5, RunMoves
    <3>2. ~Touches(t)'
      BY <2>2, <3>1 DEF Moves, Touches, Holds
    <3> QED
      BY <1>g, <2>1, <3>1, <3>2, LiveKept DEF Deleting
  <2> QED
    BY <2>4, <2>5
<1>5. ASSUME NEW t \in Threads, DecreaseReference(t) PROVE LiveInv'
  <2>1. UNCHANGED <<work, iteratorMutex, pendingDestroyQueue, alive, visit>>
        /\ pc[t] = "drop"
    BY <1>5 DEF DecreaseReference, listVars
  <2>2. \A u \in Threads : pc[u] \notin Deleting
    BY <2>1, InsideSafe DEF Walking
  <2>3. Waiting(cur[t]) = {}
    BY <2>2 DEF Waiting, Deleting
  <2>4. UNCHANGED signalled
    BY <1>5, <2>3 DEF DecreaseReference
  <2>5. Moves(t, "exit", op[t], stage[t], cur[t]) /\ stage[t] = "put"
    BY <1>5, <2>1, RunMoves DEF PlaceInv, PlaceOf
  <2>6. ~Touches(t)'
    BY <2>5 DEF Moves, Touches, Holds
  <2> QED
    BY <1>g, <2>1, <2>4, <2>5, <2>6, LiveKept DEF Deleting
<1>6. ASSUME NEW t \in Threads, Wakeup(t) PROVE LiveInv'
  <2>1. pc[t] = "wait" /\ SpuriousWakeups
    BY <1>6 DEF Wakeup, LiveInv
  <2> QED
    BY <2>1 DEF NoWaitInv
<1>7. ASSUME NEW t \in Threads, LockStep(t) PROVE LiveInv'
  BY <1>7, LiveLock
<1>8. ASSUME NEW t \in Threads, Delete(t) \/ Unlink(t) PROVE LiveInv'
  BY <1>8, LiveDelete
<1>9. ASSUME NEW place, NEW name, NEW st, NEW h,
             Moves(CallBackThread, place, name, st, h), visit' \subseteq visit,
             \/ place = "enter" /\ st \in {"get", "iterate"}
             \/ place = "destroy"
             \/ place = "exit" /\ st = "iterate",
             UNCHANGED <<signalled, work, iteratorMutex, pendingDestroyQueue, alive>>
      PROVE  LiveInv'
  <2>1. ~Touches(CallBackThread)'
    BY <1>9 DEF Moves, Touches, Holds
  <2> QED
    BY <1>9, <1>g, <2>1, LiveKept DEF Deleting
<1>10. CASE ReceiveReport \/ WalkDone
  <2>1. UNCHANGED <<signalled, work, iteratorMutex, pendingDestroyQueue, alive, visit>>
    BY <1>10 DEF ReceiveReport, WalkDone, listVars
  <2> QED
    BY <1>9, <1>10, <2>1, OutsideMoves
<1>11. ASSUME NEW s, NEW h, CallBackUses(s, h) \/ CallBackDestroys(s, h) PROVE LiveInv'
  <2>1. UNCHANGED <<signalled, work, iteratorMutex, pendingDestroyQueue, alive>>
        /\ visit' \subseteq visit
    BY <1>11 DEF CallBackUses, CallBackDestroys, listVars
  <2> QED
    BY <1>9, <1>11, <2>1, OutsideMoves
<1>12. CASE DestroyCallback
  <2>1. FALSE
    BY <1>12 DEF DestroyCallback, LinkInv
  <2> QED
    BY <2>1
<1>13. CASE \/ \E s \in Handles : CallBack(s)
            \/ DaemonReports \/ DaemonRestarts \/ UNCHANGED vars
  <2>1. UNCHANGED <<signalled, work, iteratorMutex, pendingDestroyQueue, alive,
                    pc, op, stage, cur>> /\ visit' \subseteq visit
    BY <1>13 DEF CallBack, DaemonReports, DaemonRestarts, vars, threadVars, listVars
  <2>2. \A u \in Threads : WorkLives(u)' /\ (Touches(u)' => Touches(u))
    BY <2>1 DEF LiveInv, WorkLives, Distinct, Elements, Touches, Holds
  <2> QED
    BY <2>1, <2>2 DEF LiveInv, MutexFree, Elements
<1>14. CASE DaemonStops
  BY <1>14, <1>c DEF DaemonStops
<1> QED
  BY <1>1, <1>2, <1>3, <1>4, <1>5, <1>6, <1>7, <1>8, <1>10, <1>11, <1>12, <1>13, <1>14
  DEF Next, ClientCall, RunStep, CallBackStep

\* Initially the application is in no call.
LEMMA PoliteInit == Init => GivenInv /\ PoliteInv /\ WorkInv /\ NoWaitInv
<1> SUFFICES ASSUME Init PROVE GivenInv /\ PoliteInv /\ WorkInv /\ NoWaitInv
  OBVIOUS
<1>1. \A t \in Threads :
          /\ pc[t] \in {"none", "idle"} /\ op[t] = "none" /\ stage[t] = "none"
          /\ work[t] = <<>>
  BY DEF Init
<1> QED
  BY <1>1 DEF GivenInv, PoliteInv, WorkInv, NoWaitInv, Using, Holds

\* Everything together.
QuietSessionInv ==
    /\ SessionInv /\ LinkInv /\ QuietInv
    /\ GivenInv /\ PoliteInv /\ WorkInv /\ NoWaitInv

\* It holds in every reachable state, unless a spurious wakeup meets a destructor
\* that waits.
LEMMA QuietInvariant ==
  ASSUME ~SpuriousWakeups \/ ~RacingDestroy
  PROVE  Spec => []QuietSessionInv
<1>1. Init => QuietSessionInv
  BY SessionInit, PoliteInit DEF QuietSessionInv
<1>2. QuietSessionInv /\ [Next]_vars => QuietSessionInv'
  BY SessionStep, LinkStep, QuietStep, GivenStep, PoliteStep, WorkStep, NoWaitStep
  DEF QuietSessionInv
<1> QED
  BY <1>1, <1>2, PTL DEF Spec

\* Until the daemon goes away, no thread touches a session object that was freed,
\* for any number of threads, sessions and reports.  An application that destroys
\* sessions other threads are using needs that pthread_cond_wait returns only when
\* signalled, because ~HdcpSession tests its references once, not in a loop; for
\* one that does not, the destructor never waits and spurious wakeups do not matter.
THEOREM NoUseAfterFreeCorrect ==
  ASSUME ~SpuriousWakeups \/ ~RacingDestroy
  PROVE  Spec => []NoUseAfterFree
<1>1. SessionInv /\ LinkInv /\ QuietInv => NoUseAfterFree
  <2> SUFFICES ASSUME SessionInv, LinkInv, QuietInv, stops = 0
               PROVE  NoUseAfterFree
    BY DEF NoUseAfterFree
  <2>1. LiveInv /\ TypeOK /\ PlaceInv /\ MutexInv
    BY DEF QuietInv, SessionInv
  <2>2. \A t \in Threads : pc[t] = "find" => sessionList \subseteq alive
    BY InsideSafe DEF Walking
  <2>3. \A t \in Threads : pc[t] \in {"grab", "use", "drop"} => cur[t] \in alive
    BY <2>1 DEF LiveInv, Touches, Holds, PlaceInv, PlaceOf
  <2>4. ASSUME NEW t \in Threads, pc[t] \in {"delete", "wait"}
        PROVE  Head(work[t]) \in alive
    <3>1. work[t] \in Seq(Handles) /\ work[t] # <<>>
      BY <2>1, <2>4 DEF TypeOK, MutexInv, Deleting
    <3>2. Head(work[t]) = work[t][1] /\ 1 \in DOMAIN work[t]
      BY <3>1
    <3>3. Elements(work[t]) \subseteq alive
      BY <2>1, <2>4 DEF LiveInv, WorkLives
    <3> QED
      BY <3>2, <3>3 DEF Elements
  <2>5. visit \subseteq alive
    BY <2>1 DEF LiveInv
  <2> QED
    BY <2>2, <2>3, <2>4, <2>5 DEF NoUseAfterFree
<1>2. QuietSessionInv => NoUseAfterFree
  BY <1>1 DEF QuietSessionInv
<1> QED
  BY <1>2, QuietInvariant, PTL

\* If the application does not destroy sessions that it is using, then until the
\* daemon goes away no destructor waits for a reference with m_IteratorMutex held:
\* the hang of DestructorProceeds needs one of the two.
THEOREM DestructorsCorrect ==
  ASSUME ~RacingDestroy
  PROVE  Spec => [](stops = 0 => \A t \in Threads : pc[t] # "wait")
<1>1. QuietSessionInv => (stops = 0 => \A t \in Threads : pc[t] # "wait")
  BY DEF QuietSessionInv, NoWaitInv
<1> QED
  BY <1>1, QuietInvariant, PTL

=============================================================================

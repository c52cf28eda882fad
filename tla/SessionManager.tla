--------------------------- MODULE SessionManager ---------------------------
(***************************************************************************)
(* The session manager of the SDK (sdk/sessionmanager.cpp, session.cpp and *)
(* the entry points of hdcpapi.cpp), linked into an application.           *)
(*                                                                         *)
(* Threads of the application call HDCPCreate, HDCPDestroy and the calls   *)
(* that use a session (all of the same shape: GetInstance, one transaction *)
(* with the daemon, PutInstance).  The SDK's own callback thread walks the *)
(* session list for every report of the daemon and calls the application   *)
(* back, which may call the SDK again from that thread.                    *)
(*                                                                         *)
(* The list is walked without a lock.  m_IteratorReference counts the      *)
(* walkers; removal waits in m_PendingDestroyQueue until it is zero; a     *)
(* session counts its users and its destructor waits for them.  A step is  *)
(* a stretch between two lock operations or two reads of shared state.     *)
(***************************************************************************)
EXTENDS Naturals, Sequences, FiniteSets

CONSTANTS
    Clients,            \* threads of the application
    CallBackThread,     \* m_SocketThread, the thread that runs CallBackManager
    NoThread,           \* the owner of a mutex nobody holds
    MaxSessions,        \* bound: handles given out
    MaxReports,         \* bound: REPORTSTATUS messages the daemon sends
    MaxStops,           \* bound: times the daemon stops (and is restarted)
    RacingDestroy,      \* may the application destroy a session it is using?
    SpuriousWakeups     \* may pthread_cond_wait return without a signal?

ASSUME ThreadsAssumption ==
    /\ IsFiniteSet(Clients)
    /\ CallBackThread \notin Clients
    /\ NoThread \notin Clients \cup {CallBackThread}
ASSUME SessionBoundsAssumption ==
    /\ MaxSessions \in Nat
    /\ MaxReports \in Nat
    /\ MaxStops \in Nat
ASSUME ClientFreedomAssumption ==
    {RacingDestroy, SpuriousWakeups} \subseteq BOOLEAN

Threads == Clients \cup {CallBackThread}

\* m_HandleIncrementor starts at 1; 0 stands for "no session".
Handles == 1 .. MaxSessions
NoHandle == 0

VARIABLES
    handleIncrementor,  \* m_HandleIncrementor
    callBackInitialized, \* m_IsCallBackInitialized
    sessionList,        \* m_SessionList: the handles linked into the list
    alive,              \* sessions whose object is allocated
    activeReferences,   \* HdcpSession::m_ActiveReferences, per session
    pendingDestroyQueue, \* m_PendingDestroyQueue
    iteratorReference,  \* m_IteratorReference
    iteratorMutex,      \* the thread that holds m_IteratorMutex across steps
    pc,                 \* per thread: where it is
    op,                 \* per thread: the API call it is in
    stage,              \* per thread: the manager call it is in
    cur,                \* per thread: the session of that call
    work,               \* per thread: sessions it is to delete, mutex held
    signalled,          \* threads in ~HdcpSession that m_ReferenceCV released
    visit,              \* sessions the callback thread has still to call
    given,              \* handles HDCPCreate returned to the application
    open,               \* those the application has not destroyed
    daemonUp,           \* environment: the daemon listens
    callBackLink,       \* environment: the callback socket is connected
    reports,            \* environment: reports sent and not received
    sent,               \* environment: number of reports sent
    stops               \* environment: number of daemon stops

listVars == <<sessionList, alive, pendingDestroyQueue>>
threadVars == <<pc, op, stage, cur, work, signalled, visit>>
clientVars == <<given, open>>
envVars == <<daemonUp, callBackLink, reports, sent, stops>>
createVars == <<handleIncrementor, callBackInitialized>>
vars == <<createVars, listVars, activeReferences, iteratorReference,
          iteratorMutex, threadVars, clientVars, envVars>>

PCs == {"none", "idle", "init", "insert", "enter", "find", "check", "grab",
        "drop", "exit", "use", "destroy", "delete", "wait", "unlink", "walk",
        "gone"}
Ops == {"none", "create", "created", "failed", "use", "destroy"}
Stages == {"none", "get", "miss", "put", "destroy", "iterate", "teardown"}

Init ==
    /\ handleIncrementor = 1
    /\ callBackInitialized = FALSE
    /\ sessionList = {}
    /\ alive = {}
    /\ activeReferences = [s \in Handles |-> 0]
    /\ pendingDestroyQueue = <<>>
    /\ iteratorReference = 0
    /\ iteratorMutex = NoThread
    /\ pc = [t \in Threads |-> IF t = CallBackThread THEN "none" ELSE "idle"]
    /\ op = [t \in Threads |-> "none"]
    /\ stage = [t \in Threads |-> "none"]
    /\ cur = [t \in Threads |-> NoHandle]
    /\ work = [t \in Threads |-> <<>>]
    /\ signalled = {}
    /\ visit = {}
    /\ given = {}
    /\ open = {}
    /\ daemonUp = TRUE
    /\ callBackLink = FALSE
    /\ reports = 0
    /\ sent = 0
    /\ stops = 0

Goto(t, place) == pc' = [pc EXCEPT ![t] = place]

\* The thread can run a short section that locks m_IteratorMutex.
MutexFree == iteratorMutex = NoThread

\* An API call ends: the application's thread goes on, the callback thread is
\* back in the loop over the sessions.
Return(t) ==
    /\ Goto(t, IF t = CallBackThread THEN "walk" ELSE "idle")
    /\ op' = [op EXCEPT ![t] = "none"]
    /\ stage' = [stage EXCEPT ![t] = "none"]
    /\ cur' = [cur EXCEPT ![t] = NoHandle]

-----------------------------------------------------------------------------
(***************************************************************************)
(* The application.                                                        *)
(***************************************************************************)

InCall(s, ops) == \E t \in Threads : cur[t] = s /\ op[t] \in ops

\* A thread may call the SDK when it is in no call; the callback thread when
\* it runs the application's callback of a session.
Calls(t, s, name, place, st) ==
    /\ Goto(t, place)
    /\ op' = [op EXCEPT ![t] = name]
    /\ stage' = [stage EXCEPT ![t] = st]
    /\ cur' = [cur EXCEPT ![t] = s]

\* HDCPCreate up to GetUniqueHandle, which is one section of
\* m_HandleIncrementorMutex.
HDCPCreate(t) ==
    /\ t \in Clients /\ pc[t] = "idle"
    /\ handleIncrementor \in Handles
    /\ handleIncrementor' = handleIncrementor + 1
    /\ Calls(t, handleIncrementor, "create", "init", "none")
    /\ UNCHANGED <<callBackInitialized, listVars, activeReferences,
                   iteratorReference, iteratorMutex, work, signalled, visit, clientVars,
                   envVars>>

\* The handle may be stale, or the 0 an application initialised it with.
UseAllowed(s) ==
    /\ s \in given \cup {NoHandle}
    /\ RacingDestroy \/ ~InCall(s, {"destroy"})

\* The application destroys a session once.
DestroyAllowed(s) ==
    /\ s \in open
    /\ RacingDestroy \/ ~InCall(s, {"use", "destroy"})

\* Any call that uses a session.
HDCPUse(t, s) ==
    /\ t \in Clients /\ pc[t] = "idle"
    /\ UseAllowed(s)
    /\ Calls(t, s, "use", "enter", "get")
    /\ UNCHANGED <<createVars, listVars, activeReferences, iteratorReference,
                   iteratorMutex, work, signalled, visit, clientVars, envVars>>

HDCPDestroy(t, s) ==
    /\ t \in Clients /\ pc[t] = "idle"
    /\ DestroyAllowed(s)
    /\ open' = open \ {s}
    /\ Calls(t, s, "destroy", "destroy", "destroy")
    /\ UNCHANGED <<createVars, listVars, activeReferences, iteratorReference,
                   iteratorMutex, work, signalled, visit, given, envVars>>

-----------------------------------------------------------------------------
(***************************************************************************)
(* CreateSession.                                                          *)
(***************************************************************************)

\* InitCallBack connects, but pthread_create fails; what it then returns is
\* errno, which pthread_create does not set and which may be 0.
ThreadNotCreated == ~callBackInitialized /\ daemonUp

\* InitCallBack, under m_HandleIncrementorMutex, returns SUCCESS and changes
\* nothing: it was done before (the flag is never reset, not even by
\* DestroyCallback), or it has no thread to show for it and CreateSession goes
\* on without one.
InitCallBackDone(t) ==
    /\ pc[t] = "init" /\ (callBackInitialized \/ ThreadNotCreated)
    /\ Goto(t, "insert")
    /\ UNCHANGED <<createVars, listVars, activeReferences, iteratorReference,
                   iteratorMutex, op, stage, cur, work, signalled, visit, clientVars,
                   envVars>>

InitCallBackOk(t) ==
    /\ pc[t] = "init" /\ ~callBackInitialized /\ daemonUp
    /\ callBackInitialized' = TRUE
    /\ callBackLink' = TRUE
    /\ pc' = [pc EXCEPT ![t] = "insert", ![CallBackThread] = "idle"]
    /\ UNCHANGED <<handleIncrementor, listVars, activeReferences,
                   iteratorReference, iteratorMutex, op, stage, cur, work,
                   signalled, visit, clientVars, daemonUp, reports, sent, stops>>

\* Connect, SendMessage or pthread_create fails: BAD_SESSION_HANDLE.
InitCallBackError(t) ==
    /\ pc[t] = "init" /\ ~callBackInitialized
    /\ Return(t)
    /\ UNCHANGED <<createVars, listVars, activeReferences, iteratorReference,
                   iteratorMutex, work, signalled, visit, clientVars, envVars>>

\* The session cannot be allocated, or its mutexes cannot be initialised.
CreateSessionError(t) ==
    /\ pc[t] = "insert"
    /\ Return(t)
    /\ UNCHANGED <<createVars, listVars, activeReferences, iteratorReference,
                   iteratorMutex, work, signalled, visit, clientVars, envVars>>

\* push_front under m_IteratorMutex; HDCPCreate goes on with GetInstance.
Insert(t) ==
    /\ pc[t] = "insert" /\ MutexFree
    /\ sessionList' = sessionList \cup {cur[t]}
    /\ alive' = alive \cup {cur[t]}
    /\ Goto(t, "enter")
    /\ stage' = [stage EXCEPT ![t] = "get"]
    /\ UNCHANGED <<createVars, pendingDestroyQueue, activeReferences,
                   iteratorReference, iteratorMutex, op, cur, work, signalled,
                   visit, clientVars, envVars>>

-----------------------------------------------------------------------------
(***************************************************************************)
(* GetInstance, PutInstance and the loop of the callback thread: enter the *)
(* iterator section, walk the list, leave the section.                     *)
(***************************************************************************)

IteratorCriticalSectionEnter(t) ==
    /\ pc[t] = "enter" /\ MutexFree
    /\ iteratorReference' = iteratorReference + 1
    /\ IF stage[t] = "iterate"
       THEN Goto(t, "walk") /\ visit' = sessionList
       ELSE Goto(t, "find") /\ UNCHANGED visit
    /\ UNCHANGED <<createVars, listVars, activeReferences, iteratorMutex, op,
                   stage, cur, work, signalled, clientVars, envVars>>

\* The walk of GetInstance and of PutInstance, without a lock.
Find(t) ==
    /\ pc[t] = "find"
    /\ \/ /\ cur[t] \in sessionList
          /\ Goto(t, IF stage[t] = "get" THEN "check" ELSE "drop")
          /\ UNCHANGED stage
       \/ /\ cur[t] \notin sessionList
          /\ Goto(t, "exit")
          /\ stage' = [stage EXCEPT ![t] = IF @ = "get" THEN "miss" ELSE @]
    /\ UNCHANGED <<createVars, listVars, activeReferences, iteratorReference,
                   iteratorMutex, op, cur, work, signalled, visit, clientVars, envVars>>

Queued(s) == \E i \in DOMAIN pendingDestroyQueue : pendingDestroyQueue[i] = s

\* GetInstance looks for the session in the destroy queue, without a lock.
CheckPending(t) ==
    /\ pc[t] = "check"
    /\ \/ /\ Queued(cur[t])
          /\ Goto(t, "exit")
          /\ stage' = [stage EXCEPT ![t] = "miss"]
       \/ /\ ~Queued(cur[t])
          /\ Goto(t, "grab")
          /\ UNCHANGED stage
    /\ UNCHANGED <<createVars, listVars, activeReferences, iteratorReference,
                   iteratorMutex, op, cur, work, signalled, visit, clientVars, envVars>>

\* Mutant: the creating call takes no reference.
IncreaseExceptOnCreate(t) ==
    /\ pc[t] = "grab"
    /\ activeReferences' = [activeReferences EXCEPT
            ![cur[t]] = IF op[t] = "create" THEN @ ELSE @ + 1]
    /\ Goto(t, "exit")
    /\ UNCHANGED <<createVars, listVars, iteratorReference, iteratorMutex, op,
                   stage, cur, work, signalled, visit, clientVars, envVars>>

IncreaseReference(t) ==
    /\ pc[t] = "grab"
    /\ activeReferences' = [activeReferences EXCEPT ![cur[t]] = @ + 1]
    /\ Goto(t, "exit")
    /\ UNCHANGED <<createVars, listVars, iteratorReference, iteratorMutex, op,
                   stage, cur, work, signalled, visit, clientVars, envVars>>

\* The threads that wait in the destructor of a session.  The signal of
\* DecreaseReference is lost when there is none.
Waiting(s) == {t \in Threads : pc[t] = "wait" /\ Head(work[t]) = s}

DecreaseReference(t) ==
    /\ pc[t] = "drop"
    /\ activeReferences' = [activeReferences EXCEPT ![cur[t]] = @ - 1]
    /\ signalled' = IF activeReferences[cur[t]] = 1
                    THEN signalled \cup Waiting(cur[t])
                    ELSE signalled
    /\ Goto(t, "exit")
    /\ UNCHANGED <<createVars, listVars, iteratorReference, iteratorMutex, op,
                   stage, cur, work, visit, clientVars, envVars>>

\* What follows an iterator section, with the mutex released: GetInstance hands
\* the session out or returns null; PutInstance ends the API call, or lets
\* HDCPCreate destroy the session it failed to connect; the callback thread
\* goes back to the socket.
AfterExit(t) ==
    CASE stage[t] = "get" ->
            /\ Goto(t, "use")
            /\ UNCHANGED <<op, stage, cur, given, open>>
      [] stage[t] = "miss" -> Return(t) /\ UNCHANGED <<given, open>>
      [] stage[t] = "put" /\ op[t] = "failed" ->
            /\ Goto(t, "destroy")
            /\ stage' = [stage EXCEPT ![t] = "destroy"]
            /\ UNCHANGED <<op, cur, given, open>>
      [] stage[t] = "put" /\ op[t] = "created" ->
            /\ Return(t)
            /\ given' = given \cup {cur[t]}
            /\ open' = open \cup {cur[t]}
      [] stage[t] = "put" /\ op[t] = "use" ->
            Return(t) /\ UNCHANGED <<given, open>>
      [] stage[t] = "iterate" ->
            /\ Goto(t, "idle")
            /\ stage' = [stage EXCEPT ![t] = "none"]
            /\ UNCHANGED <<op, cur, given, open>>

\* Mutant: the counter is tested before it is decremented.
ExitTestsTooEarly == iteratorReference = 0 /\ pendingDestroyQueue # <<>>

\* The last walker deletes what was queued, with the mutex held.
ExitMustDelete == iteratorReference = 1 /\ pendingDestroyQueue # <<>>

IteratorCriticalSectionExit(t) ==
    /\ pc[t] = "exit" /\ MutexFree
    /\ iteratorReference' = iteratorReference - 1
    /\ \/ /\ ExitMustDelete
          /\ iteratorMutex' = t
          /\ work' = [work EXCEPT ![t] = pendingDestroyQueue]
          /\ Goto(t, "delete")
          /\ UNCHANGED <<op, stage, cur, given, open>>
       \/ /\ ~ExitMustDelete
          /\ AfterExit(t)
          /\ UNCHANGED <<iteratorMutex, work>>
    /\ UNCHANGED <<createVars, listVars, activeReferences, signalled, visit,
                   envVars>>

\* Mutant: HDCPCreate destroys the session before it puts its reference back.
TransactDestroysFirst(t) ==
    /\ pc[t] = "use"
    /\ \/ op[t] = "use" /\ UNCHANGED op
       \/ op[t] = "create" /\ daemonUp /\ op' = [op EXCEPT ![t] = "created"]
       \/ op[t] = "create" /\ op' = [op EXCEPT ![t] = "failed"]
    /\ Goto(t, IF op'[t] = "failed" THEN "destroy" ELSE "enter")
    /\ stage' = [stage EXCEPT ![t] =
            IF op'[t] = "failed" THEN "destroy" ELSE "put"]
    /\ UNCHANGED <<createVars, listVars, activeReferences, iteratorReference,
                   iteratorMutex, cur, work, signalled, visit, clientVars,
                   envVars>>

\* Mutant: HDCPCreate tries until the daemon answers.
TransactRetries(t) ==
    /\ pc[t] = "use"
    /\ \/ op[t] = "use" /\ stage' = [stage EXCEPT ![t] = "put"] /\ UNCHANGED op
       \/ /\ op[t] = "create" /\ daemonUp
          /\ op' = [op EXCEPT ![t] = "created"]
          /\ stage' = [stage EXCEPT ![t] = "put"]
       \/ op[t] = "create" /\ UNCHANGED <<op, stage>>
    /\ Goto(t, "enter")
    /\ activeReferences' = [activeReferences EXCEPT ![cur[t]] =
            IF stage'[t] = "put" THEN @ ELSE @ - 1]
    /\ UNCHANGED <<createVars, listVars, iteratorReference, iteratorMutex, cur,
                   work, signalled, visit, clientVars, envVars>>

\* The transaction with the daemon, under the session's own m_SocketMutex.  Any
\* outcome may come back; only HDCPCreate acts on it.
Transact(t) ==
    /\ pc[t] = "use"
    /\ \/ op[t] = "create" /\ daemonUp /\ op' = [op EXCEPT ![t] = "created"]
       \/ op[t] = "create" /\ op' = [op EXCEPT ![t] = "failed"]
       \/ op[t] = "use" /\ UNCHANGED op
    /\ Goto(t, "enter")
    /\ stage' = [stage EXCEPT ![t] = "put"]
    /\ UNCHANGED <<createVars, listVars, activeReferences, iteratorReference,
                   iteratorMutex, cur, work, signalled, visit, clientVars, envVars>>

-----------------------------------------------------------------------------
(***************************************************************************)
(* DestroySession, and the deletion of sessions with the mutex held.       *)
(***************************************************************************)

\* The lookup of DestroySession, with the mutex held.  It does not ask whether
\* the session is queued already.
Destroyable(s) == s \in sessionList

\* Mutant: DestroySession deletes whoever is iterating.
AlwaysSafeToDelete == TRUE

\* "It is safe to manipulate the list memory, so free it now."
SafeToDelete == iteratorReference = 0

DestroySession(t) ==
    /\ pc[t] = "destroy" /\ MutexFree
    /\ \/ /\ ~Destroyable(cur[t])
          /\ Return(t)
          /\ UNCHANGED <<pendingDestroyQueue, iteratorMutex, work>>
       \/ /\ Destroyable(cur[t]) /\ ~SafeToDelete
          /\ pendingDestroyQueue' = Append(pendingDestroyQueue, cur[t])
          /\ Return(t)
          /\ UNCHANGED <<iteratorMutex, work>>
       \/ /\ Destroyable(cur[t]) /\ SafeToDelete
          /\ iteratorMutex' = t
          /\ work' = [work EXCEPT ![t] = <<cur[t]>>]
          /\ Goto(t, "delete")
          /\ UNCHANGED <<pendingDestroyQueue, op, stage, cur>>
    /\ UNCHANGED <<createVars, sessionList, alive, activeReferences,
                   iteratorReference, signalled, visit, clientVars, envVars>>

\* Mutant: the destructor does not look at the references.
NeverWaits(s) == FALSE

\* ~HdcpSession: a session in use makes the destructor wait once, and only a
\* signal (or a spurious wakeup) lets it go on.
MustWait(s) == activeReferences[s] > 0

Delete(t) ==
    /\ pc[t] = "delete"
    /\ LET s == Head(work[t])
       IN \/ /\ MustWait(s)
             /\ Goto(t, "wait")
             /\ UNCHANGED alive
          \/ /\ ~MustWait(s)
             /\ alive' = alive \ {s}
             /\ Goto(t, "unlink")
    /\ UNCHANGED <<createVars, sessionList, pendingDestroyQueue,
                   activeReferences, iteratorReference, iteratorMutex, op,
                   stage, cur, work, signalled, visit, clientVars, envVars>>

Wakeup(t) ==
    /\ pc[t] = "wait"
    /\ t \in signalled \/ SpuriousWakeups
    /\ signalled' = signalled \ {t}
    /\ alive' = alive \ {Head(work[t])}
    /\ Goto(t, "unlink")
    /\ UNCHANGED <<createVars, sessionList, pendingDestroyQueue,
                   activeReferences, iteratorReference, iteratorMutex, op,
                   stage, cur, work, visit, clientVars, envVars>>

\* The queue after the loop of IteratorCriticalSectionExit; DestroySession and
\* DestroyCallback leave it alone.
QueueAfter(t) ==
    IF stage[t] \in {"destroy", "teardown"} THEN pendingDestroyQueue ELSE <<>>

\* The freed session leaves the list; after the last one the mutex is released
\* and the call goes on.  DestroyCallback ends the callback thread.
Unlink(t) ==
    /\ pc[t] = "unlink"
    /\ sessionList' = sessionList \ {Head(work[t])}
    /\ work' = [work EXCEPT ![t] = Tail(@)]
    /\ \/ /\ Tail(work[t]) # <<>>
          /\ Goto(t, "delete")
          /\ UNCHANGED <<pendingDestroyQueue, iteratorMutex, op, stage, cur,
                         given, open>>
       \/ /\ Tail(work[t]) = <<>>
          /\ iteratorMutex' = NoThread
          /\ pendingDestroyQueue' = QueueAfter(t)
          /\ CASE stage[t] = "teardown" ->
                    /\ Goto(t, "gone")
                    /\ UNCHANGED <<op, stage, cur, given, open>>
               [] stage[t] = "destroy" ->
                    Return(t) /\ UNCHANGED <<given, open>>
               [] OTHER -> AfterExit(t)
    /\ UNCHANGED <<createVars, alive, activeReferences, iteratorReference,
                   signalled, visit, envVars>>

-----------------------------------------------------------------------------
(***************************************************************************)
(* CallBackManager, the callback thread.                                   *)
(***************************************************************************)

\* GetMessage returns a REPORTSTATUS message.
ReceiveReport ==
    /\ pc[CallBackThread] = "idle" /\ callBackLink /\ reports > 0
    /\ reports' = reports - 1
    /\ Goto(CallBackThread, "enter")
    /\ stage' = [stage EXCEPT ![CallBackThread] = "iterate"]
    /\ UNCHANGED <<createVars, listVars, activeReferences, iteratorReference,
                   iteratorMutex, op, cur, work, signalled, visit, clientVars,
                   daemonUp, callBackLink, sent, stops>>

\* The callback of one session returns without calling the SDK (or is null).
CallBack(s) ==
    /\ pc[CallBackThread] = "walk" /\ s \in visit
    /\ visit' = visit \ {s}
    /\ UNCHANGED <<createVars, listVars, activeReferences, iteratorReference,
                   iteratorMutex, pc, op, stage, cur, work, signalled,
                   clientVars, envVars>>

\* The callback of session s calls the SDK for session h, which may be s.
CallBackUses(s, h) ==
    /\ pc[CallBackThread] = "walk" /\ s \in visit
    /\ UseAllowed(h)
    /\ visit' = visit \ {s}
    /\ Calls(CallBackThread, h, "use", "enter", "get")
    /\ UNCHANGED <<createVars, listVars, activeReferences, iteratorReference,
                   iteratorMutex, work, signalled, clientVars, envVars>>

CallBackDestroys(s, h) ==
    /\ pc[CallBackThread] = "walk" /\ s \in visit
    /\ DestroyAllowed(h)
    /\ visit' = visit \ {s}
    /\ open' = open \ {h}
    /\ Calls(CallBackThread, h, "destroy", "destroy", "destroy")
    /\ UNCHANGED <<createVars, listVars, activeReferences, iteratorReference,
                   iteratorMutex, work, signalled, given, envVars>>

\* Mutant: the loop starts again at its end.
WalkRestarts ==
    /\ pc[CallBackThread] = "walk" /\ visit = {}
    /\ visit' = sessionList
    /\ UNCHANGED <<createVars, listVars, activeReferences, iteratorReference,
                   iteratorMutex, pc, op, stage, cur, work, signalled,
                   clientVars, envVars>>

WalkDone ==
    /\ pc[CallBackThread] = "walk" /\ visit = {}
    /\ Goto(CallBackThread, "exit")
    /\ stage' = [stage EXCEPT ![CallBackThread] = "iterate"]
    /\ UNCHANGED <<createVars, listVars, activeReferences, iteratorReference,
                   iteratorMutex, op, cur, work, signalled, visit, clientVars,
                   envVars>>

\* GetMessage returns ENOTCONN: DestroyCallback deletes every session, with the
\* mutex held and whatever m_IteratorReference is, and the thread ends.
DestroyCallback ==
    /\ pc[CallBackThread] = "idle" /\ ~callBackLink /\ MutexFree
    /\ stage' = [stage EXCEPT ![CallBackThread] = "teardown"]
    /\ \/ /\ sessionList = {}
          /\ Goto(CallBackThread, "gone")
          /\ UNCHANGED <<iteratorMutex, work>>
       \/ /\ sessionList # {}
          /\ iteratorMutex' = CallBackThread
          /\ \E order \in [1 .. Cardinality(sessionList) -> sessionList] :
                /\ \A s \in sessionList : \E i \in DOMAIN order : order[i] = s
                /\ work' = [work EXCEPT ![CallBackThread] = order]
          /\ Goto(CallBackThread, "delete")
    /\ UNCHANGED <<createVars, listVars, activeReferences, iteratorReference,
                   op, cur, signalled, visit, clientVars, envVars>>

-----------------------------------------------------------------------------
(***************************************************************************)
(* The daemon, as the SDK sees it (external).                              *)
(***************************************************************************)

DaemonReports ==
    /\ callBackLink /\ sent < MaxReports
    /\ sent' = sent + 1
    /\ reports' = reports + 1
    /\ UNCHANGED <<createVars, listVars, activeReferences, iteratorReference,
                   iteratorMutex, threadVars, clientVars, daemonUp,
                   callBackLink, stops>>

DaemonStops ==
    /\ daemonUp /\ stops < MaxStops
    /\ daemonUp' = FALSE
    /\ callBackLink' = FALSE
    /\ reports' = 0
    /\ stops' = stops + 1
    /\ UNCHANGED <<createVars, listVars, activeReferences, iteratorReference,
                   iteratorMutex, threadVars, clientVars, sent>>

DaemonRestarts ==
    /\ ~daemonUp
    /\ daemonUp' = TRUE
    /\ UNCHANGED <<createVars, listVars, activeReferences, iteratorReference,
                   iteratorMutex, threadVars, clientVars, callBackLink,
                   reports, sent, stops>>

-----------------------------------------------------------------------------
(***************************************************************************)
(* Specification.                                                          *)
(***************************************************************************)

\* Steps that wait for m_IteratorMutex.
LockStep(t) ==
    \/ Insert(t)
    \/ IteratorCriticalSectionEnter(t)
    \/ IteratorCriticalSectionExit(t)
    \/ DestroySession(t)

\* Steps a thread takes by itself once it is in a call.
RunStep(t) ==
    \/ InitCallBackDone(t) \/ InitCallBackOk(t) \/ InitCallBackError(t)
    \/ CreateSessionError(t)
    \/ Find(t) \/ CheckPending(t) \/ IncreaseReference(t)
    \/ DecreaseReference(t) \/ Transact(t)
    \/ Delete(t) \/ Wakeup(t) \/ Unlink(t)

CallBackStep ==
    \/ ReceiveReport
    \/ \E s \in Handles : CallBack(s)
    \/ \E s, h \in Handles : CallBackUses(s, h) \/ CallBackDestroys(s, h)
    \/ WalkDone

ClientCall ==
    \E t \in Clients :
        \/ HDCPCreate(t)
        \/ \E s \in Handles \cup {NoHandle} : HDCPUse(t, s)
        \/ \E s \in Handles : HDCPDestroy(t, s)

Next ==
    \/ ClientCall
    \/ \E t \in Threads : LockStep(t) \/ RunStep(t)
    \/ CallBackStep
    \/ DestroyCallback
    \/ DaemonReports \/ DaemonStops \/ DaemonRestarts

Spec == Init /\ [][Next]_vars

\* Threads that can run do run, and a thread that waits for the mutex while it
\* is released again and again gets it.  The application need not call, and
\* the daemon need not report, stop or restart.
Fairness ==
    /\ \A t \in Threads : WF_vars(RunStep(t)) /\ SF_vars(LockStep(t))
    /\ WF_vars(CallBackStep) /\ SF_vars(DestroyCallback)

FairSpec == Spec /\ Fairness

-----------------------------------------------------------------------------
(***************************************************************************)
(* Properties.                                                             *)
(***************************************************************************)

\* Type invariant: every field of the session manager and of its threads has
\* a value the code can give it.
TypeOK ==
    /\ handleIncrementor \in 1 .. MaxSessions + 1
    /\ callBackInitialized \in BOOLEAN
    /\ sessionList \subseteq Handles
    /\ alive \subseteq Handles
    /\ activeReferences \in [Handles -> Nat]
    /\ pendingDestroyQueue \in Seq(Handles)
    /\ iteratorReference \in Nat
    /\ iteratorMutex \in Threads \cup {NoThread}
    /\ pc \in [Threads -> PCs]
    /\ op \in [Threads -> Ops]
    /\ stage \in [Threads -> Stages]
    /\ cur \in [Threads -> Handles \cup {NoHandle}]
    /\ work \in [Threads -> Seq(Handles)]
    /\ signalled \subseteq Threads
    /\ visit \subseteq Handles
    /\ open \subseteq given /\ given \subseteq Handles
    /\ daemonUp \in BOOLEAN /\ callBackLink \in BOOLEAN
    /\ reports \in 0 .. MaxReports /\ sent \in 0 .. MaxReports
    /\ stops \in 0 .. MaxStops

\* No thread touches a session object that was freed: not a lookup that walks
\* the list, not a user between GetInstance and PutInstance, not the callback
\* loop, and no destructor runs a second time.  It holds until the daemon goes
\* away and DestroyCallback deletes the sessions under those that iterate.
NoUseAfterFree ==
    stops = 0 =>
        /\ \A t \in Threads :
            /\ pc[t] = "find" => sessionList \subseteq alive
            /\ pc[t] \in {"grab", "use", "drop"} => cur[t] \in alive
            /\ pc[t] \in {"delete", "wait"} => Head(work[t]) \in alive
        /\ visit \subseteq alive

\* The thread holds a reference that IncreaseReference counted.
Holds(t, s) ==
    /\ cur[t] = s
    /\ \/ pc[t] \in {"exit", "delete", "wait", "unlink"} /\ stage[t] = "get"
       \/ pc[t] = "use"
       \/ pc[t] \in {"enter", "find", "drop"} /\ stage[t] = "put"

\* m_ActiveReferences of a session is the number of threads between GetInstance
\* and PutInstance, through every interleaving of walks, deletions and failed
\* creations: no reference leaks and none is given back twice.
ReferencesCounted ==
    \A s \in alive :
        activeReferences[s] = Cardinality({t \in Threads : Holds(t, s)})

\* A session that was queued for destruction is never stranded: while the queue
\* is not empty some thread is inside the iterator section or is deleting, and
\* will empty the queue on its way out.
GarbageNotStranded ==
    pendingDestroyQueue # <<>> =>
        \/ iteratorReference > 0
        \/ iteratorMutex # NoThread

\* Until the daemon goes away, a session leaves the list only while no thread
\* iterates over it (sessionmanager.h: removal is queued "until no threads are
\* iterating").  DestroyCallback, which runs when the daemon went away, empties
\* the list without that test.
NoRemovalWhileIterating ==
    [][stops = 0 =>
        \A s \in sessionList \ sessionList' : iteratorReference = 0]_vars

\* Every API call of the application returns.
CallReturns == \A t \in Clients : pc[t] # "idle" ~> pc[t] = "idle"

\* The callback thread finishes every round of callbacks and is ready for the
\* next report, while callbacks and other threads create, use and destroy
\* sessions, of an application that destroys no session some thread of it is
\* using or destroying.  (A callback that destroyed a session in use would wait
\* for that use with m_IteratorMutex held, which PutInstance needs.)
RoundFinishes == stage[CallBackThread] = "iterate" ~> pc[CallBackThread] = "idle"

-----------------------------------------------------------------------------
(***************************************************************************)
(* What comments of the SDK say.                                           *)
(***************************************************************************)

\* session.h: "When the number of active references falls to 0, the destructor
\* get's signalled to proceed": a destructor does not wait for ever.
DestructorProceeds == \A t \in Threads : pc[t] = "wait" ~> pc[t] # "wait"

=============================================================================

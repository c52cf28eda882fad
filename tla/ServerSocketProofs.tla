------------------------- MODULE ServerSocketProofs -------------------------
(***************************************************************************)
(* Proofs about ServerSocket for any set of clients, any size of the       *)
(* session array and any bounds.                                           *)
(***************************************************************************)
EXTENDS ServerSocket, TLAPS, FiniteSetTheorems, FunctionTheorems,
        WellFoundedInduction

\* A client in the backlog was not accepted yet and is there once; a client has
\* a descriptor only when it was accepted.
BacklogInv ==
    /\ \A i \in 1 .. Len(backlog) : conn[backlog[i]] = "queued"
    /\ \A i, j \in 1 .. Len(backlog) : backlog[i] = backlog[j] => i = j
    /\ \A c \in Clients : fdOf[c] # NoFd \/ c \in destroyed => conn[c] = "open"

\* The task of GetTask is there exactly while it is dispatched, and poll's
\* events are about entries that are in use.
TaskInv ==
    /\ pc \in {"dispatch", "respond"} <=> task.command # "none"
    /\ pc \in {"dispatch", "respond"} => task.fd \in Fds
    /\ pc = "respond" => task.command = "request"
    /\ slots[Listener] = NoFd
    /\ \A i \in Slots \ {Listener} : revents[i] => slots[i] # NoFd

InSlot(f) == \E i \in Slots : slots[i] = f

\* f is open, and not because its client sent DESTROY.
Held(f) == \E c \in Clients \ destroyed : fdOf[c] = f

\* DescriptorsAccounted without counting: a descriptor is held if and only if
\* it is in one of the three places, and then in one only and of one client.
PlaceInv ==
    /\ \A c, d \in Clients : fdOf[c] = fdOf[d] /\ fdOf[c] # NoFd => c = d
    /\ \A i, j \in Slots : slots[i] = slots[j] /\ slots[i] # NoFd => i = j
    /\ \A f \in Fds :
        /\ Held(f) <=> InSlot(f) \/ f \in callBackList \/ InTransit(f)
        /\ InSlot(f) => f \notin callBackList /\ ~InTransit(f)
        /\ InTransit(f) => f \notin callBackList

\* A request is being served.
Serving == pc \in {"dispatch", "respond"} /\ task.command = "request"

\* The connection of c is, or is about to become, a callback socket.
IsCallBack(c) ==
    \/ inbox[c] = "create_callback"
    \/ fdOf[c] # NoFd /\ (fdOf[c] \in callBackList \/ InTransit(fdOf[c]))

\* The descriptor a request came from is in the array; a connection that became
\* a callback socket carries no request before or after.
ClientInv ==
    /\ Serving => InSlot(task.fd)
    /\ \A c \in Clients :
        /\ inbox[c] = "request" => c \notin CallBacks
        /\ Serving /\ task.fd = fdOf[c] => c \notin CallBacks
        /\ IsCallBack(c) => c \in CallBacks
        /\ \A f \in Fds : users[f] = c => c \notin CallBacks

ServerInv ==
    /\ TypeOK /\ BacklogInv /\ TaskInv /\ PlaceInv /\ ClientInv
    /\ ReferencesFollowClients

-----------------------------------------------------------------------------
(***************************************************************************)
(* Facts about the operators                                               *)
(***************************************************************************)
\* A set of array entries or of descriptor numbers that is not empty has a
\* first element, so the CHOOSE of accept and of the search for a free entry
\* is an element of the set.
LEMMA FirstOfInSet ==
  ASSUME NEW S \in SUBSET Nat, S # {}
  PROVE  FirstOf(S) \in S
<1>1. PICK x \in S : \A y \in S : ~(<<y, x>> \in OpToRel(<, Nat))
  BY NatLessThanWellFounded, WFMin
<1>2. \A y \in S : <<y, x>> \in OpToRel(<, Nat) <=> y < x
  BY DEF OpToRel
<1>3. \A y \in S : ~(y < x)
  BY <1>1, <1>2, Zenon
<1>4. \A y \in S : x <= y
  BY <1>3
<1> QED
  BY <1>4 DEF FirstOf

\* There are as many descriptor numbers as clients.
LEMMA FdsCount ==
  /\ IsFiniteSet(Fds) /\ Cardinality(Fds) = Cardinality(Clients)
  /\ Cardinality(Clients) \in Nat /\ Fds \subseteq Nat /\ NoFd \notin Fds
<1>1. Cardinality(Clients) \in Nat
  BY ClientsAssumption, FS_CardinalityType
<1> QED
  BY <1>1, FS_Interval DEF Fds, NoFd

\* While some client has no descriptor, there is a free one for it.
LEMMA FreeFd ==
  ASSUME fdOf \in [Clients -> Fds \cup {NoFd}],
         NEW h \in Clients, fdOf[h] = NoFd
  PROVE  FirstOf(Fds \ OpenFds) \in Fds \ OpenFds
<1> DEFINE Others == Clients \ {h}
           g == [c \in Others |-> fdOf[c]]
<1>1. IsFiniteSet(Others) /\ Cardinality(Others) = Cardinality(Clients) - 1
  BY ClientsAssumption, FS_RemoveElement
<1>2. g \in [Others -> Fds \cup {NoFd}]
  OBVIOUS
<1>3. g \in Surjection(Others, Range(g))
  BY <1>2, Fun_RangeProperties
<1>4. IsFiniteSet(Range(g)) /\ Cardinality(Range(g)) <= Cardinality(Others)
  BY <1>1, <1>3, FS_Surjection
<1>5. OpenFds \subseteq Range(g)
  BY DEF OpenFds, Range
<1>6. ASSUME Fds \ OpenFds = {} PROVE FALSE
  <2>1. Fds \subseteq Range(g)
    BY <1>5, <1>6
  <2>2. Cardinality(Fds) <= Cardinality(Range(g))
    BY <2>1, <1>4, FS_Subset
  <2>3. Cardinality(Range(g)) \in Nat
    BY <1>4, FS_CardinalityType
  <2> QED
    BY <2>2, <2>3, <1>1, <1>4, FdsCount
<1> QED
  BY <1>6, FdsCount, FirstOfInSet

\* A free entry was found: it is an entry of the array, not the listener's.
LEMMA FreeEntry ==
  ASSUME EmptySlots # {}
  PROVE  LET i == FirstOf(EmptySlots)
         IN  i \in Slots \ {Listener} /\ slots[i] = NoFd
<1>1. EmptySlots \in SUBSET Nat
  BY SlotCountAssumption DEF EmptySlots, Slots
<1>2. FirstOf(EmptySlots) \in EmptySlots
  BY <1>1, FirstOfInSet
<1> QED
  BY <1>2 DEF EmptySlots

\* The index of the scan wraps inside the array.
LEMMA NextSlotInArray ==
  ASSUME NEW i \in Slots
  PROVE  NextSlot(i) \in Slots
BY SlotCountAssumption DEF NextSlot, Slots

\* The client at the other end of an open descriptor.
LEMMA PeerOf ==
  ASSUME NEW f, \E c \in Clients : fdOf[c] = f
  PROVE  Peer(f) \in Clients /\ fdOf[Peer(f)] = f
BY DEF Peer

-----------------------------------------------------------------------------
(***************************************************************************)
(* What the steps find                                                     *)
(***************************************************************************)
\* An entry for which poll reported an event has a descriptor with a client at
\* the other end, also some steps after poll.
LEMMA ScanFinds ==
  ASSUME ServerInv, revents[index], index # Listener
  PROVE  /\ slots[index] \in Fds /\ Peer(slots[index]) \in Clients
         /\ fdOf[Peer(slots[index])] = slots[index]
         /\ Peer(slots[index]) \notin destroyed
<1>1. index \in Slots /\ slots[index] \in Fds
  BY DEF ServerInv, TypeOK, TaskInv
<1>2. PICK c \in Clients \ destroyed : fdOf[c] = slots[index]
  BY <1>1 DEF ServerInv, PlaceInv, InSlot, Held
<1>3. Peer(slots[index]) \in Clients /\ fdOf[Peer(slots[index])] = slots[index]
  BY <1>2, PeerOf
<1>4. Peer(slots[index]) = c
  BY <1>1, <1>2, <1>3, FdsCount DEF ServerInv, PlaceInv
<1> QED
  BY <1>1, <1>2, <1>3, <1>4

\* The client whose request is being served still has its descriptor.
LEMMA ServingFinds ==
  ASSUME ServerInv, Serving
  PROVE  /\ task.fd \in Fds /\ Peer(task.fd) \in Clients
         /\ fdOf[Peer(task.fd)] = task.fd
<1>1. task.fd \in Fds
  BY DEF ServerInv, TaskInv, Serving
<1>2. \E c \in Clients : fdOf[c] = task.fd
  BY <1>1 DEF ServerInv, ClientInv, PlaceInv, Held
<1> QED
  BY <1>1, <1>2, PeerOf

\* The connection of h, the oldest, gets descriptor f and entry i.
AcceptsAs(f, i, h) ==
    /\ h = Head(backlog) /\ conn[h] = "queued" /\ fdOf[h] = NoFd
    /\ h \notin destroyed
    /\ backlog # <<>> /\ pc = "accept" /\ slots[i] = NoFd
    /\ slots' = [slots EXCEPT ![i] = f]
    /\ revents' = [revents EXCEPT ![i] = FALSE]
    /\ emptyIndex' = i
    /\ fdOf' = [fdOf EXCEPT ![h] = f]
    /\ conn' = [conn EXCEPT ![h] = "open"]
    /\ backlog' = Tail(backlog)

\* accept gives the oldest connection a descriptor that is in none of the three
\* places, and an entry that is free.
LEMMA AcceptFinds ==
  ASSUME ServerInv, AcceptOne
  PROVE  \E f \in Fds \ OpenFds, i \in Slots \ {Listener}, h \in Clients :
            AcceptsAs(f, i, h)
<1>1. /\ Head(backlog) \in Clients /\ conn[Head(backlog)] = "queued"
      /\ backlog # <<>> /\ pc = "accept"
  BY DEF AcceptOne, ServerInv, TypeOK, BacklogInv
<1>2. fdOf[Head(backlog)] = NoFd /\ Head(backlog) \notin destroyed
  BY <1>1 DEF ServerInv, BacklogInv
<1>3. FirstOf(Fds \ OpenFds) \in Fds \ OpenFds
  BY <1>1, <1>2, FreeFd DEF ServerInv, TypeOK
<1>4. /\ FirstOf(EmptySlots) \in Slots \ {Listener}
      /\ slots[FirstOf(EmptySlots)] = NoFd
  BY FreeEntry DEF AcceptOne
<1> QED
  BY <1>1, <1>2, <1>3, <1>4, Zenon DEF AcceptOne, AcceptsAs

-----------------------------------------------------------------------------
(***************************************************************************)
(* Types                                                                   *)
(***************************************************************************)
\* Every step of the main thread, of the reporting threads and of the clients
\* keeps the indices inside the array and every field in its range.
LEMMA TypeStep == ServerInv /\ [Next]_vars => TypeOK'
<1> SUFFICES ASSUME ServerInv, [Next]_vars PROVE TypeOK'
  OBVIOUS
<1>16. ASSUME AcceptOne
       PROVE  \E f \in Fds \ OpenFds, i \in Slots \ {Listener}, h \in Clients :
            AcceptsAs(f, i, h)
  BY <1>16, AcceptFinds, Zenon
<1>17. ASSUME Serving
       PROVE  task.fd \in Fds /\ Peer(task.fd) \in Clients
  BY <1>17, ServingFinds, Zenon
<1> USE SlotCountAssumption, ClientsAssumption, LoadAssumption
    DEF ServerInv, TypeOK, scanVars, daemonVars, portVars, kernelVars, Commands
<1>0. TypeOK /\ 0 \in Slots /\ Listener \in Slots
  BY DEF Slots, Listener
<1>1. ASSUME NEW c \in Clients, Client(c) PROVE TypeOK'
  <2>1. CASE ClientConnects(c)
    <3>1. backlog' \in Seq(Clients)
      BY <2>1 DEF ClientConnects
    <3> QED
      BY <2>1, <3>1 DEF ClientConnects
  <2>2. CASE ClientRequests(c)
    BY <2>2 DEF ClientRequests, Send
  <2>3. CASE ClientCreatesCallBack(c)
    BY <2>3 DEF ClientCreatesCallBack, Send
  <2>5. CASE ClientDestroys(c)
    BY <2>5 DEF ClientDestroys, Send
  <2>4. CASE ClientCloses(c)
    BY <2>4 DEF ClientCloses
  <2> QED
    BY <1>1, <2>1, <2>2, <2>3, <2>4, <2>5 DEF Client
<1>2. CASE PollForEvent
  BY <1>2 DEF PollForEvent, Ready
<1>3. CASE ScanSkip
  BY <1>3, NextSlotInArray DEF ScanSkip
<1>4. CASE ScanEnd \/ ScanListener
  BY <1>4, <1>0 DEF ScanEnd, ScanListener, PassEnds
<1>5. CASE ScanRequest
  BY <1>5, <1>0, ScanFinds
  DEF ScanRequest, PassEnds, FreesEntry, IndexAfterTask
<1>6. CASE ScanHangup
  BY <1>6, <1>0, ScanFinds DEF ScanHangup, PassEnds, IndexAfterTask
<1>7. backlog # <<>> => Head(backlog) \in Clients /\ Tail(backlog) \in Seq(Clients)
  OBVIOUS
<1>8. CASE AcceptOne
  <2>1. PICK f \in Fds \ OpenFds, i \in Slots \ {Listener}, h \in Clients :
            AcceptsAs(f, i, h)
    BY <1>8, <1>16
  <2>2. /\ slots' \in [Slots -> Fds \cup {NoFd}] /\ revents' \in [Slots -> BOOLEAN]
        /\ fdOf' \in [Clients -> Fds \cup {NoFd}]
        /\ conn' \in [Clients -> {"new", "queued", "open", "refused"}]
        /\ backlog' \in Seq(Clients) /\ emptyIndex' \in Slots
    BY <2>1, <1>7 DEF AcceptsAs
  <2> QED
    BY <1>8, <2>2 DEF AcceptOne
<1>9. CASE AcceptRefuse \/ AcceptInterrupted
  <2>1. revents' \in [Slots -> BOOLEAN] /\ index' \in Slots /\ emptyIndex' \in Slots
    BY <1>9, <1>0 DEF AcceptRefuse, AcceptInterrupted, PassEnds
  <2>2. /\ backlog' \in Seq(Clients)
        /\ conn' \in [Clients -> {"new", "queued", "open", "refused"}]
    BY <1>9, <1>7 DEF AcceptRefuse, AcceptInterrupted
  <2> QED
    BY <1>9, <2>1, <2>2 DEF AcceptRefuse, AcceptInterrupted
<1>15. CASE AcceptDone
  BY <1>15, <1>0, NextSlotInArray DEF AcceptDone
<1>10. CASE DispatchRequest
  <2>1. task.fd \in Fds /\ Peer(task.fd) \in Clients
    BY <1>10, <1>17 DEF DispatchRequest, Serving
  <2> QED
    BY <1>10, <2>1 DEF DispatchRequest
<1>18. CASE SendResponse
  <2>1. task.fd \in Fds
    BY <1>18 DEF SendResponse, TaskInv
  <2> QED
    BY <1>18, <2>1 DEF SendResponse, NoTask, HandleAppExit, Released
<1>11. CASE DispatchDestroy
  <2>1. task.fd \in Fds
    BY <1>11 DEF DispatchDestroy, TaskInv
  <2> QED
    BY <1>11, <2>1 DEF DispatchDestroy, NoTask, HandleAppExit, Released
<1>19. CASE SetConnection
  BY <1>19 DEF SetConnection
<1>12. CASE DispatchCreateCallBack
  BY <1>12 DEF DispatchCreateCallBack, NoTask, TaskInv
<1>13. CASE ReportStatus
  BY <1>13 DEF ReportStatus
<1>14. CASE UNCHANGED vars
  BY <1>14 DEF vars
<1> QED
  BY <1>1, <1>2, <1>3, <1>4, <1>5, <1>6, <1>7, <1>8, <1>9, <1>10, <1>11, <1>12,
     <1>13, <1>14, <1>15, <1>18, <1>19
  DEF Next, Main

-----------------------------------------------------------------------------
(***************************************************************************)
(* Backlog, task and events                                                *)
(***************************************************************************)
\* A connection enters the backlog once and leaves it accepted or refused.
LEMMA BacklogStep == ServerInv /\ [Next]_vars => BacklogInv'
<1> SUFFICES ASSUME ServerInv, [Next]_vars PROVE BacklogInv'
  OBVIOUS
<1>16. ASSUME AcceptOne
       PROVE  \E f \in Fds \ OpenFds, i \in Slots \ {Listener}, h \in Clients :
                 AcceptsAs(f, i, h)
  BY <1>16, AcceptFinds
<1>17. ASSUME revents[index], index # Listener
       PROVE  /\ slots[index] \in Fds /\ Peer(slots[index]) \in Clients
              /\ fdOf[Peer(slots[index])] = slots[index]
  BY <1>17, ScanFinds
<1> USE DEF BacklogInv
<1>0. /\ backlog \in Seq(Clients) /\ BacklogInv
      /\ conn \in [Clients -> {"new", "queued", "open", "refused"}]
      /\ fdOf \in [Clients -> Fds \cup {NoFd}]
  BY DEF ServerInv, TypeOK
<1>1. CASE UNCHANGED <<backlog, conn, fdOf, destroyed>>
  BY <1>1, <1>0
<1>2. ASSUME NEW c \in Clients, ClientConnects(c) PROVE BacklogInv'
  <2>1. /\ conn[c] = "new" /\ conn' = [conn EXCEPT ![c] = "queued"]
        /\ backlog' = Append(backlog, c) /\ UNCHANGED <<fdOf, destroyed>>
    BY <1>2 DEF ClientConnects
  <2>2. \A i \in 1 .. Len(backlog) : backlog[i] # c
    BY <2>1, <1>0
  <2>3. /\ Len(backlog') = Len(backlog) + 1 /\ Len(backlog) \in Nat
        /\ backlog'[Len(backlog) + 1] = c
        /\ \A i \in 1 .. Len(backlog) : backlog'[i] = backlog[i] /\ backlog[i] \in Clients
    BY <2>1, <1>0
  <2> QED
    BY <2>1, <2>2, <2>3, <1>0
<1>3. backlog # <<>> =>
          /\ Len(backlog) \in Nat /\ Len(Tail(backlog)) = Len(backlog) - 1
          /\ Head(backlog) = backlog[1] /\ 1 \in 1 .. Len(backlog)
          /\ \A i \in 1 .. Len(Tail(backlog)) :
                /\ i + 1 \in 1 .. Len(backlog) /\ i + 1 # 1
                /\ Tail(backlog)[i] = backlog[i + 1] /\ backlog[i + 1] \in Clients
  BY <1>0
<1>4. CASE AcceptOne
  <2>1. PICK f \in Fds \ OpenFds, i \in Slots \ {Listener}, h \in Clients :
            AcceptsAs(f, i, h)
    BY <1>4, <1>16
  <2>2. destroyed' = destroyed
    BY <1>4 DEF AcceptOne
  <2> QED
    BY <2>1, <2>2, <1>0, <1>3 DEF AcceptsAs
<1>5. CASE AcceptRefuse
  BY <1>5, <1>0, <1>3 DEF AcceptRefuse
<1>6. CASE ScanHangup \/ ReportStatus
  <2>1. /\ UNCHANGED <<backlog, conn, destroyed>>
        /\ \A c \in Clients : fdOf'[c] \in {NoFd, fdOf[c]}
    BY <1>6, <1>0 DEF ScanHangup, ReportStatus
  <2> QED
    BY <2>1, <1>0
<1>7. CASE ScanRequest
  <2>1. /\ UNCHANGED <<backlog, conn, fdOf>>
        /\ \A c \in Clients : c \in destroyed' =>
              c \in destroyed \/ fdOf[c] # NoFd
    BY <1>7, <1>17, <1>0, FdsCount DEF ScanRequest
  <2> QED
    BY <2>1, <1>0
<1> QED
  BY <1>1, <1>2, <1>4, <1>5, <1>6, <1>7
  DEF Next, Main, Client, vars, scanVars, daemonVars, kernelVars, Send,
      ClientRequests, ClientCreatesCallBack, ClientDestroys, ClientCloses,
      PollForEvent, ScanSkip, ScanEnd, ScanListener, AcceptInterrupted,
      AcceptDone, DispatchRequest, DispatchDestroy, DispatchCreateCallBack,
      SendResponse, SetConnection

\* The entry an event was reported for is freed only together with all events,
\* and a new connection takes an entry without an event.
LEMMA TaskStep == ServerInv /\ [Next]_vars => TaskInv'
<1> SUFFICES ASSUME ServerInv, [Next]_vars PROVE TaskInv'
  OBVIOUS
<1>16. ASSUME AcceptOne
       PROVE  \E f \in Fds \ OpenFds, i \in Slots \ {Listener}, h \in Clients :
                 AcceptsAs(f, i, h)
  BY <1>16, AcceptFinds
<1>17. ASSUME revents[index], index # Listener PROVE slots[index] \in Fds
  BY <1>17, ScanFinds
<1>0. /\ TaskInv /\ Listener \in Slots /\ index \in Slots
      /\ slots \in [Slots -> Fds \cup {NoFd}] /\ revents \in [Slots -> BOOLEAN]
      /\ NoFd \notin Fds
  BY FdsCount, SlotCountAssumption DEF ServerInv, TypeOK, Slots, Listener
<1> USE DEF TaskInv, NoTask
<1>1. CASE UNCHANGED <<pc, task, slots, revents>>
  BY <1>1, <1>0
<1>2. CASE PollForEvent
  BY <1>2, <1>0 DEF PollForEvent, Ready
<1>3. CASE ScanEnd \/ ScanListener
  BY <1>3, <1>0 DEF ScanEnd, ScanListener, PassEnds
<1>4. CASE ScanRequest
  <2>1. slots[index] \in Fds /\ inbox[Peer(slots[index])] # "none"
    BY <1>4, <1>17 DEF ScanRequest
  <2> QED
    BY <1>4, <1>0, <2>1 DEF ScanRequest, PassEnds
<1>5. CASE ScanHangup
  <2>1. slots[index] \in Fds
    BY <1>5, <1>17 DEF ScanHangup
  <2> QED
    BY <1>5, <1>0, <2>1 DEF ScanHangup, PassEnds
<1>6. CASE AcceptOne
  <2>1. PICK f \in Fds \ OpenFds, i \in Slots \ {Listener}, h \in Clients :
            AcceptsAs(f, i, h)
    BY <1>6, <1>16
  <2> QED
    BY <2>1, <1>6, <1>0 DEF AcceptsAs, AcceptOne
<1>7. CASE AcceptRefuse \/ AcceptInterrupted
  BY <1>7, <1>0 DEF AcceptRefuse, AcceptInterrupted, PassEnds
<1>8. CASE AcceptDone
  BY <1>8, <1>0 DEF AcceptDone
<1>9. CASE DispatchDestroy \/ DispatchCreateCallBack \/ SendResponse
  BY <1>9, <1>0 DEF SendResponse, DispatchDestroy, DispatchCreateCallBack
<1>10. CASE DispatchRequest
  BY <1>10, <1>0 DEF DispatchRequest
<1> QED
  BY <1>1, <1>2, <1>3, <1>4, <1>5, <1>6, <1>7, <1>8, <1>9, <1>10
  DEF Next, Main, Client, vars, scanVars, daemonVars, kernelVars, Send,
      ClientConnects, ClientRequests, ClientCreatesCallBack, ClientDestroys,
      ClientCloses, ScanSkip, ReportStatus, SetConnection

-----------------------------------------------------------------------------
(***************************************************************************)
(* Places of descriptors                                                   *)
(***************************************************************************)
\* Only accept opens a descriptor and only a hangup or a report closes one;
\* CREATE_CALLBACK moves one, through the hands of the main thread.
LEMMA PlaceStep == ServerInv /\ [Next]_vars => PlaceInv'
<1> SUFFICES ASSUME ServerInv, [Next]_vars PROVE PlaceInv'
  OBVIOUS
<1>16. ASSUME AcceptOne
       PROVE  \E f \in Fds \ OpenFds, i \in Slots \ {Listener}, h \in Clients :
                 AcceptsAs(f, i, h)
  BY <1>16, AcceptFinds
<1>17. ASSUME revents[index], index # Listener
       PROVE  /\ slots[index] \in Fds /\ Peer(slots[index]) \in Clients
              /\ fdOf[Peer(slots[index])] = slots[index]
              /\ Peer(slots[index]) \notin destroyed
  BY <1>17, ScanFinds
<1>0. /\ PlaceInv /\ TaskInv /\ index \in Slots
      /\ slots \in [Slots -> Fds \cup {NoFd}] /\ fdOf \in [Clients -> Fds \cup {NoFd}]
      /\ callBackList \subseteq Fds /\ NoFd \notin Fds
  BY FdsCount DEF ServerInv, TypeOK
<1>1. CASE /\ UNCHANGED <<slots, fdOf, callBackList, destroyed>>
           /\ \A f \in Fds : InTransit(f)' <=> InTransit(f)
  BY <1>1, <1>0 DEF PlaceInv, InSlot, Held
<1>2. CASE ScanRequest
  <2> DEFINE c == Peer(slots[index])
  <2>1. /\ slots[index] \in Fds /\ c \in Clients \ destroyed
        /\ fdOf[c] = slots[index]
        /\ UNCHANGED <<fdOf, callBackList>>
        /\ pc' = "dispatch" /\ task'.fd = slots[index] /\ pc = "scan"
        /\ task'.command = inbox[c]
        /\ slots' = IF inbox[c] \in {"create_callback", "destroy"}
                    THEN [slots EXCEPT ![index] = NoFd] ELSE slots
        /\ destroyed' = IF inbox[c] = "destroy" THEN destroyed \cup {c}
                        ELSE destroyed
    BY <1>2, <1>17 DEF ScanRequest, FreesEntry, daemonVars
  <2> HIDE DEF c
  <2>2. \A f \in Fds : ~InTransit(f)
    BY <2>1 DEF InTransit
  <2>3. CASE inbox[c] \notin {"create_callback", "destroy"}
    <3>1. \A f \in Fds : ~InTransit(f)'
      BY <2>1, <2>3 DEF InTransit
    <3>2. UNCHANGED <<slots, fdOf, callBackList, destroyed>>
      BY <2>1, <2>3
    <3> QED
      BY <2>2, <3>1, <3>2, <1>1
  <2>4. CASE inbox[c] \in {"create_callback", "destroy"}
    <3>1. \A f \in Fds : InSlot(f)' <=> InSlot(f) /\ f # slots[index]
      BY <2>1, <2>4, <1>0 DEF InSlot, PlaceInv
    <3>2. InSlot(slots[index])
      BY <1>0 DEF InSlot
    <3>3. \A i, j \in Slots : slots'[i] = slots'[j] /\ slots'[i] # NoFd => i = j
      BY <2>1, <2>4, <1>0 DEF PlaceInv
    <3>4. CASE inbox[c] = "create_callback"
      <4>1. \A f \in Fds : InTransit(f)' <=> f = slots[index]
        BY <2>1, <3>4 DEF InTransit
      <4>2. \A f \in Fds : Held(f)' <=> Held(f)
        BY <2>1, <3>4 DEF Held
      <4> QED
        BY <2>1, <2>2, <3>1, <3>2, <3>3, <4>1, <4>2, <1>0 DEF PlaceInv
    <3>5. CASE inbox[c] = "destroy"
      <4>1. \A f \in Fds : ~InTransit(f)'
        BY <2>1, <3>5 DEF InTransit
      <4>2. \A f \in Fds : Held(f)' <=> Held(f) /\ f # slots[index]
        BY <2>1, <3>5, <1>0 DEF Held, PlaceInv
      <4> QED
        BY <2>1, <2>2, <3>1, <3>2, <3>3, <4>1, <4>2, <1>0 DEF PlaceInv
    <3> QED
      BY <2>4, <3>4, <3>5
  <2> QED
    BY <2>3, <2>4
<1>3. CASE ScanHangup
  <2> DEFINE c == Peer(slots[index])
  <2>1. /\ slots[index] \in Fds /\ c \in Clients /\ fdOf[c] = slots[index]
        /\ UNCHANGED <<callBackList, destroyed>> /\ pc = "scan"
        /\ task'.command = "destroy"
        /\ slots' = [slots EXCEPT ![index] = NoFd]
        /\ fdOf' = [fdOf EXCEPT ![c] = NoFd]
    BY <1>3, <1>17 DEF ScanHangup, daemonVars
  <2> HIDE DEF c
  <2>2. \A f \in Fds : ~InTransit(f) /\ ~InTransit(f)'
    BY <2>1 DEF InTransit
  <2>3. \A f \in Fds : InSlot(f)' <=> InSlot(f) /\ f # slots[index]
    BY <2>1, <1>0 DEF InSlot, PlaceInv
  <2>4. InSlot(slots[index])
    BY <1>0 DEF InSlot
  <2>5. \A i, j \in Slots : slots'[i] = slots'[j] /\ slots'[i] # NoFd => i = j
    BY <2>1, <1>0 DEF PlaceInv
  <2>6. \A f \in Fds : Held(f)' <=> Held(f) /\ f # slots[index]
    BY <2>1, <1>0 DEF PlaceInv, Held
  <2>7. \A d, e \in Clients : fdOf'[d] = fdOf'[e] /\ fdOf'[d] # NoFd => d = e
    BY <2>1, <1>0 DEF PlaceInv
  <2> QED
    BY <2>1, <2>2, <2>3, <2>4, <2>5, <2>6, <2>7, <1>0 DEF PlaceInv
<1>4. CASE AcceptOne
  <2>1. PICK f \in Fds \ OpenFds, i \in Slots \ {Listener}, h \in Clients :
            AcceptsAs(f, i, h)
    BY <1>4, <1>16
  <2>2. \A d \in Clients : fdOf[d] # f
    BY <2>1, <1>0 DEF OpenFds
  <2>3. UNCHANGED <<callBackList, destroyed>> /\ \A g \in Fds : ~InTransit(g) /\ ~InTransit(g)'
    BY <1>4 DEF AcceptOne, InTransit, daemonVars
  <2>4. ~InSlot(f) /\ f \notin callBackList
    BY <2>1, <2>2, <1>0 DEF PlaceInv, Held
  <2>5. \A g \in Fds : InSlot(g)' <=> InSlot(g) \/ g = f
    BY <2>1, <1>0 DEF AcceptsAs, InSlot
  <2>6. \A j, k \in Slots : slots'[j] = slots'[k] /\ slots'[j] # NoFd => j = k
    BY <2>1, <2>4, <1>0 DEF AcceptsAs, PlaceInv, InSlot
  <2>7. \A g \in Fds : Held(g)' <=> Held(g) \/ g = f
    BY <2>1, <2>2, <2>3, <1>0 DEF AcceptsAs, Held
  <2>8. \A d, e \in Clients : fdOf'[d] = fdOf'[e] /\ fdOf'[d] # NoFd => d = e
    BY <2>1, <2>2, <1>0 DEF AcceptsAs, PlaceInv
  <2> QED
    BY <2>3, <2>4, <2>5, <2>6, <2>7, <2>8, <1>0 DEF PlaceInv
<1>5. CASE DispatchCreateCallBack
  <2>1. /\ UNCHANGED <<slots, fdOf, destroyed>> /\ callBackList' = callBackList \cup {task.fd}
        /\ pc' = "poll" /\ \A f \in Fds : InTransit(f) <=> f = task.fd
    BY <1>5 DEF DispatchCreateCallBack, InTransit, kernelVars
  <2>2. \A f \in Fds : ~InTransit(f)'
    BY <2>1 DEF InTransit
  <2>3. task.fd \in Fds
    BY <1>5, <1>0 DEF DispatchCreateCallBack, TaskInv
  <2>4. \A f \in Fds : (InSlot(f)' <=> InSlot(f)) /\ (Held(f)' <=> Held(f))
    BY <2>1 DEF InSlot, Held
  <2> QED
    BY <2>1, <2>2, <2>3, <2>4, <1>0 DEF PlaceInv
<1>6. CASE ReportStatus
  <2>1. /\ callBackList' = callBackList \ BrokenCallBacks
        /\ BrokenCallBacks \subseteq callBackList
        /\ fdOf' = [c \in Clients |->
                      IF fdOf[c] \in BrokenCallBacks THEN NoFd ELSE fdOf[c]]
        /\ UNCHANGED <<slots, destroyed>>
        /\ \A f \in Fds : InTransit(f)' <=> InTransit(f)
    BY <1>6 DEF ReportStatus, BrokenCallBacks, InTransit, scanVars
  <2>2. \A f \in Fds : InSlot(f)' <=> InSlot(f)
    BY <2>1 DEF InSlot
  <2>3. \A f \in Fds : Held(f)' <=> Held(f) /\ f \notin BrokenCallBacks
    BY <2>1, <1>0 DEF Held
  <2>4. \A d, e \in Clients : fdOf'[d] = fdOf'[e] /\ fdOf'[d] # NoFd => d = e
    BY <2>1, <1>0 DEF PlaceInv
  <2> QED
    BY <2>1, <2>2, <2>3, <2>4, <1>0 DEF PlaceInv
<1>7. CASE \E c \in Clients : Client(c)
  BY <1>7, <1>1
  DEF Client, ClientConnects, ClientRequests, ClientCreatesCallBack, Send,
      ClientDestroys, ClientCloses, scanVars, daemonVars, InTransit
<1>8. CASE PollForEvent \/ ScanSkip \/ ScanEnd \/ ScanListener
  BY <1>8, <1>1
  DEF PollForEvent, ScanSkip, ScanEnd, ScanListener, daemonVars, kernelVars,
      InTransit
<1>9. CASE AcceptRefuse \/ AcceptInterrupted \/ AcceptDone
  BY <1>9, <1>1
  DEF AcceptRefuse, AcceptInterrupted, AcceptDone, daemonVars, kernelVars,
      InTransit
<1>10. CASE DispatchRequest \/ DispatchDestroy \/ SendResponse \/ SetConnection
  <2>1. /\ UNCHANGED <<slots, fdOf, callBackList, destroyed>>
        /\ \A f \in Fds : ~InTransit(f)' \/ UNCHANGED <<pc, task>>
        /\ \A f \in Fds : ~InTransit(f) \/ UNCHANGED <<pc, task>>
    BY <1>10
    DEF DispatchRequest, DispatchDestroy, SendResponse, SetConnection, scanVars,
        kernelVars, InTransit
  <2> QED
    BY <2>1, <1>1 DEF InTransit
<1>11. CASE UNCHANGED vars
  BY <1>11, <1>1 DEF vars, scanVars, daemonVars, kernelVars, InTransit
<1> QED
  BY <1>2, <1>3, <1>4, <1>5, <1>6, <1>7, <1>8, <1>9, <1>10, <1>11 DEF Next, Main

\* Counting the places of a descriptor gives what PlaceInv says: one place and
\* one client for an open descriptor, none for another.
LEMMA PlacesCount == ServerInv => DescriptorsAccounted
<1> SUFFICES ASSUME ServerInv PROVE DescriptorsAccounted
  OBVIOUS
<1>1. ASSUME NEW f \in Fds
      PROVE  Cardinality({i \in Slots : slots[i] = f})
                = IF InSlot(f) THEN 1 ELSE 0
  <2>1. CASE InSlot(f)
    <3>1. PICK i \in Slots : slots[i] = f
      BY <2>1 DEF InSlot
    <3>2. {j \in Slots : slots[j] = f} = {i}
      BY <3>1, FdsCount DEF ServerInv, PlaceInv
    <3> QED
      BY <2>1, <3>2, FS_Singleton
  <2>2. CASE ~InSlot(f)
    <3>1. {j \in Slots : slots[j] = f} = {}
      BY <2>2 DEF InSlot
    <3> QED
      BY <2>2, <3>1, FS_EmptySet
  <2> QED
    BY <2>1, <2>2
<1>2. ASSUME NEW f \in Fds
      PROVE  Cardinality({c \in Clients \ destroyed : fdOf[c] = f})
                = IF Held(f) THEN 1 ELSE 0
  <2>1. CASE Held(f)
    <3>1. PICK c \in Clients \ destroyed : fdOf[c] = f
      BY <2>1 DEF Held
    <3>2. {d \in Clients \ destroyed : fdOf[d] = f} = {c}
      BY <3>1, FdsCount DEF ServerInv, PlaceInv
    <3> QED
      BY <2>1, <3>2, FS_Singleton
  <2>2. CASE ~Held(f)
    <3>1. {d \in Clients \ destroyed : fdOf[d] = f} = {}
      BY <2>2 DEF Held
    <3> QED
      BY <2>2, <3>1, FS_EmptySet
  <2> QED
    BY <2>1, <2>2
<1>3. ASSUME NEW f \in Fds
      PROVE  Cardinality({i \in Slots : slots[i] = f})
                 + (IF f \in callBackList THEN 1 ELSE 0)
                 + (IF InTransit(f) THEN 1 ELSE 0)
               = Cardinality({c \in Clients \ destroyed : fdOf[c] = f})
  <2>1. /\ Held(f) <=> InSlot(f) \/ f \in callBackList \/ InTransit(f)
        /\ InSlot(f) => f \notin callBackList /\ ~InTransit(f)
        /\ InTransit(f) => f \notin callBackList
    BY DEF ServerInv, PlaceInv
  <2> HIDE DEF InSlot, InTransit, Held
  <2> QED
    BY <2>1, <1>1, <1>2
<1> QED
  BY <1>3 DEF DescriptorsAccounted, ServerInv, PlaceInv

-----------------------------------------------------------------------------
(***************************************************************************)
(* Clients and the references held for them                                *)
(***************************************************************************)
\* A connection that InitCallBack made carries no request, and only such a one
\* becomes a callback socket: no reference is ever held under the number of a
\* socket that ReportStatus may close.
LEMMA ClientStep == ServerInv /\ [Next]_vars => ClientInv'
<1> SUFFICES ASSUME ServerInv, [Next]_vars PROVE ClientInv'
  OBVIOUS
<1>16. ASSUME AcceptOne
       PROVE  \E f \in Fds \ OpenFds, i \in Slots \ {Listener}, h \in Clients :
                 AcceptsAs(f, i, h)
  BY <1>16, AcceptFinds
<1>17. ASSUME revents[index], index # Listener
       PROVE  /\ slots[index] \in Fds /\ Peer(slots[index]) \in Clients
              /\ fdOf[Peer(slots[index])] = slots[index]
              /\ Peer(slots[index]) \notin destroyed
  BY <1>17, ScanFinds
<1>18. ASSUME Serving
       PROVE  /\ task.fd \in Fds /\ Peer(task.fd) \in Clients
              /\ fdOf[Peer(task.fd)] = task.fd
  BY <1>18, ServingFinds
<1>0. /\ ClientInv /\ PlaceInv /\ TaskInv /\ index \in Slots
      /\ slots \in [Slots -> Fds \cup {NoFd}] /\ fdOf \in [Clients -> Fds \cup {NoFd}]
      /\ users \in [Fds -> Clients \cup {NoClient}]
      /\ inbox \in [Clients -> Commands]
      /\ callBackList \subseteq Fds /\ NoFd \notin Fds /\ NoClient \notin Clients
  BY FdsCount, ClientsAssumption DEF ServerInv, TypeOK
<1>1. CASE /\ UNCHANGED <<slots, fdOf, callBackList, users, inbox>>
           /\ \A f \in Fds : InTransit(f)' => InTransit(f)
           /\ Serving' => Serving /\ task' = task
  BY <1>1, <1>0 DEF ClientInv, InSlot, IsCallBack
<1>2. ASSUME NEW c \in Clients, NEW command \in Commands, Send(c, command),
             command = "request" => c \notin CallBacks,
             command = "create_callback" => c \in CallBacks
      PROVE  ClientInv'
  <2>1. /\ inbox' = [inbox EXCEPT ![c] = command]
        /\ UNCHANGED <<slots, fdOf, callBackList, users, pc, task>>
    BY <1>2 DEF Send, scanVars, daemonVars, portVars
  <2>2. (\A f \in Fds : InTransit(f)' <=> InTransit(f)) /\ (Serving' <=> Serving)
    BY <2>1 DEF InTransit, Serving
  <2> QED
    BY <1>2, <2>1, <2>2, <1>0 DEF ClientInv, InSlot, IsCallBack
<1>3. ASSUME NEW c \in Clients,
             \/ ClientRequests(c) \/ ClientCreatesCallBack(c) \/ ClientDestroys(c)
      PROVE  ClientInv'
  BY <1>2, <1>3 DEF ClientRequests, ClientCreatesCallBack, ClientDestroys, Commands
<1>4. CASE ScanRequest
  <2> DEFINE c == Peer(slots[index])
  <2>1. /\ slots[index] \in Fds /\ c \in Clients /\ fdOf[c] = slots[index]
        /\ pc = "scan" /\ pc' = "dispatch" /\ inbox[c] # "none"
        /\ task' = [fd |-> slots[index], command |-> inbox[c]]
        /\ inbox[c] = "request" => slots' = slots
        /\ inbox' = [inbox EXCEPT ![c] = "none"]
        /\ UNCHANGED <<fdOf, callBackList, users>>
    BY <1>4, <1>17 DEF ScanRequest, FreesEntry, daemonVars, portVars
  <2> HIDE DEF c
  <2>2. \A d \in Clients : fdOf[d] = slots[index] => d = c
    BY <2>1, <1>0 DEF PlaceInv
  <2>3. \A f \in Fds : InTransit(f)' => f = slots[index] /\ inbox[c] = "create_callback"
    BY <2>1 DEF InTransit
  <2>4. Serving' => inbox[c] = "request" /\ task'.fd = slots[index]
    BY <2>1 DEF Serving
  <2>5. Serving' => InSlot(task.fd)'
    BY <2>1, <2>4, <1>0 DEF InSlot
  <2>6. \A d \in Clients : Serving' /\ task'.fd = fdOf'[d] => d \notin CallBacks
    BY <2>1, <2>2, <2>4, <1>0 DEF ClientInv
  <2>7. \A d \in Clients : IsCallBack(d)' => IsCallBack(d)
    BY <2>1, <2>2, <2>3, <1>0 DEF IsCallBack
  <2> QED
    BY <2>1, <2>5, <2>6, <2>7, <1>0 DEF ClientInv
<1>5. CASE ScanHangup \/ ReportStatus
  <2>1. /\ UNCHANGED <<users, inbox>>
        /\ callBackList' \subseteq callBackList
        /\ \A d \in Clients : fdOf'[d] \in {NoFd, fdOf[d]}
        /\ \A f \in Fds : InTransit(f)' => InTransit(f)
        /\ \/ slots' = slots /\ UNCHANGED <<pc, task>>
           \/ task'.command = "destroy"
    BY <1>5, <1>17, <1>0
    DEF ScanHangup, ReportStatus, scanVars, daemonVars, portVars, InTransit
  <2>2. \A d \in Clients : IsCallBack(d)' => IsCallBack(d)
    BY <2>1, <1>0 DEF IsCallBack
  <2>3. Serving' => Serving /\ slots' = slots /\ task' = task
    BY <2>1 DEF Serving
  <2>4. Serving' => InSlot(task.fd)'
    BY <2>3, <1>0 DEF ClientInv, InSlot
  <2>5. \A d \in Clients : Serving' /\ task'.fd = fdOf'[d] => d \notin CallBacks
    <3> SUFFICES ASSUME NEW d \in Clients, Serving', task'.fd = fdOf'[d]
                 PROVE  d \notin CallBacks
      OBVIOUS
    <3>1. Serving /\ task' = task /\ task.fd \in Fds
      BY <2>3, <1>18
    <3>2. task.fd = fdOf[d]
      BY <2>1, <3>1, <1>0
    <3> QED
      BY <3>1, <3>2, <1>0 DEF ClientInv
  <2> QED
    BY <2>1, <2>2, <2>4, <2>5, <1>0 DEF ClientInv
<1>6. CASE AcceptOne
  <2>1. PICK f \in Fds \ OpenFds, i \in Slots \ {Listener}, h \in Clients :
            AcceptsAs(f, i, h)
    BY <1>6, <1>16
  <2>2. UNCHANGED <<callBackList, users, inbox, pc, task>> /\ pc = "accept"
    BY <1>6 DEF AcceptOne, daemonVars, portVars
  <2>3. f \notin callBackList
    BY <2>1, <1>0 DEF PlaceInv, OpenFds, Held
  <2>4. ~Serving' /\ \A d \in Clients : IsCallBack(d)' => IsCallBack(d)
    BY <2>1, <2>2, <2>3, <1>0 DEF Serving, IsCallBack, InTransit, AcceptsAs
  <2> QED
    BY <2>2, <2>4, <1>0 DEF ClientInv
<1>7. CASE DispatchRequest
  <2> DEFINE c == Peer(task.fd)
  <2>0. Serving
    BY <1>7 DEF DispatchRequest, Serving
  <2>1. /\ task.fd \in Fds /\ c \in Clients /\ fdOf[c] = task.fd
        /\ UNCHANGED <<slots, fdOf, callBackList, inbox, task>>
        /\ pc' = "respond" /\ task.command = "request"
        /\ users' \in {users, [users EXCEPT ![task.fd] = c],
                        [users EXCEPT ![task.fd] = NoClient]}
    BY <2>0, <1>7, <1>18 DEF DispatchRequest, kernelVars
  <2> HIDE DEF c
  <2>2. c \notin CallBacks
    BY <2>0, <2>1, <1>0 DEF ClientInv
  <2>3. \A d \in Clients : IsCallBack(d)' => IsCallBack(d)
    BY <2>1 DEF IsCallBack, InTransit
  <2>4. \A d \in Clients, f \in Fds : users'[f] = d => users[f] = d \/ d = c
    BY <2>1, <1>0
  <2>5. InSlot(task.fd)'
    BY <2>0, <2>1, <1>0 DEF ClientInv, InSlot
  <2>6. \A d \in Clients : task'.fd = fdOf'[d] => d \notin CallBacks
    BY <2>0, <2>1, <1>0 DEF ClientInv
  <2> QED
    BY <2>1, <2>2, <2>3, <2>4, <2>5, <2>6, <1>0 DEF ClientInv
<1>8. CASE DispatchDestroy \/ SendResponse
  <2>1. /\ pc' = "poll" /\ users' \in {users, [users EXCEPT ![task.fd] = NoClient]}
        /\ UNCHANGED <<slots, fdOf, callBackList, inbox>>
    BY <1>8 DEF DispatchDestroy, SendResponse, HandleAppExit, Released, kernelVars
  <2>2. ~Serving' /\ \A d \in Clients : IsCallBack(d)' => IsCallBack(d)
    BY <2>1 DEF Serving, IsCallBack, InTransit
  <2>3. \A d \in Clients, f \in Fds : users'[f] = d => users[f] = d
    BY <2>1, <1>0
  <2> QED
    BY <2>1, <2>2, <2>3, <1>0 DEF ClientInv
<1>9. CASE DispatchCreateCallBack
  <2>1. /\ pc' = "poll" /\ callBackList' = callBackList \cup {task.fd}
        /\ UNCHANGED <<slots, fdOf, users, inbox>>
        /\ \A f \in Fds : f = task.fd => InTransit(f)
    BY <1>9 DEF DispatchCreateCallBack, InTransit, kernelVars, portVars
  <2>2. ~Serving' /\ \A d \in Clients : IsCallBack(d)' => IsCallBack(d)
    <3>1. (\A f \in Fds : ~InTransit(f)') /\ ~Serving'
      BY <2>1 DEF InTransit, Serving
    <3> QED
      BY <2>1, <3>1, <1>0 DEF IsCallBack
  <2> QED
    BY <2>1, <2>2, <1>0 DEF ClientInv
<1>10. CASE \E c \in Clients : ClientConnects(c) \/ ClientCloses(c)
  BY <1>10, <1>1
  DEF ClientConnects, ClientCloses, scanVars, daemonVars, portVars, InTransit,
      Serving
<1>11. CASE PollForEvent \/ ScanSkip \/ ScanEnd \/ ScanListener
  BY <1>11, <1>1
  DEF PollForEvent, ScanSkip, ScanEnd, ScanListener, daemonVars, portVars,
      kernelVars, InTransit, Serving
<1>12. CASE AcceptRefuse \/ AcceptInterrupted \/ AcceptDone
  BY <1>12, <1>1
  DEF AcceptRefuse, AcceptInterrupted, AcceptDone, daemonVars, portVars,
      kernelVars, InTransit, Serving
<1>13. CASE UNCHANGED vars \/ SetConnection
  BY <1>13, <1>1
  DEF vars, SetConnection, scanVars, daemonVars, portVars, kernelVars, InTransit,
      Serving
<1> QED
  BY <1>3, <1>4, <1>5, <1>6, <1>7, <1>8, <1>9, <1>10, <1>11, <1>12, <1>13
  DEF Next, Main, Client

\* A reference stays under its number while the client keeps the descriptor; the
\* hangup that closes the descriptor is dispatched as a DESTROY of that number
\* before the number can be given out again, and that DESTROY drops the
\* reference or, when the port is disconnected, adds the number to kept.
LEMMA ReferenceStep == ServerInv /\ [Next]_vars => ReferencesFollowClients'
<1> SUFFICES ASSUME ServerInv, [Next]_vars, NEW g \in Fds, users'[g] # NoClient
             PROVE  \/ fdOf'[users'[g]] = g
                    \/ pc' = "dispatch" /\ task' = [fd |-> g, command |-> "destroy"]
                    \/ g \in kept'
  BY DEF ReferencesFollowClients
<1>16. ASSUME AcceptOne
       PROVE  \E f \in Fds \ OpenFds, i \in Slots \ {Listener}, h \in Clients :
                 AcceptsAs(f, i, h)
  BY <1>16, AcceptFinds
<1>17. ASSUME revents[index], index # Listener
       PROVE  /\ slots[index] \in Fds /\ Peer(slots[index]) \in Clients
              /\ fdOf[Peer(slots[index])] = slots[index]
  BY <1>17, ScanFinds
<1>18. ASSUME Serving
       PROVE  /\ task.fd \in Fds /\ Peer(task.fd) \in Clients
              /\ fdOf[Peer(task.fd)] = task.fd
  BY <1>18, ServingFinds
<1>0. /\ fdOf \in [Clients -> Fds \cup {NoFd}] /\ NoFd \notin Fds
      /\ users \in [Fds -> Clients \cup {NoClient}] /\ NoClient \notin Clients
      /\ TaskInv
      /\ \A f \in Fds : users[f] # NoClient =>
             \/ fdOf[users[f]] = f
             \/ pc = "dispatch" /\ task = [fd |-> f, command |-> "destroy"]
             \/ f \in kept
  BY FdsCount, ClientsAssumption DEF ServerInv, TypeOK, ReferencesFollowClients
<1>1. CASE /\ UNCHANGED <<users, fdOf, kept>>
           /\ UNCHANGED <<pc, task>> \/ pc # "dispatch"
  BY <1>1, <1>0
<1>2. CASE ScanHangup
  <2>1. /\ fdOf' = [fdOf EXCEPT ![Peer(slots[index])] = NoFd]
        /\ Peer(slots[index]) \in Clients
        /\ fdOf[Peer(slots[index])] = slots[index]
        /\ task' = [fd |-> slots[index], command |-> "destroy"]
        /\ pc = "scan" /\ pc' = "dispatch" /\ UNCHANGED <<users, kept>>
    BY <1>2, <1>17 DEF ScanHangup, daemonVars, portVars
  <2> QED
    BY <2>1, <1>0
<1>3. CASE AcceptOne
  <2>1. PICK f \in Fds \ OpenFds, i \in Slots \ {Listener}, h \in Clients :
            AcceptsAs(f, i, h)
    BY <1>3, <1>16
  <2>2. UNCHANGED <<users, kept>> /\ pc = "accept"
    BY <1>3 DEF AcceptOne, daemonVars, portVars
  <2> QED
    BY <2>1, <2>2, <1>0 DEF AcceptsAs
<1>4. CASE DispatchRequest
  <2>1. /\ Peer(task.fd) \in Clients /\ fdOf[Peer(task.fd)] = task.fd
        /\ task.fd \in Fds /\ task.command = "request" /\ fdOf' = fdOf
        /\ \/ UNCHANGED <<users, kept>>
           \/ /\ users' \in {[users EXCEPT ![task.fd] = Peer(task.fd)],
                              [users EXCEPT ![task.fd] = NoClient]}
              /\ kept' = kept \ {task.fd}
    BY <1>4, <1>18 DEF DispatchRequest, Serving, kernelVars
  <2>2. CASE UNCHANGED <<users, kept>>
    BY <2>1, <2>2, <1>0
  <2>3. CASE g = task.fd /\ ~UNCHANGED <<users, kept>>
    BY <2>1, <2>3, <1>0
  <2>4. CASE g # task.fd /\ ~UNCHANGED <<users, kept>>
    BY <2>1, <2>4, <1>0
  <2> QED
    BY <2>2, <2>3, <2>4
<1>5. CASE DispatchDestroy \/ SendResponse
  <2>1. /\ fdOf' = fdOf /\ task.fd \in Fds
        /\ pc = "respond" \/ (pc = "dispatch" /\ task.command = "destroy")
        /\ \/ pc = "respond" /\ UNCHANGED <<users, kept>>
           \/ HandleAppExit(task.fd)
    BY <1>5, <1>0 DEF DispatchDestroy, SendResponse, kernelVars, TaskInv
  <2>2. CASE pc = "respond" /\ UNCHANGED <<users, kept>>
    BY <2>2, <2>1, <1>0
  <2>3. CASE HandleAppExit(task.fd)
    <3>1. CASE g = task.fd
      BY <2>1, <2>3, <3>1, <1>0 DEF HandleAppExit, Released
    <3>2. CASE g # task.fd
      <4>1. users'[g] = users[g] /\ (g \in kept => g \in kept')
        BY <2>1, <2>3, <3>2, <1>0 DEF HandleAppExit, Released
      <4>2. task # [fd |-> g, command |-> "destroy"]
        BY <3>2
      <4> QED
        BY <2>1, <4>1, <4>2, <1>0
    <3> QED
      BY <3>1, <3>2
  <2> QED
    BY <2>1, <2>2, <2>3
<1>6. CASE DispatchCreateCallBack
  BY <1>6, <1>0 DEF DispatchCreateCallBack, kernelVars, portVars
<1>7. CASE ReportStatus
  <2>1. /\ UNCHANGED <<users, kept>> /\ UNCHANGED <<pc, task>>
        /\ \A c \in Clients :
              fdOf[c] \notin callBackList => fdOf'[c] = fdOf[c]
    BY <1>7 DEF ReportStatus, BrokenCallBacks, scanVars, portVars
  <2>2. ASSUME fdOf[users[g]] = g PROVE g \notin callBackList
    <3>1. users[g] \in Clients
      BY <2>1, <1>0
    <3> QED
      BY <2>2, <3>1, <1>0 DEF ServerInv, ClientInv, IsCallBack
  <2> QED
    BY <2>1, <2>2, <1>0
<1>8. CASE SetConnection \/ \E c \in Clients : Client(c)
  BY <1>8, <1>1
  DEF Client, ClientConnects, ClientRequests, ClientCreatesCallBack, Send,
      ClientDestroys, ClientCloses, SetConnection, scanVars, daemonVars, portVars,
      kernelVars
<1>9. CASE PollForEvent \/ ScanSkip \/ ScanEnd \/ ScanListener \/ ScanRequest
  BY <1>9, <1>1
  DEF PollForEvent, ScanSkip, ScanEnd, ScanListener, ScanRequest, daemonVars,
      portVars, kernelVars
<1>10. CASE AcceptRefuse \/ AcceptInterrupted \/ AcceptDone
  BY <1>10, <1>1
  DEF AcceptRefuse, AcceptInterrupted, AcceptDone, daemonVars, portVars,
      kernelVars
<1>11. CASE UNCHANGED vars
  BY <1>11, <1>1 DEF vars, scanVars, daemonVars, portVars, kernelVars
<1> QED
  BY <1>2, <1>3, <1>4, <1>5, <1>6, <1>7, <1>8, <1>9, <1>10, <1>11 DEF Next, Main

-----------------------------------------------------------------------------
\* After Listen there is no connection, no task and no event.
LEMMA ServerInit == Init => ServerInv
<1> SUFFICES ASSUME Init PROVE ServerInv
  OBVIOUS
<1> USE FdsCount, SlotCountAssumption, ClientsAssumption, LoadAssumption DEF Init
<1>1. TypeOK
  BY DEF TypeOK, Slots, NoTask, Commands
<1>2. BacklogInv /\ TaskInv
  BY DEF BacklogInv, TaskInv, NoTask, Slots, Listener
<1>3. PlaceInv
  BY DEF PlaceInv, InSlot, InTransit, Held
<1>4. ClientInv
  BY DEF ClientInv, IsCallBack, InTransit, Serving
<1>5. ReferencesFollowClients
  BY DEF ReferencesFollowClients
<1> QED
  BY <1>1, <1>2, <1>3, <1>4, <1>5 DEF ServerInv

\* The invariant is inductive, so it holds in every reachable state.
LEMMA ServerInvariant == Spec => []ServerInv
<1>1. ServerInv /\ [Next]_vars => ServerInv'
  BY TypeStep, BacklogStep, TaskStep, PlaceStep, ClientStep, ReferenceStep
  DEF ServerInv
<1> QED
  BY <1>1, ServerInit, PTL DEF Spec

\* For any number of clients and entries the indices of the scan stay inside the
\* session array, and accept always finds a descriptor and an entry.
THEOREM TypeCorrect == Spec => []TypeOK
<1>1. ServerInv => TypeOK
  BY DEF ServerInv
<1> QED
  BY <1>1, ServerInvariant, PTL

\* Every open descriptor is in exactly one of the session array, the callback
\* list and the hands of the main thread, except those of the clients that sent
\* DESTROY, which are in none: nothing else leaks, none is in two places.
THEOREM DescriptorsCorrect == Spec => []DescriptorsAccounted
BY ServerInvariant, PlacesCount, PTL

\* The port reference of one client passes to the next user of its descriptor
\* number only when its exit was handled while the port was disconnected.
THEOREM ReferencesCorrect == Spec => []ReferencesFollowClients
<1>1. ServerInv => ReferencesFollowClients
  BY DEF ServerInv
<1> QED
  BY <1>1, ServerInvariant, PTL

=============================================================================

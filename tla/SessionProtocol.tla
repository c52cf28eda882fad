--------------------------- MODULE SessionProtocol ---------------------------
(***************************************************************************)
(* The messages between a session of the SDK (sdk/session.cpp,             *)
(* common/clientsock.cpp) and the daemon (daemon/daemon.cpp and the send   *)
(* and receive operations of common/servsock.cpp), over one stream socket. *)
(*                                                                         *)
(* Several threads of the application share the session; m_SocketMutex     *)
(* orders their transactions.  Most calls are one request and one          *)
(* response.  GetKsvList is a response followed by the list, of a length   *)
(* the response gives; SendSRMData is two responses, with the SRM sent in  *)
(* between.  Nothing in the streams marks where a message begins, so a     *)
(* sender and a receiver that disagree on what comes next stay out of step *)
(* for good.                                                               *)
(*                                                                         *)
(* A stream is a sequence of units; a SocketData is MessageSize of them.   *)
(* A send is all or nothing, its data being smaller than a socket buffer.  *)
(* What the daemon does for a request is in PortManager and SrmStore; here *)
(* it is an outcome and, for SetProtectionLevel, whether the application   *)
(* then has a reference on the port.                                       *)
(***************************************************************************)
EXTENDS Integers, Sequences

CONSTANTS
    Threads,        \* threads of the application
    NoThread,       \* not a thread
    NoCall,         \* not a call
    Levels,         \* values of HDCP_LEVEL; 0 switches off
    MessageSize,    \* sizeof(SocketData), in units
    MaxKsvCount,    \* MAX_KSV_COUNT
    CountRange,     \* values of a uint8_t; more than MaxKsvCount
    SrmSizes,       \* sizes of the SRMs the application sends
    MaxSrmSize,     \* SRM_FIRST_GEN_MAX_SIZE
    Faulty,         \* the sends that may fail on a live connection
    MaxFaults       \* bound: number of those failures

ASSUME ThreadsAssumption == NoThread \notin Threads
ASSUME LevelsAssumption == 0 \in Levels
ASSUME SizesAssumption ==
    /\ MessageSize \in Nat \ {0} /\ MaxSrmSize \in Nat
    /\ SrmSizes \subseteq Nat \ {0}
    /\ MaxKsvCount \in Nat \ {0} /\ CountRange \in Nat /\ CountRange > MaxKsvCount + 1
ASSUME FaultyAssumption ==
    /\ Faulty \subseteq {"request", "srm", "first", "list", "response"}
    /\ MaxFaults \in Nat

\* The calls, by the shape of their transaction: EnumerateDisplay, GetStatus,
\* GetSRMVersion and Config; SetProtectionLevel; GetKsvList; SendSRMData.
Calls ==
    {[cmd |-> "query", arg |-> 0], [cmd |-> "ksv", arg |-> 0]}
        \cup {[cmd |-> "set", arg |-> l] : l \in Levels}
        \cup {[cmd |-> "srm", arg |-> n] : n \in SrmSizes}

ASSUME NoCallAssumption == NoCall \notin Calls

LevelZero == [cmd |-> "set", arg |-> 0]

VARIABLES
    pc,         \* where each thread is in its call
    call,       \* the call it is in
    request,    \* the request it transacts: that of the call, or LevelZero
    status,     \* the status it has for the call
    expected,   \* KSVs that ReceiveKsvList waits for
    mutex,      \* m_SocketMutex
    up, down,   \* the streams to the daemon and to the SDK
    dpc,        \* where the daemon is with this connection
    dreq,       \* the request it serves
    data,       \* Status and KsvCount of the SocketData it answers with
    held,       \* the application has a reference on the port
    sdkOpen,    \* the application is there
    daemonOpen, \* the daemon is there
    served,     \* history: what the daemon did for the call of each thread
    protected,  \* history: a SetProtectionLevel has returned success for a level
                \* above 0, and the daemon has served no level 0 after it
    overtaken,  \* history: threads whose SetProtectionLevel has been served, and
                \* a level 0 after it, before it returns
    faults      \* bounded counter

sdkVars == <<pc, call, request, status, expected, mutex>>
daemonVars == <<dpc, dreq, data, held, served>>
marks == <<protected, overtaken>>
vars == <<sdkVars, up, down, daemonVars, marks, sdkOpen, daemonOpen, faults>>

-----------------------------------------------------------------------------
(***************************************************************************)
(* The streams                                                             *)
(***************************************************************************)

\* What was sent in one piece, cut into units.
Chunk(m, n) == [i \in 1..n |-> [msg |-> m, at |-> i, size |-> n]]

\* ReadData returns when it has n units...
Available(s, n) == Len(s) >= n

\* ... and leaves the rest.
Rest(s, n) == SubSeq(s, n + 1, Len(s))

\* What it read is one piece, as it was sent, and one of kind.
Whole(s, n, kind) == s[1].msg \in kind /\ SubSeq(s, 1, n) = Chunk(s[1].msg, n)

NoRequest == [by |-> NoThread, body |-> NoCall]
Cleared == [status |-> "error", count |-> 0]    \* a new SocketData
Requests == [by : Threads, body : Calls]
Responses == [status : {"ok", "error"}, count : 0 .. CountRange - 1]
Srm(t) == [by |-> t, body |-> "srm"]
KsvList(t) == [by |-> t, body |-> "list"]

Fault(point) == point \in Faulty /\ faults < MaxFaults /\ faults' = faults + 1

Init ==
    /\ pc = [t \in Threads |-> "idle"]
    /\ call = [t \in Threads |-> NoCall] /\ request = [t \in Threads |-> NoCall]
    /\ status = [t \in Threads |-> "ok"] /\ expected = [t \in Threads |-> 0]
    /\ mutex = NoThread /\ up = <<>> /\ down = <<>>
    /\ dpc = "idle" /\ dreq = NoRequest /\ data = Cleared
    /\ held = FALSE /\ sdkOpen = TRUE /\ daemonOpen = TRUE
    /\ served = [t \in Threads |-> "no"]
    /\ protected = FALSE /\ overtaken = {} /\ faults = 0

-----------------------------------------------------------------------------
(***************************************************************************)
(* The SDK                                                                 *)
(***************************************************************************)
SdkUnchanged == UNCHANGED <<daemonVars, marks, sdkOpen, daemonOpen>>

\* A call with parameters that pass the tests of hdcpapi.cpp and session.cpp.
Begin(t) ==
    /\ sdkOpen /\ pc[t] = "idle"
    /\ \E c \in Calls :
        /\ call' = [call EXCEPT ![t] = c]
        /\ request' = [request EXCEPT ![t] = c]
    /\ pc' = [pc EXCEPT ![t] = "request"]
    /\ UNCHANGED <<status, expected, mutex, up, down, faults>> /\ SdkUnchanged

\* m_SocketMutex is released and the transaction has come to s.  The failure of
\* a protection level is followed by a transaction for level 0, whose own
\* result is not looked at.
Finish(t, s) ==
    /\ mutex' = NoThread
    /\ IF request[t] # call[t]
       THEN UNCHANGED status
       ELSE status' = [status EXCEPT ![t] = s]
    /\ IF request[t] = call[t] /\ call[t].cmd = "set" /\ call[t].arg # 0 /\ s # "ok"
       THEN /\ request' = [request EXCEPT ![t] = LevelZero]
            /\ pc' = [pc EXCEPT ![t] = "request"]
       ELSE /\ pc' = [pc EXCEPT ![t] = "return"]
            /\ UNCHANGED request

\* SendMessage of PerformMessageTransaction, with the mutex.
Request(t) ==
    /\ sdkOpen /\ pc[t] = "request" /\ mutex = NoThread
    /\ \/ /\ daemonOpen
          /\ up' = up \o Chunk([by |-> t, body |-> request[t]], MessageSize)
          /\ mutex' = t
          /\ pc' = [pc EXCEPT ![t] = "reply"]
          /\ UNCHANGED <<status, request, faults>>
       \/ /\ Finish(t, "transaction")
          /\ UNCHANGED up
          /\ \/ ~daemonOpen /\ UNCHANGED faults
             \/ Fault("request")
    /\ UNCHANGED <<call, expected, down>> /\ SdkUnchanged

\* The daemon has closed its end and no n units are left to read.
Cut(n) == ~daemonOpen /\ ~Available(down, n)

\* What GetMessage read; anything, if it is not a response.
Read(n) == IF Whole(down, n, Responses) THEN {down[1].msg} ELSE Responses

\* Mutant: the mutex is released before the list is received.
ReceiveListUnlocked(t) ==
    /\ pc' = [pc EXCEPT ![t] = "list"] /\ mutex' = NoThread
    /\ UNCHANGED <<status, request, up, faults>>

\* GetKsvList goes on to ReceiveKsvList, with the mutex.
ReceiveList(t) ==
    /\ pc' = [pc EXCEPT ![t] = "list"]
    /\ UNCHANGED <<mutex, status, request, up, faults>>

\* SendSRMData goes on to SendSrmData and waits for the second response.
SendSrm(t) ==
    \/ /\ daemonOpen
       /\ up' = up \o Chunk(Srm(t), request[t].arg)
       /\ pc' = [pc EXCEPT ![t] = "stored"]
       /\ UNCHANGED <<mutex, status, request, faults>>
    \/ /\ Finish(t, "transaction") /\ UNCHANGED up
       /\ \/ ~daemonOpen /\ UNCHANGED faults
          \/ Fault("srm")

\* What a call without a second part makes of the status it is answered with:
\* ReceiveKsvList refuses the KsvCount, EnumerateDisplay may refuse the PortCount.
Outcomes(cmd, s) ==
    {IF cmd = "ksv" /\ s = "ok" THEN "transaction" ELSE s}
        \cup (IF cmd = "query" THEN {"error"} ELSE {})

\* GetMessage of PerformMessageTransaction and what the call does next.
Reply(t) ==
    /\ sdkOpen /\ pc[t] = "reply"
    /\ \/ /\ Available(down, MessageSize)
          /\ \E r \in Read(MessageSize) : LET s == r.status n == r.count IN
              /\ expected' = [expected EXCEPT ![t] =
                                IF request[t].cmd = "ksv" /\ s = "ok" THEN n ELSE 0]
              /\ IF s = "ok" /\ request[t].cmd = "ksv" /\ n \in 1..MaxKsvCount
                 THEN ReceiveList(t)
                 ELSE IF s = "ok" /\ request[t].cmd = "srm"
                 THEN SendSrm(t)
                 ELSE /\ \E o \in Outcomes(request[t].cmd, s) : Finish(t, o)
                      /\ UNCHANGED <<up, faults>>
          /\ down' = Rest(down, MessageSize)
       \/ /\ Cut(MessageSize)
          /\ Finish(t, "transaction")
          /\ UNCHANGED <<expected, up, down, faults>>
    /\ UNCHANGED call /\ SdkUnchanged

\* ReceiveKsvList.
ReceiveKsvList(t) ==
    /\ sdkOpen /\ pc[t] = "list"
    /\ \/ /\ Available(down, expected[t])
          /\ down' = Rest(down, expected[t])
          /\ Finish(t, "ok")
       \/ /\ Cut(expected[t])
          /\ Finish(t, "transaction")
          /\ UNCHANGED down
    /\ UNCHANGED <<call, expected, up, faults>> /\ SdkUnchanged

\* The second response of SendSRMData.
Stored(t) ==
    /\ sdkOpen /\ pc[t] = "stored"
    /\ \/ /\ Available(down, MessageSize)
          /\ down' = Rest(down, MessageSize)
          /\ \E r \in Read(MessageSize) : Finish(t, r.status)
       \/ /\ Cut(MessageSize)
          /\ Finish(t, "transaction")
          /\ UNCHANGED down
    /\ UNCHANGED <<call, expected, up, faults>> /\ SdkUnchanged

\* Mutant: an error is hidden whatever the level.
HideAlways(t) == IF call[t].cmd = "set" THEN "ok" ELSE status[t]

\* What the call returns: SetProtectionLevel hides an error of level 0.
Returned(t) == IF call[t] = LevelZero THEN "ok" ELSE status[t]

Return(t) ==
    /\ sdkOpen /\ pc[t] = "return"
    /\ protected' = \/ protected
                    \/ /\ call[t].cmd = "set" /\ call[t].arg # 0
                       /\ Returned(t) = "ok" /\ t \notin overtaken
    /\ overtaken' = overtaken \ {t}
    /\ pc' = [pc EXCEPT ![t] = "idle"]
    /\ call' = [call EXCEPT ![t] = NoCall] /\ request' = [request EXCEPT ![t] = NoCall]
    /\ status' = [status EXCEPT ![t] = "ok"] /\ expected' = [expected EXCEPT ![t] = 0]
    /\ served' = [served EXCEPT ![t] = "no"]
    /\ UNCHANGED <<mutex, up, down, dpc, dreq, data, held, sdkOpen, daemonOpen, faults>>

-----------------------------------------------------------------------------
(***************************************************************************)
(* The daemon                                                              *)
(***************************************************************************)
DaemonUnchanged == UNCHANGED <<sdkVars, marks, sdkOpen, daemonOpen>>

\* The next SocketData of the connection.  One whose Size is not its own is
\* answered without being dispatched.
GetRequest ==
    /\ daemonOpen /\ dpc = "idle" /\ Available(up, MessageSize)
    /\ up' = Rest(up, MessageSize)
    /\ IF Whole(up, MessageSize, Requests)
       THEN /\ dreq' = up[1].msg
            /\ dpc' = dreq'.body.cmd
       ELSE dpc' = "response" /\ UNCHANGED dreq
    /\ UNCHANGED <<down, data, held, served, faults>> /\ DaemonUnchanged

\* The application has closed: the task is DESTROY, which removes its reference
\* unless the port is disconnected.
GetDestroy ==
    /\ daemonOpen /\ dpc = "idle" /\ ~sdkOpen /\ ~Available(up, MessageSize)
    /\ held' \in {held, FALSE}
    /\ dpc' = "closed"
    /\ UNCHANGED <<up, down, dreq, data, served, faults>> /\ DaemonUnchanged

\* The request of a call has come to s, unless it is the level 0 that follows a
\* failure.
Serves(s) ==
    LET t == dreq.by IN
    served' = IF dreq.body = call[t] THEN [served EXCEPT ![t] = s] ELSE served

\* EnumeratePorts, GetStatus, GetSRMVersion, Config.
DispatchQuery ==
    /\ daemonOpen /\ dpc = "query"
    /\ \E s \in {"ok", "error"} :
        /\ data' = [status |-> s, count |-> 0]
        /\ Serves(s)
    /\ dpc' = "response"
    /\ UNCHANGED <<up, down, dreq, held, faults>> /\ DaemonUnchanged

\* The daemon has granted t the level above 0 that its call asks for.
Granted(t) == served[t] = "ok" /\ call[t].cmd = "set" /\ call[t].arg # 0

\* SetProtectionLevel.  Enabling adds the reference when it succeeds.
\* Disabling removes it first and may then fail, or does nothing for a port
\* that is disconnected.
DispatchSet ==
    /\ daemonOpen /\ dpc = "set"
    /\ \E s \in {"ok", "error"} :
        /\ data' = [status |-> s, count |-> 0]
        /\ Serves(s)
        /\ \/ dreq.body.arg # 0 /\ held' = (held \/ s = "ok")
           \/ dreq.body.arg = 0 /\ held' = FALSE
           \/ dreq.body.arg = 0 /\ s = "ok" /\ UNCHANGED held
    /\ IF dreq.body.arg = 0
       THEN /\ protected' = FALSE
            /\ overtaken' = overtaken \cup {t \in Threads : Granted(t)}
       ELSE UNCHANGED marks
    /\ dpc' = "response"
    /\ UNCHANGED <<up, down, dreq, faults, sdkVars, sdkOpen, daemonOpen>>

\* The loop is back at GetTask.
NextRequest == dpc' = "idle" /\ dreq' = NoRequest /\ data' = Cleared

\* A send to the application that succeeds, and one that fails.
Sent(m, n) == sdkOpen /\ down' = down \o Chunk(m, n) /\ UNCHANGED faults

NotSent(point) ==
    /\ UNCHANGED down
    /\ \/ ~sdkOpen /\ UNCHANGED faults
       \/ Fault(point)

\* The handler leaves an error for the loop to send.
Fails(n) ==
    /\ data' = [status |-> "error", count |-> n]
    /\ Serves("error")
    /\ dpc' = "response" /\ UNCHANGED dreq

\* Mutant: the sum is kept in a wider type than KsvCount's.
KsvCountWide(devices) == devices + 1

\* KsvCount is DownstreamInfo's device count and one, in eight bits.
KsvCount(devices) == (devices + 1) % CountRange

\* GetKsvList: the number of KSVs and the depth are found, tested and sent.
\* For a list of no KSVs, WriteData then sends nothing.
DispatchKsv ==
    /\ daemonOpen /\ dpc = "ksv"
    /\ \E devices \in 0 .. CountRange - 1 :
        LET n == KsvCount(devices)
            response == [status |-> "ok", count |-> n]
        IN \/ /\ n \in 1..MaxKsvCount
              /\ Sent(response, MessageSize)
              /\ data' = response /\ dpc' = "list"
              /\ UNCHANGED <<dreq, served>>
           \/ n = 0 /\ Sent(response, MessageSize) /\ Serves("ok") /\ NextRequest
           \/ n <= MaxKsvCount /\ NotSent("first") /\ Fails(n)
           \/ Fails(n) /\ UNCHANGED <<down, faults>>
    /\ UNCHANGED <<up, held>> /\ DaemonUnchanged

\* SendKsvListData.  If it fails, the loop sends a response after the one
\* that the application has had.
SendKsvListData ==
    /\ daemonOpen /\ dpc = "list"
    /\ \/ Sent(KsvList(dreq.by), data.count) /\ Serves("ok") /\ NextRequest
       \/ NotSent("list") /\ Fails(data.count)
    /\ UNCHANGED <<up, held>> /\ DaemonUnchanged

\* SendSRMData: the size is accepted, or refused by the loop's response.
DispatchSrm ==
    /\ daemonOpen /\ dpc = "srm"
    /\ \/ /\ dreq.body.arg <= MaxSrmSize
          /\ Sent([status |-> "ok", count |-> 0], MessageSize)
          /\ dpc' = "srmData"
          /\ UNCHANGED <<data, dreq, served>>
       \/ dreq.body.arg <= MaxSrmSize /\ NotSent("first") /\ Fails(0)
       \/ Fails(0) /\ UNCHANGED <<down, faults>>
    /\ UNCHANGED <<up, held>> /\ DaemonUnchanged

\* GetSrmData reads the size that was announced; then StoreSrm and the port
\* manager decide.
GetSrmData ==
    /\ daemonOpen /\ dpc = "srmData"
    /\ \/ /\ Available(up, dreq.body.arg)
          /\ up' = Rest(up, dreq.body.arg)
          /\ \E s \in IF Whole(up, dreq.body.arg, {Srm(dreq.by)}) THEN {"ok", "error"} ELSE {"error"} :
              /\ data' = [status |-> s, count |-> 0]
              /\ Serves(s)
       \/ /\ ~sdkOpen /\ ~Available(up, dreq.body.arg)
          /\ data' = [status |-> "error", count |-> 0]
          /\ Serves("error")
          /\ UNCHANGED up
    /\ dpc' = "response"
    /\ UNCHANGED <<down, dreq, held, faults>> /\ DaemonUnchanged

\* Mutant: the loop sends no response to a failed request.
ErrorNotSent ==
    /\ daemonOpen /\ dpc = "response"
    /\ data.status = "ok" => Sent(data, MessageSize)
    /\ data.status # "ok" => UNCHANGED <<down, faults>>
    /\ NextRequest
    /\ UNCHANGED <<up, held, served>> /\ DaemonUnchanged

\* The loop's SendResponse; if it fails, the references of the application go,
\* on ports that are connected.
SendResponse ==
    /\ daemonOpen /\ dpc = "response"
    /\ \/ Sent(data, MessageSize) /\ UNCHANGED held
       \/ NotSent("response") /\ held' \in {held, FALSE}
    /\ NextRequest
    /\ UNCHANGED <<up, served>> /\ DaemonUnchanged

-----------------------------------------------------------------------------
(***************************************************************************)
(* Either process may end at any time.                                     *)
(***************************************************************************)
SdkExits ==
    /\ sdkOpen /\ sdkOpen' = FALSE
    /\ UNCHANGED <<sdkVars, up, down, daemonVars, marks, daemonOpen, faults>>

DaemonExits ==
    /\ daemonOpen /\ daemonOpen' = FALSE
    /\ UNCHANGED <<sdkVars, up, down, daemonVars, marks, sdkOpen, faults>>

Thread(t) ==
    Request(t) \/ Reply(t) \/ ReceiveKsvList(t) \/ Stored(t) \/ Return(t)

Daemon ==
    \/ GetRequest \/ GetDestroy \/ DispatchQuery \/ DispatchSet \/ DispatchKsv
    \/ SendKsvListData \/ DispatchSrm \/ GetSrmData \/ SendResponse

Next ==
    \/ \E t \in Threads : Begin(t) \/ Thread(t)
    \/ Daemon \/ SdkExits \/ DaemonExits

Spec == Init /\ [][Next]_vars

\* The daemon runs, and so does a thread; m_SocketMutex may pass a thread over
\* as long as others take it, so it is strong fairness that lets each have it.
Fairness ==
    /\ WF_vars(Daemon)
    /\ \A t \in Threads : SF_vars(Thread(t))

FairSpec == Spec /\ Fairness

-----------------------------------------------------------------------------
(***************************************************************************)
(* Properties                                                              *)
(***************************************************************************)
TypeOK ==
    /\ pc \in [Threads -> {"idle", "request", "reply", "list", "stored", "return"}]
    /\ call \in [Threads -> Calls \cup {NoCall}]
    /\ request \in [Threads -> Calls \cup {NoCall}]
    /\ status \in [Threads -> {"ok", "error", "transaction"}]
    /\ expected \in [Threads -> 0 .. CountRange - 1]
    /\ mutex \in Threads \cup {NoThread}
    /\ dpc \in {"idle", "query", "set", "ksv", "list", "srm", "srmData", "response",
                "closed"}
    /\ data \in Responses
    /\ held \in BOOLEAN /\ protected \in BOOLEAN /\ overtaken \subseteq Threads
    /\ sdkOpen \in BOOLEAN /\ daemonOpen \in BOOLEAN
    /\ served \in [Threads -> {"no", "ok", "error"}]
    /\ faults \in 0..MaxFaults

\* The failing sends the code recovers from: a request, and the first of the two
\* answers of GetKsvList or SendSRMData.
Recovers == Faulty \subseteq {"request", "first"}

\* Between two transactions of a live connection both streams are empty and the
\* daemon waits for a request, whatever the calls before came to: an error in
\* the middle of GetKsvList or SendSRMData leaves nothing for the next call to
\* read.
StreamsInStep ==
    mutex = NoThread /\ sdkOpen /\ daemonOpen
        => up = <<>> /\ down = <<>> /\ dpc = "idle"

\* Once SetProtectionLevel has returned success for a level above 0, the
\* application has its reference until the daemon serves a level 0 after it, in
\* whatever order several threads set levels and whatever fails: an error is
\* never returned as a success, and the level 0 that follows a failure of one
\* thread undoes the success of another only if the daemon serves it later.
\* (That it then does undo it, the code does not prevent.)
SuccessHolds == protected /\ sdkOpen /\ daemonOpen => held

\* The session implements the service: every call returns the answer to its
\* own request, or that the transaction failed.
Service ==
    INSTANCE SessionService
        WITH answer <- [t \in Threads |-> IF pc[t] = "return" THEN Returned(t) ELSE "none"]

ImplementsService == Service!Spec

\* Every call returns, whichever process ends, unless it is the application's.
CallReturns ==
    \A t \in Threads : pc[t] # "idle" ~> pc[t] = "idle" \/ ~sdkOpen

=============================================================================

------------------------ MODULE SessionProtocolProofs ------------------------
EXTENDS SessionProtocol, TLAPS, SequenceTheorems

-----------------------------------------------------------------------------
(***************************************************************************)
(* The streams                                                             *)
(***************************************************************************)

\* A piece read from the head of a stream is the piece that was sent, and what
\* follows it stays.
LEMMA PieceRead ==
    ASSUME NEW m, NEW n \in Nat \ {0}, NEW S, NEW rest \in Seq(S), NEW kind,
           \A i \in 1..n : [msg |-> m, at |-> i, size |-> n] \in S
    PROVE  LET s == Chunk(m, n) \o rest
           IN /\ s[1].msg = m
              /\ Available(s, n)
              /\ Rest(s, n) = rest
              /\ m \in kind => Whole(s, n, kind)
<1>1. Chunk(m, n) \in Seq(S) /\ Len(Chunk(m, n)) = n
  BY DEF Chunk
<1>. DEFINE s == Chunk(m, n) \o rest
<1>2. s \in Seq(S) /\ Len(s) = n + Len(rest)
  BY <1>1
<1>3. \A i \in 1..n : s[i] = [msg |-> m, at |-> i, size |-> n]
  BY <1>1 DEF Chunk
<1>4. \A i \in 1 .. Len(rest) : s[n + i] = rest[i]
  BY <1>1
<1>5. s[1].msg = m
  <2>. HIDE DEF s
  <2>1. 1 \in 1..n
    OBVIOUS
  <2>2. s[1] = [msg |-> m, at |-> 1, size |-> n]
    BY <1>3, <2>1, Zenon
  <2>. QED  BY <2>2
<1>6. SubSeq(s, 1, n) = Chunk(m, n)
  <2>1. SubSeq(s, 1, n) \in Seq(S) /\ Len(SubSeq(s, 1, n)) = n
    BY <1>2
  <2>2. \A i \in 1..n : SubSeq(s, 1, n)[i] = Chunk(m, n)[i]
    BY <1>2, <1>3 DEF Chunk
  <2>3. \A i \in 1 .. Len(SubSeq(s, 1, n)) : SubSeq(s, 1, n)[i] = Chunk(m, n)[i]
    BY <2>1, <2>2
  <2>. HIDE DEF s
  <2>. QED  BY <1>1, <2>1, <2>3, SeqEqual
<1>7. SubSeq(s, n + 1, Len(s)) = rest
  BY <1>2, <1>4
<1>. QED  BY <1>2, <1>5, <1>6, <1>7 DEF Available, Rest, Whole

\* The same for a stream of one piece...
LEMMA OnePiece ==
    ASSUME NEW m, NEW n \in Nat \ {0}, NEW kind
    PROVE  /\ Chunk(m, n)[1].msg = m
           /\ Available(Chunk(m, n), n)
           /\ Rest(Chunk(m, n), n) = <<>>
           /\ m \in kind => Whole(Chunk(m, n), n, kind)
           /\ <<>> \o Chunk(m, n) = Chunk(m, n)
           /\ Chunk(m, n) # <<>>
<1>. DEFINE S == {[msg |-> m, at |-> i, size |-> n] : i \in 1..n}
<1>1. Chunk(m, n) \in Seq(S) /\ Len(Chunk(m, n)) = n
  BY DEF Chunk
<1>2. Chunk(m, n) \o <<>> = Chunk(m, n) /\ <<>> \o Chunk(m, n) = Chunk(m, n)
  BY <1>1, ConcatEmptySeq
<1>3. <<>> \in Seq(S) /\ \A i \in 1..n : [msg |-> m, at |-> i, size |-> n] \in S
  OBVIOUS
<1>. HIDE DEF S
<1>4. LET s == Chunk(m, n) \o <<>>
      IN /\ s[1].msg = m
         /\ Available(s, n)
         /\ Rest(s, n) = <<>>
         /\ m \in kind => Whole(s, n, kind)
  BY <1>3, PieceRead
<1>. QED  BY <1>1, <1>2, <1>4

\* ... and for two.
LEMMA TwoPieces ==
    ASSUME NEW m, NEW n \in Nat \ {0}, NEW m2, NEW n2 \in Nat \ {0}, NEW kind
    PROVE  LET s == Chunk(m, n) \o Chunk(m2, n2)
           IN /\ s[1].msg = m
              /\ Available(s, n)
              /\ Rest(s, n) = Chunk(m2, n2)
              /\ m \in kind => Whole(s, n, kind)
<1>. DEFINE S == {[msg |-> m, at |-> i, size |-> n] : i \in 1..n}
                   \cup {[msg |-> m2, at |-> i, size |-> n2] : i \in 1..n2}
<1>1. Chunk(m2, n2) \in Seq(S)
  BY DEF Chunk
<1>2. \A i \in 1..n : [msg |-> m, at |-> i, size |-> n] \in S
  OBVIOUS
<1>. HIDE DEF S
<1>. QED  BY <1>1, <1>2, PieceRead

\* An empty stream has nothing to read.
LEMMA NothingAvailable ==
    ASSUME NEW n \in Nat \ {0}
    PROVE  ~Available(<<>>, n)
BY DEF Available

\* What the proofs need to know of the calls.
LEMMA CallFacts ==
    /\ \A c \in Calls :
        /\ c.cmd \in {"query", "ksv", "set", "srm"}
        /\ c.cmd = "srm" => c.arg \in Nat \ {0}
    /\ LevelZero \in Calls /\ LevelZero.cmd = "set" /\ LevelZero.arg = 0
    /\ NoCall \notin Calls
BY SizesAssumption, NoCallAssumption, LevelsAssumption DEF Calls, LevelZero

-----------------------------------------------------------------------------
(***************************************************************************)
(* The inductive invariant                                                 *)
(***************************************************************************)

\* The thread transacts the request of its call, not the level 0 after it.
Own(t) == request[t] = call[t]

\* What each thread has of its call.  The status of a call that is through its
\* own transaction is what the daemon did, unless the transaction failed.
ThreadOK(t) ==
    /\ pc[t] = "idle" => call[t] = NoCall /\ request[t] = NoCall /\ served[t] = "no"
    /\ pc[t] # "idle" =>
        /\ call[t] \in Calls /\ request[t] \in Calls
        /\ \/ Own(t)
           \/ request[t] = LevelZero /\ call[t].cmd = "set" /\ call[t].arg # 0
    /\ pc[t] \in {"reply", "list", "stored"} <=> mutex = t
    /\ pc[t] = "list" => request[t].cmd = "ksv" /\ expected[t] \in 1..MaxKsvCount
    /\ pc[t] = "stored" => request[t].cmd = "srm"
    /\ pc[t] = "request" /\ Own(t) => served[t] = "no"
    /\ pc[t] = "return" \/ (pc[t] # "idle" /\ ~Own(t)) =>
        \/ status[t] = "transaction" \/ status[t] = served[t]
        \/ call[t].cmd = "query" /\ status[t] = "error" /\ served[t] # "no"

ThreadInv == \A t \in Threads : ThreadOK(t)

\* A transaction of the call of t may come to s.
Agrees(t, s) ==
    \/ s = "transaction" \/ s = served[t]
    \/ call[t].cmd = "query" /\ s = "error" /\ served[t] # "no"

\* What a live daemon has read and where it is, and what a live application has
\* to read.
DaemonAt(stream, places) == daemonOpen => up = stream /\ dpc \in places
ToRead(stream) == sdkOpen => down = stream

RequestOf(t) == [by |-> t, body |-> request[t]]
Serving(t) == daemonOpen => dreq = RequestOf(t)
Unserved(t) == Own(t) => served[t] = "no"
ServedAs(t, s) == Own(t) => served[t] = s

\* No transaction is under way.
Quiet == DaemonAt(<<>>, {"idle", "closed"}) /\ ToRead(<<>>)

\* The transaction of t, from the request to the last answer.
Requested(t) ==
    /\ pc[t] = "reply" /\ Unserved(t)
    /\ DaemonAt(Chunk(RequestOf(t), MessageSize), {"idle"}) /\ ToRead(<<>>)

Dispatched(t) ==
    /\ pc[t] = "reply" /\ Unserved(t) /\ Serving(t)
    /\ DaemonAt(<<>>, {request[t].cmd}) /\ ToRead(<<>>)

Responding(t) ==
    /\ pc[t] = "list" => ~sdkOpen
    /\ ServedAs(t, data.status) /\ Serving(t)
    /\ request[t].cmd \in {"ksv", "srm"} /\ pc[t] = "reply" => data.status = "error"
    /\ DaemonAt(<<>>, {"response"}) /\ ToRead(<<>>)

Responded(t) ==
    /\ DaemonAt(<<>>, {"idle", "closed"})
    /\ sdkOpen =>
        /\ pc[t] # "list"
        /\ \E m \in Responses :
            /\ down = Chunk(m, MessageSize) /\ ServedAs(t, m.status)
            /\ request[t].cmd = "ksv" => m.status = "error" \/ m.count = 0
            /\ request[t].cmd = "srm" /\ pc[t] = "reply" => m.status = "error"

CountSent(t) ==
    /\ pc[t] = "reply" /\ request[t].cmd = "ksv" /\ Unserved(t) /\ Serving(t)
    /\ data.status = "ok" /\ data.count \in 1..MaxKsvCount
    /\ DaemonAt(<<>>, {"list"}) /\ ToRead(Chunk(data, MessageSize))

CountAndListSent(t) ==
    /\ pc[t] = "reply" /\ request[t].cmd = "ksv" /\ ServedAs(t, "ok")
    /\ DaemonAt(<<>>, {"idle", "closed"})
    /\ sdkOpen =>
        \E n \in 1..MaxKsvCount :
            down = Chunk([status |-> "ok", count |-> n], MessageSize)
                    \o Chunk(KsvList(t), n)

CountRead(t) ==
    /\ pc[t] = "list" /\ Unserved(t) /\ Serving(t)
    /\ data.count = expected[t]
    /\ DaemonAt(<<>>, {"list"}) /\ ToRead(<<>>)

ListSent(t) ==
    /\ pc[t] = "list" /\ ServedAs(t, "ok")
    /\ DaemonAt(<<>>, {"idle", "closed"})
    /\ ToRead(Chunk(KsvList(t), expected[t]))

SizeAccepted(t) ==
    /\ pc[t] = "reply" /\ request[t].cmd = "srm" /\ Unserved(t) /\ Serving(t)
    /\ DaemonAt(<<>>, {"srmData"})
    /\ ToRead(Chunk([status |-> "ok", count |-> 0], MessageSize))

SrmSent(t) ==
    /\ pc[t] = "stored" /\ Unserved(t) /\ Serving(t)
    /\ DaemonAt(Chunk(Srm(t), request[t].arg), {"srmData"}) /\ ToRead(<<>>)

Transaction(t) ==
    \/ Requested(t) \/ Dispatched(t) \/ Responding(t) \/ Responded(t)
    \/ CountSent(t) \/ CountAndListSent(t) \/ CountRead(t) \/ ListSent(t)
    \/ SizeAccepted(t) \/ SrmSent(t)

StreamInv ==
    /\ mutex = NoThread => Quiet
    /\ mutex # NoThread => Transaction(mutex)
    /\ dpc = "closed" => ~sdkOpen

Inv == TypeOK /\ ThreadInv /\ StreamInv

-----------------------------------------------------------------------------
(***************************************************************************)
(* The steps of the SDK                                                    *)
(***************************************************************************)

\* A transaction that ends leaves the thread with a status that is the
\* daemon's, or "transaction".
LEMMA FinishKeeps ==
    ASSUME TypeOK, ThreadInv, NEW t \in Threads,
           NEW s \in {"ok", "error", "transaction"},
           pc[t] # "idle", mutex \in {t, NoThread},
           Own(t) => Agrees(t, s),
           Finish(t, s), UNCHANGED <<call, served>>,
           \A u \in Threads \ {t} : expected'[u] = expected[u]
    PROVE  /\ ThreadInv' /\ mutex' = NoThread
           /\ pc' \in [Threads -> {"idle", "request", "reply", "list", "stored", "return"}]
           /\ request' \in [Threads -> Calls \cup {NoCall}]
           /\ status' \in [Threads -> {"ok", "error", "transaction"}]
<1>1. /\ mutex' = NoThread
      /\ pc' \in [Threads -> {"idle", "request", "reply", "list", "stored", "return"}]
      /\ request' \in [Threads -> Calls \cup {NoCall}]
      /\ status' \in [Threads -> {"ok", "error", "transaction"}]
  BY CallFacts DEF TypeOK, Finish
<1>2. ASSUME NEW u \in Threads \ {t}
      PROVE  /\ pc'[u] = pc[u] /\ call'[u] = call[u] /\ request'[u] = request[u]
             /\ served'[u] = served[u] /\ status'[u] = status[u]
             /\ expected'[u] = expected[u]
             /\ mutex # u /\ mutex' # u
  BY ThreadsAssumption DEF TypeOK, Finish
<1>3. /\ pc'[t] \in {"request", "return"} /\ call'[t] = call[t] /\ served'[t] = served[t]
      /\ Own(t) => \/ request'[t] = request[t] /\ status'[t] = s /\ pc'[t] = "return"
                   \/ /\ request'[t] = LevelZero /\ status'[t] = s
                      /\ call[t].cmd = "set" /\ call[t].arg # 0
      /\ ~Own(t) => request'[t] = request[t] /\ status'[t] = status[t] /\ pc'[t] = "return"
  BY DEF TypeOK, Finish, Own
<1>4. LevelZero # call[t] \/ (call[t].cmd = "set" /\ call[t].arg = 0)
  BY CallFacts
<1>5. ASSUME NEW u \in Threads
      PROVE  ThreadOK(u)'
  <2>1. CASE u = t
    BY <1>1, <1>3, <1>4, <2>1, CallFacts, ThreadsAssumption DEF ThreadInv, ThreadOK, Own, Agrees
  <2>2. CASE u # t
    BY <1>1, <1>2, <2>2 DEF ThreadInv, ThreadOK, Own
  <2>. QED  BY <2>1, <2>2
<1>. QED  BY <1>1, <1>5 DEF ThreadInv

\* A step that leaves the streams, the daemon and the thread with the mutex
\* alone leaves their relation alone.
LEMMA StreamKept ==
    ASSUME TypeOK, StreamInv,
           UNCHANGED <<mutex, up, down, dpc, dreq, data, sdkOpen, daemonOpen>>,
           mutex # NoThread =>
             /\ pc'[mutex] = pc[mutex] /\ call'[mutex] = call[mutex]
             /\ request'[mutex] = request[mutex] /\ served'[mutex] = served[mutex]
             /\ expected'[mutex] = expected[mutex]
    PROVE  StreamInv'
<1>1. CASE mutex = NoThread
  BY <1>1 DEF StreamInv, Quiet, DaemonAt, ToRead
<1>2. CASE mutex # NoThread
  <2>. DEFINE t == mutex
  <2>1. /\ pc'[t] = pc[t] /\ call'[t] = call[t] /\ request'[t] = request[t]
        /\ served'[t] = served[t] /\ expected'[t] = expected[t]
        /\ Own(t)' = Own(t) /\ Unserved(t)' = Unserved(t)
        /\ RequestOf(t)' = RequestOf(t) /\ Serving(t)' = Serving(t)
    BY <1>2 DEF Own, Unserved, RequestOf, Serving
  <2>2. Transaction(t)
    BY <1>2 DEF StreamInv
  <2>. QED
    BY <1>2, <2>1, <2>2
    DEF StreamInv, Transaction, Requested, Dispatched, Responding, Responded,
        CountSent, CountAndListSent, CountRead, ListSent, SizeAccepted, SrmSent,
        DaemonAt, ToRead, ServedAs, Own, Unserved, Serving, RequestOf
<1>. QED  BY <1>1, <1>2

\* A thread that calls the SDK is not yet in a transaction.
LEMMA BeginStep ==
    ASSUME Inv, NEW t \in Threads, Begin(t)
    PROVE  Inv'
<1>. USE DEF Inv, SdkUnchanged, sdkVars, daemonVars, marks
<1>1. TypeOK'
  BY DEF Begin, TypeOK
<1>2. mutex # t
  BY DEF Begin, ThreadInv, ThreadOK
<1>3. ASSUME NEW u \in Threads  PROVE ThreadOK(u)'
  <2>1. CASE u = t
    BY <1>2, <2>1, CallFacts DEF Begin, TypeOK, ThreadInv, ThreadOK, Own
  <2>2. CASE u # t
    BY <2>2 DEF Begin, TypeOK, ThreadInv, ThreadOK, Own
  <2>. QED  BY <2>1, <2>2
<1>4. StreamInv'
  <2>1. UNCHANGED <<mutex, up, down, dpc, dreq, data, sdkOpen, daemonOpen>>
    BY DEF Begin
  <2>2. mutex # NoThread =>
             /\ pc'[mutex] = pc[mutex] /\ call'[mutex] = call[mutex]
             /\ request'[mutex] = request[mutex] /\ served'[mutex] = served[mutex]
             /\ expected'[mutex] = expected[mutex]
    BY <1>2 DEF Begin, TypeOK
  <2>. QED  BY <2>1, <2>2, StreamKept
<1>. QED  BY <1>1, <1>3, <1>4 DEF ThreadInv

\* A thread returns between two transactions.
LEMMA ReturnStep ==
    ASSUME Inv, NEW t \in Threads, Return(t)
    PROVE  Inv'
<1>. USE DEF Inv
<1>1. TypeOK'
  <2>1. protected' \in BOOLEAN
    <3>1. CASE call[t].cmd = "set"
      BY <3>1 DEF Return
    <3>2. CASE call[t].cmd # "set"
      BY <3>2 DEF Return, TypeOK
    <3>. QED  BY <3>1, <3>2
  <2>. QED  BY <2>1, SizesAssumption DEF Return, TypeOK
<1>2. mutex # t
  BY DEF Return, ThreadInv, ThreadOK
<1>3. ASSUME NEW u \in Threads  PROVE ThreadOK(u)'
  BY <1>2 DEF Return, TypeOK, ThreadInv, ThreadOK, Own
<1>4. StreamInv'
  <2>1. UNCHANGED <<mutex, up, down, dpc, dreq, data, sdkOpen, daemonOpen>>
    BY DEF Return
  <2>2. mutex # NoThread =>
             /\ pc'[mutex] = pc[mutex] /\ call'[mutex] = call[mutex]
             /\ request'[mutex] = request[mutex] /\ served'[mutex] = served[mutex]
             /\ expected'[mutex] = expected[mutex]
    BY <1>2 DEF Return, TypeOK
  <2>. QED  BY <2>1, <2>2, StreamKept
<1>. QED  BY <1>1, <1>3, <1>4 DEF ThreadInv

\* A request is sent with the mutex held, into empty streams, or not sent at all.
LEMMA RequestStep ==
    ASSUME Recovers, Inv, NEW t \in Threads, Request(t)
    PROVE  Inv'
<1>. USE DEF Inv
<1>1. /\ pc[t] = "request" /\ mutex = NoThread /\ sdkOpen
      /\ UNCHANGED <<call, expected, protected, overtaken, down, dpc, dreq, data, held, served,
                    sdkOpen, daemonOpen>>
  BY DEF Request, SdkUnchanged, daemonVars, marks
<1>2. Quiet
  BY <1>1 DEF StreamInv
<1>3. CASE /\ daemonOpen
           /\ up' = up \o Chunk(RequestOf(t), MessageSize)
           /\ mutex' = t /\ pc' = [pc EXCEPT ![t] = "reply"]
           /\ UNCHANGED <<status, request, faults>>
  <2>1. TypeOK'
    BY <1>1, <1>3 DEF TypeOK
  <2>2. ASSUME NEW u \in Threads  PROVE ThreadOK(u)'
    BY <1>1, <1>3, ThreadsAssumption DEF TypeOK, ThreadInv, ThreadOK, Own
  <2>3. up' = Chunk(RequestOf(t), MessageSize)
    BY <1>1, <1>2, <1>3, OnePiece, SizesAssumption DEF Quiet, DaemonAt
  <2>4. Requested(t)'
    BY <1>1, <1>2, <1>3, <2>3
    DEF TypeOK, ThreadInv, ThreadOK, StreamInv, Quiet, DaemonAt, ToRead, Requested, Unserved, Own,
        RequestOf
  <2>. QED
    BY <1>1, <1>3, <2>1, <2>2, <2>4, ThreadsAssumption
    DEF ThreadInv, StreamInv, Transaction
<1>4. CASE Finish(t, "transaction") /\ UNCHANGED up /\ faults' \in 0..MaxFaults
  <2>1. /\ ThreadInv' /\ mutex' = NoThread
        /\ pc' \in [Threads -> {"idle", "request", "reply", "list", "stored", "return"}]
        /\ request' \in [Threads -> Calls \cup {NoCall}]
        /\ status' \in [Threads -> {"ok", "error", "transaction"}]
    BY <1>1, <1>4, FinishKeeps DEF Agrees
  <2>2. TypeOK'
    BY <1>1, <1>4, <2>1 DEF TypeOK
  <2>3. StreamInv'
    BY <1>1, <1>2, <1>4, <2>1 DEF StreamInv, Quiet, DaemonAt, ToRead
  <2>. QED  BY <2>1, <2>2, <2>3
<1>5. /\ faults \in 0..MaxFaults
      /\ UNCHANGED faults \/ Fault("request") => faults' \in 0..MaxFaults
  BY FaultyAssumption DEF Fault, TypeOK
<1>. HIDE DEF Inv
<1>. QED  BY <1>3, <1>4, <1>5 DEF Request, RequestOf

\* A thread that waits for an answer has the mutex, and what is in the streams
\* is its transaction's.
LEMMA Waiting ==
    ASSUME Inv, NEW t \in Threads, pc[t] \in {"reply", "list", "stored"}
    PROVE  /\ mutex = t /\ Transaction(t)
           /\ call[t] \in Calls /\ request[t] \in Calls
BY ThreadsAssumption DEF Inv, ThreadInv, ThreadOK, StreamInv

\* The end of a transaction that leaves nothing behind.
LEMMA FinishStep ==
    ASSUME Inv, NEW t \in Threads, NEW s \in {"ok", "error", "transaction"},
           pc[t] \in {"reply", "list", "stored"},
           Own(t) => Agrees(t, s),
           Finish(t, s),
           UNCHANGED <<call, protected, overtaken, dpc, dreq, data, held, served, sdkOpen,
                       daemonOpen, faults, up>>,
           expected' \in [Threads -> 0 .. CountRange - 1],
           \A u \in Threads \ {t} : expected'[u] = expected[u],
           DaemonAt(<<>>, {"idle", "closed"}), down' = <<>>
    PROVE  Inv'
<1>1. mutex = t
  BY Waiting
<1>2. /\ ThreadInv' /\ mutex' = NoThread
      /\ pc' \in [Threads -> {"idle", "request", "reply", "list", "stored", "return"}]
      /\ request' \in [Threads -> Calls \cup {NoCall}]
      /\ status' \in [Threads -> {"ok", "error", "transaction"}]
  BY <1>1, FinishKeeps DEF Inv
<1>3. TypeOK'
  BY <1>2 DEF Inv, TypeOK
<1>4. StreamInv'
  BY <1>2 DEF Inv, StreamInv, Quiet, DaemonAt, ToRead
<1>. QED  BY <1>2, <1>3, <1>4 DEF Inv

\* The thread that reads a response is the one the daemon answered.
LEMMA ReplyStep ==
    ASSUME Recovers, Inv, NEW t \in Threads, Reply(t)
    PROVE  Inv'
<1>. DEFINE M == MessageSize
<1>0. M \in Nat \ {0}
  BY SizesAssumption
<1>1. /\ sdkOpen /\ pc[t] = "reply"
      /\ UNCHANGED <<call, protected, overtaken, dpc, dreq, data, held, served, sdkOpen, daemonOpen>>
  BY DEF Reply, SdkUnchanged, daemonVars, marks
<1>2. mutex = t /\ Transaction(t) /\ call[t] \in Calls /\ request[t] \in Calls
  BY <1>1, Waiting
<1>3. CASE down = <<>>
  <2>1. ~daemonOpen /\ Finish(t, "transaction") /\ UNCHANGED <<expected, up, down, faults>>
    BY <1>0, <1>3, NothingAvailable DEF Reply, Cut
  <2>. QED  BY <1>1, <1>3, <2>1, FinishStep DEF Inv, TypeOK, DaemonAt, Agrees
<1>4. ASSUME NEW m \in Responses, Available(down, M), Whole(down, M, Responses),
             down[1].msg = m
      PROVE  /\ down' = Rest(down, M)
             /\ expected' = [expected EXCEPT ![t] =
                    IF request[t].cmd = "ksv" /\ m.status = "ok" THEN m.count ELSE 0]
             /\ IF m.status = "ok" /\ request[t].cmd = "ksv" /\ m.count \in 1..MaxKsvCount
                THEN ReceiveList(t)
                ELSE IF m.status = "ok" /\ request[t].cmd = "srm"
                THEN SendSrm(t)
                ELSE /\ \E o \in Outcomes(request[t].cmd, m.status) : Finish(t, o)
                     /\ UNCHANGED <<up, faults>>
  BY <1>4 DEF Reply, Cut, Read
<1>5. \A m \in Responses : m.status \in {"ok", "error"} /\ m.count \in 0 .. CountRange - 1
  BY DEF Responses
<1>6. CASE Responded(t)
  <2>1. PICK m \in Responses :
            /\ down = Chunk(m, M) /\ ServedAs(t, m.status)
            /\ request[t].cmd = "ksv" => m.status = "error" \/ m.count = 0
            /\ request[t].cmd = "srm" => m.status = "error"
    BY <1>1, <1>6 DEF Responded
  <2>2. /\ Available(down, M) /\ Whole(down, M, Responses) /\ down[1].msg = m
        /\ Rest(down, M) = <<>>
    BY <1>0, <2>1, OnePiece
  <2>3. /\ down' = <<>> /\ UNCHANGED <<up, faults>>
        /\ \E s \in Outcomes(request[t].cmd, m.status) : Finish(t, s)
        /\ expected' \in [Threads -> 0 .. CountRange - 1]
        /\ \A u \in Threads \ {t} : expected'[u] = expected[u]
    BY <1>4, <1>5, <2>1, <2>2, SizesAssumption DEF Inv, TypeOK
  <2>4. PICK s \in Outcomes(request[t].cmd, m.status) : Finish(t, s)
    BY <2>3
  <2>5. s \in {"ok", "error", "transaction"} /\ (Own(t) => Agrees(t, s))
    BY <1>5, <2>1, <2>4 DEF ServedAs, Outcomes, Own, Agrees
  <2>6. DaemonAt(<<>>, {"idle", "closed"})
    BY <1>6 DEF Responded
  <2>. QED  BY <1>1, <2>3, <2>4, <2>5, <2>6, FinishStep
<1>7. CASE CountSent(t)
  <2>1. down = Chunk(data, M) /\ data \in Responses /\ data.status = "ok"
          /\ data.count \in 1..MaxKsvCount /\ request[t].cmd = "ksv"
    BY <1>1, <1>7 DEF CountSent, ToRead, Inv, TypeOK
  <2>2. /\ Available(down, M) /\ Whole(down, M, Responses) /\ down[1].msg = data
        /\ Rest(down, M) = <<>>
    BY <1>0, <2>1, OnePiece
  <2>3. /\ down' = <<>> /\ expected' = [expected EXCEPT ![t] = data.count]
        /\ ReceiveList(t)
    BY <1>4, <2>1, <2>2
  <2>4. TypeOK'
    BY <1>1, <1>5, <2>1, <2>3 DEF Inv, TypeOK, ReceiveList
  <2>5. ASSUME NEW u \in Threads  PROVE ThreadOK(u)'
    BY <1>1, <1>2, <2>1, <2>3 DEF Inv, TypeOK, ReceiveList, ThreadInv, ThreadOK, Own
  <2>6. CountRead(t)'
    BY <1>1, <1>7, <2>1, <2>3
    DEF CountSent, CountRead, ReceiveList, Inv, TypeOK, Unserved, Own, Serving, RequestOf,
        DaemonAt, ToRead
  <2>. QED
    BY <1>1, <1>2, <2>3, <2>4, <2>5, <2>6, ThreadsAssumption
    DEF Inv, ThreadInv, StreamInv, Transaction, ReceiveList
<1>8. CASE CountAndListSent(t)
  <2>1. PICK n \in 1..MaxKsvCount :
            down = Chunk([status |-> "ok", count |-> n], M) \o Chunk(KsvList(t), n)
    BY <1>1, <1>8 DEF CountAndListSent
  <2>. DEFINE m == [status |-> "ok", count |-> n]
  <2>2. m \in Responses /\ m.status = "ok" /\ m.count = n /\ n \in Nat \ {0}
    BY SizesAssumption DEF Responses
  <2>. HIDE DEF m
  <2>3. down = Chunk(m, M) \o Chunk(KsvList(t), n)
    BY <2>1 DEF m
  <2>4. /\ Available(down, M) /\ Whole(down, M, Responses) /\ down[1].msg = m
        /\ Rest(down, M) = Chunk(KsvList(t), n)
    <3>1. LET s == Chunk(m, M) \o Chunk(KsvList(t), n)
          IN /\ s[1].msg = m
             /\ Available(s, M)
             /\ Rest(s, M) = Chunk(KsvList(t), n)
             /\ m \in Responses => Whole(s, M, Responses)
      <4>1. MessageSize \in Nat \ {0} /\ n \in Nat \ {0}
        BY <1>0, <2>2
      <4>. HIDE DEF M
      <4>. QED  BY <4>1, TwoPieces DEF M
    <3>. QED  BY <2>2, <2>3, <3>1, Zenon
  <2>5. /\ down' = Chunk(KsvList(t), n) /\ expected' = [expected EXCEPT ![t] = n]
        /\ ReceiveList(t) /\ request[t].cmd = "ksv"
    BY <1>4, <1>8, <2>2, <2>4 DEF CountAndListSent
  <2>6. TypeOK'
    BY <1>1, <2>5, SizesAssumption DEF Inv, TypeOK, ReceiveList
  <2>7. ASSUME NEW u \in Threads  PROVE ThreadOK(u)'
    BY <1>1, <1>2, <2>5 DEF Inv, TypeOK, ReceiveList, ThreadInv, ThreadOK, Own
  <2>8. ListSent(t)'
    BY <1>1, <1>8, <2>5
    DEF CountAndListSent, ListSent, ReceiveList, Inv, TypeOK, ServedAs, Own, DaemonAt,
        ToRead, KsvList
  <2>. QED
    BY <1>1, <1>2, <2>5, <2>6, <2>7, <2>8, ThreadsAssumption
    DEF Inv, ThreadInv, StreamInv, Transaction, ReceiveList
<1>9. CASE SizeAccepted(t)
  <2>. DEFINE m == [status |-> "ok", count |-> 0]
  <2>1. m \in Responses /\ m.status = "ok" /\ m.count = 0
    BY SizesAssumption DEF Responses
  <2>. HIDE DEF m
  <2>2. down = Chunk(m, M) /\ request[t].cmd = "srm"
    BY <1>1, <1>9 DEF SizeAccepted, ToRead, m
  <2>3. /\ Available(down, M) /\ Whole(down, M, Responses) /\ down[1].msg = m
        /\ Rest(down, M) = <<>>
    BY <1>0, <2>1, <2>2, OnePiece
  <2>4. down' = <<>> /\ expected' = [expected EXCEPT ![t] = 0] /\ SendSrm(t)
    BY <1>4, <2>1, <2>2, <2>3
  <2>5. CASE /\ daemonOpen
             /\ up' = up \o Chunk(Srm(t), request[t].arg)
             /\ pc' = [pc EXCEPT ![t] = "stored"]
             /\ UNCHANGED <<mutex, status, request, faults>>
    <3>1. TypeOK'
      BY <1>1, <2>4, <2>5, SizesAssumption DEF Inv, TypeOK
    <3>2. ASSUME NEW u \in Threads  PROVE ThreadOK(u)'
      BY <1>1, <1>2, <2>2, <2>4, <2>5 DEF Inv, TypeOK, ThreadInv, ThreadOK, Own
    <3>3. up' = Chunk(Srm(t), request[t].arg)
      <4>1. up = <<>>
        BY <1>9, <2>5 DEF SizeAccepted, DaemonAt
      <4>2. request[t].arg \in Nat \ {0}
        BY <1>2, <2>2, CallFacts
      <4>3. <<>> \o Chunk(Srm(t), request[t].arg) = Chunk(Srm(t), request[t].arg)
        BY <4>2, OnePiece
      <4>. QED  BY <2>5, <4>1, <4>3
    <3>4. SrmSent(t)'
      BY <1>1, <1>9, <2>4, <2>5, <3>3
      DEF SizeAccepted, SrmSent, Inv, TypeOK, Unserved, Own, Serving, RequestOf,
          DaemonAt, ToRead, Srm
    <3>. QED
      BY <1>1, <1>2, <2>5, <3>1, <3>2, <3>4, ThreadsAssumption
      DEF Inv, ThreadInv, StreamInv, Transaction
  <2>6. CASE Finish(t, "transaction") /\ UNCHANGED <<up, faults>> /\ ~daemonOpen
    <3>1. /\ expected' \in [Threads -> 0 .. CountRange - 1]
          /\ \A u \in Threads \ {t} : expected'[u] = expected[u]
      BY <2>4, SizesAssumption DEF Inv, TypeOK
    <3>2. DaemonAt(<<>>, {"idle", "closed"})
      BY <2>6 DEF DaemonAt
    <3>. QED  BY <1>1, <2>4, <2>6, <3>1, <3>2, FinishStep DEF Agrees
  <2>. QED  BY <2>4, <2>5, <2>6 DEF SendSrm, Fault, Recovers
<1>. QED
  BY <1>1, <1>2, <1>3, <1>6, <1>7, <1>8, <1>9
  DEF Transaction, Requested, Dispatched, Responding, CountRead, ListSent, SrmSent, ToRead

\* The KSV list is read in the length the response announced.
LEMMA ReceiveKsvListStep ==
    ASSUME Inv, NEW t \in Threads, ReceiveKsvList(t)
    PROVE  Inv'
<1>1. /\ sdkOpen /\ pc[t] = "list"
      /\ UNCHANGED <<call, protected, overtaken, dpc, dreq, data, held, served, sdkOpen, daemonOpen,
                    expected, up, faults>>
  BY DEF ReceiveKsvList, SdkUnchanged, daemonVars, marks
<1>2. mutex = t /\ Transaction(t) /\ expected[t] \in Nat \ {0} /\ request[t] = call[t]
  BY <1>1, Waiting, SizesAssumption, CallFacts DEF Inv, ThreadInv, ThreadOK, Own
<1>3. CASE down = <<>>
  <2>1. ~daemonOpen /\ Finish(t, "transaction") /\ UNCHANGED down
    BY <1>2, <1>3, NothingAvailable DEF ReceiveKsvList, Cut
  <2>. QED  BY <1>1, <1>3, <2>1, FinishStep DEF Inv, TypeOK, DaemonAt, Agrees
<1>4. CASE ListSent(t)
  <2>1. down = Chunk(KsvList(t), expected[t])
    BY <1>1, <1>4 DEF ListSent, ToRead
  <2>2. Available(down, expected[t]) /\ Rest(down, expected[t]) = <<>>
    BY <1>2, <2>1, OnePiece
  <2>3. Finish(t, "ok") /\ down' = <<>>
    BY <2>2 DEF ReceiveKsvList, Cut
  <2>4. DaemonAt(<<>>, {"idle", "closed"}) /\ (Own(t) => served[t] = "ok")
    BY <1>4 DEF ListSent, ServedAs
  <2>. QED  BY <1>1, <2>3, <2>4, FinishStep DEF Inv, TypeOK, Agrees
<1>. QED
  BY <1>1, <1>2, <1>3, <1>4
  DEF Transaction, Requested, Dispatched, Responding, Responded, CountSent,
      CountAndListSent, CountRead, SizeAccepted, SrmSent, ToRead

\* After the SRM was sent, the response that is read is the one to its bytes.
LEMMA StoredStep ==
    ASSUME Inv, NEW t \in Threads, Stored(t)
    PROVE  Inv'
<1>0. MessageSize \in Nat \ {0}
  BY SizesAssumption
<1>1. /\ sdkOpen /\ pc[t] = "stored"
      /\ UNCHANGED <<call, protected, overtaken, dpc, dreq, data, held, served, sdkOpen, daemonOpen,
                    expected, up, faults>>
  BY DEF Stored, SdkUnchanged, daemonVars, marks
<1>2. mutex = t /\ Transaction(t)
  BY <1>1, Waiting
<1>3. CASE down = <<>>
  <2>1. ~daemonOpen /\ Finish(t, "transaction") /\ UNCHANGED down
    BY <1>0, <1>3, NothingAvailable DEF Stored, Cut
  <2>. QED  BY <1>1, <1>3, <2>1, FinishStep DEF Inv, TypeOK, DaemonAt, Agrees
<1>4. CASE Responded(t)
  <2>1. PICK m \in Responses : down = Chunk(m, MessageSize) /\ ServedAs(t, m.status)
    BY <1>1, <1>4 DEF Responded
  <2>2. /\ Available(down, MessageSize) /\ Whole(down, MessageSize, Responses)
        /\ down[1].msg = m /\ Rest(down, MessageSize) = <<>>
    BY <1>0, <2>1, OnePiece
  <2>3. Finish(t, m.status) /\ down' = <<>>
    BY <2>2 DEF Stored, Cut, Read
  <2>4. /\ m.status \in {"ok", "error", "transaction"} /\ (Own(t) => m.status = served[t])
        /\ DaemonAt(<<>>, {"idle", "closed"})
    BY <1>4, <2>1 DEF Responded, ServedAs, Responses
  <2>. QED  BY <1>1, <2>3, <2>4, FinishStep DEF Inv, TypeOK, Agrees
<1>. QED
  BY <1>1, <1>2, <1>3, <1>4
  DEF Transaction, Requested, Dispatched, Responding, CountSent,
      CountAndListSent, CountRead, ListSent, SizeAccepted, SrmSent, ToRead

-----------------------------------------------------------------------------
(***************************************************************************)
(* The steps of the daemon                                                 *)
(***************************************************************************)

\* A daemon that is past GetTask serves the request of the thread that has the
\* mutex.
LEMMA ServesHolder ==
    ASSUME Inv, daemonOpen, dpc \notin {"idle", "closed"}
    PROVE  /\ mutex \in Threads /\ Transaction(mutex) /\ dreq = RequestOf(mutex)
           /\ pc[mutex] \in {"reply", "list", "stored"}
           /\ call[mutex] \in Calls /\ request[mutex] \in Calls
<1>1. mutex \in Threads /\ Transaction(mutex)
  BY DEF Inv, TypeOK, StreamInv, Quiet, DaemonAt
<1>2. /\ pc[mutex] \in {"reply", "list", "stored"}
      /\ call[mutex] \in Calls /\ request[mutex] \in Calls
  BY <1>1 DEF Inv, ThreadInv, ThreadOK
<1>3. dreq = RequestOf(mutex)
  BY <1>1
  DEF Transaction, Requested, Dispatched, Responding, Responded, CountSent,
      CountAndListSent, CountRead, ListSent, SizeAccepted, SrmSent, DaemonAt, Serving
<1>. QED  BY <1>1, <1>2, <1>3

\* What the daemon did is recorded for the call whose own request it served.
LEMMA ServesKeeps ==
    ASSUME Inv, NEW t \in Threads, NEW s \in {"ok", "error"},
           mutex = t, dreq = RequestOf(t), Serves(s), UNCHANGED sdkVars
    PROVE  /\ ThreadInv' /\ ServedAs(t, s)'
           /\ served' \in [Threads -> {"no", "ok", "error"}]
<1>1. UNCHANGED <<pc, call, request, status, expected, mutex>>
  BY DEF sdkVars
<1>2. /\ served' \in [Threads -> {"no", "ok", "error"}]
      /\ Own(t) => served'[t] = s
      /\ ~Own(t) => served'[t] = served[t]
      /\ \A u \in Threads \ {t} : served'[u] = served[u]
  BY DEF Inv, TypeOK, Serves, RequestOf, Own
<1>3. ASSUME NEW u \in Threads  PROVE ThreadOK(u)'
  <2>1. CASE u = t
    BY <1>1, <1>2, <2>1 DEF Inv, ThreadInv, ThreadOK, Own
  <2>2. CASE u # t
    BY <1>1, <1>2, <2>2 DEF Inv, ThreadInv, ThreadOK, Own
  <2>. QED  BY <2>1, <2>2
<1>. QED  BY <1>1, <1>2, <1>3 DEF ThreadInv, ServedAs, Own

\* The daemon changes nothing the threads have of their calls.
LEMMA ThreadsKept ==
    ASSUME Inv, UNCHANGED <<sdkVars, served>>
    PROVE  ThreadInv'
BY DEF Inv, sdkVars, ThreadInv, ThreadOK, Own

\* A step inside a transaction.
LEMMA TransactionStep ==
    ASSUME Inv, NEW t \in Threads, mutex = t, UNCHANGED <<sdkVars, sdkOpen>>,
           TypeOK', ThreadInv', Transaction(t)', dpc' # "closed"
    PROVE  Inv'
BY ThreadsAssumption DEF Inv, sdkVars, StreamInv

\* A request that fails is answered with an error by the loop.
LEMMA FailsStep ==
    ASSUME Inv, NEW t \in Threads, NEW n \in 0 .. CountRange - 1,
           mutex = t, dreq = RequestOf(t), daemonOpen, Fails(n), up' = <<>>,
           sdkOpen => down = <<>> /\ pc[t] # "list",
           UNCHANGED <<sdkVars, marks, down, held, sdkOpen, daemonOpen>>,
           faults' \in 0..MaxFaults
    PROVE  Inv'
<1>1. /\ data' = [status |-> "error", count |-> n] /\ data'.status = "error"
      /\ data' \in Responses
      /\ dpc' = "response" /\ dreq' = dreq /\ Serves("error")
  BY DEF Fails, Responses
<1>2. /\ ThreadInv' /\ ServedAs(t, "error")'
      /\ served' \in [Threads -> {"no", "ok", "error"}]
  BY <1>1, ServesKeeps
<1>3. UNCHANGED <<pc, call, request, status, expected, mutex, protected, overtaken>>
  BY DEF sdkVars, marks
<1>4. TypeOK'
  BY <1>1, <1>2, <1>3 DEF Inv, TypeOK
<1>5. Responding(t)'
  BY <1>1, <1>2, <1>3
  DEF Responding, ServedAs, Own, Serving, RequestOf, DaemonAt, ToRead
<1>. QED  BY <1>1, <1>2, <1>4, <1>5, TransactionStep DEF Transaction

\* The daemon reads one whole request.
LEMMA GetRequestStep ==
    ASSUME Inv, GetRequest
    PROVE  Inv'
<1>. DEFINE M == MessageSize
<1>0. M \in Nat \ {0}
  BY SizesAssumption
<1>1. /\ daemonOpen /\ dpc = "idle" /\ Available(up, M) /\ up' = Rest(up, M)
      /\ UNCHANGED <<sdkVars, marks, down, data, held, served, faults, sdkOpen, daemonOpen>>
  BY DEF GetRequest, DaemonUnchanged
<1>2. up # <<>>
  BY <1>0, <1>1, NothingAvailable
<1>3. mutex \in Threads /\ Transaction(mutex)
  BY <1>1, <1>2 DEF Inv, TypeOK, StreamInv, Quiet, DaemonAt
<1>4. PICK t \in Threads : t = mutex
  BY <1>3
<1>5. Requested(t)
  BY <1>1, <1>2, <1>3, <1>4
  DEF Transaction, Dispatched, Responding, Responded, CountSent, CountAndListSent,
      CountRead, ListSent, SizeAccepted, SrmSent, DaemonAt
<1>6. up = Chunk(RequestOf(t), M)
  BY <1>1, <1>5 DEF Requested, DaemonAt
<1>7. request[t] \in Calls
  BY <1>5 DEF Requested, Inv, ThreadInv, ThreadOK
<1>8. RequestOf(t) \in Requests /\ RequestOf(t).body = request[t]
  BY <1>7 DEF RequestOf, Requests
<1>9. Whole(up, M, Requests) /\ up[1].msg = RequestOf(t) /\ Rest(up, M) = <<>>
  BY <1>0, <1>6, <1>8, OnePiece
<1>10. dreq' = RequestOf(t) /\ dpc' = request[t].cmd /\ up' = <<>>
  BY <1>1, <1>8, <1>9 DEF GetRequest
<1>11. UNCHANGED <<pc, call, request, status, expected, mutex, protected, overtaken>>
  BY <1>1 DEF sdkVars, marks
<1>12. dpc' \in {"query", "ksv", "set", "srm"}
  BY <1>7, <1>10, CallFacts
<1>13. TypeOK'
  BY <1>1, <1>11, <1>12 DEF Inv, TypeOK
<1>14. Dispatched(t)'
  BY <1>1, <1>5, <1>10, <1>11
  DEF Requested, Dispatched, Unserved, Own, Serving, RequestOf, DaemonAt, ToRead
<1>. QED
  BY <1>1, <1>4, <1>12, <1>13, <1>14, ThreadsKept, TransactionStep DEF Transaction

\* The daemon notices that the application has closed the session.
LEMMA GetDestroyStep ==
    ASSUME Inv, GetDestroy
    PROVE  Inv'
<1>0. MessageSize \in Nat \ {0}
  BY SizesAssumption
<1>1. /\ daemonOpen /\ dpc = "idle" /\ ~sdkOpen /\ ~Available(up, MessageSize)
      /\ dpc' = "closed" /\ held' \in {held, FALSE}
      /\ UNCHANGED <<sdkVars, marks, up, down, dreq, data, served, faults, sdkOpen, daemonOpen>>
      /\ UNCHANGED <<pc, call, request, status, expected, mutex, protected, overtaken>>
  BY DEF GetDestroy, DaemonUnchanged, sdkVars, marks
<1>2. TypeOK'
  BY <1>1 DEF Inv, TypeOK
<1>3. ThreadInv'
  BY <1>1, ThreadsKept
<1>4. CASE mutex = NoThread
  BY <1>1, <1>2, <1>3, <1>4 DEF Inv, StreamInv, Quiet, DaemonAt, ToRead
<1>5. CASE mutex # NoThread
  <2>. DEFINE t == mutex
  <2>1. Transaction(t)
    BY <1>5 DEF Inv, StreamInv
  <2>2. ~Requested(t)
    BY <1>0, <1>1, OnePiece DEF Requested, DaemonAt
  <2>3. Responded(t) \/ CountAndListSent(t) \/ ListSent(t) \/ Responding(t)
    BY <1>1, <2>1, <2>2, CallFacts, <1>5
    DEF Transaction, Dispatched, CountSent, CountRead, SizeAccepted, SrmSent, DaemonAt,
        Inv, TypeOK, ThreadInv, ThreadOK
  <2>4. Transaction(t)'
    BY <1>1, <2>3
    DEF Transaction, Responded, CountAndListSent, ListSent, Responding, DaemonAt,
        ToRead, ServedAs, Own
  <2>. QED  BY <1>1, <1>2, <1>3, <1>5, <2>4 DEF Inv, StreamInv
<1>. QED  BY <1>4, <1>5

\* The phase of a transaction whose request has just been dispatched.
LEMMA DispatchedPhase ==
    ASSUME Inv, daemonOpen, dpc \in {"query", "set", "ksv", "srm"}
    PROVE  /\ Dispatched(mutex) /\ request[mutex].cmd = dpc
           /\ up = <<>> /\ (sdkOpen => down = <<>>) /\ pc[mutex] = "reply"
           /\ Unserved(mutex)
<1>1. Transaction(mutex)
  BY ServesHolder
<1>2. Dispatched(mutex)
  BY <1>1
  DEF Transaction, Requested, Responding, Responded, CountSent, CountAndListSent,
      CountRead, ListSent, SizeAccepted, SrmSent, DaemonAt
<1>. QED  BY <1>2 DEF Dispatched, DaemonAt, ToRead

\* A handler that answers at once.
LEMMA QueryOrSetStep ==
    ASSUME Inv, DispatchQuery \/ DispatchSet
    PROVE  Inv'
<1>1. PICK s \in {"ok", "error"} :
        /\ daemonOpen /\ dpc \in {"query", "set"}
        /\ data' = [status |-> s, count |-> 0] /\ Serves(s) /\ dpc' = "response"
        /\ UNCHANGED <<sdkVars, up, down, dreq, faults, sdkOpen, daemonOpen>>
        /\ UNCHANGED <<pc, call, request, status, expected, mutex>>
        /\ held' \in BOOLEAN /\ protected' \in BOOLEAN /\ overtaken' \subseteq Threads
  <2>1. CASE DispatchQuery
    BY <2>1 DEF DispatchQuery, DaemonUnchanged, sdkVars, marks, Inv, TypeOK
  <2>2. CASE DispatchSet
    BY <2>2 DEF DispatchSet, sdkVars, marks, Inv, TypeOK
  <2>. QED  BY <2>1, <2>2
<1>2. PICK t \in Threads : t = mutex /\ dreq = RequestOf(t)
  BY <1>1, ServesHolder
<1>3. /\ up = <<>> /\ (sdkOpen => down = <<>>) /\ pc[t] = "reply"
      /\ request[t].cmd \in {"query", "set"}
  BY <1>1, <1>2, DispatchedPhase
<1>4. /\ ThreadInv' /\ ServedAs(t, s)'
      /\ served' \in [Threads -> {"no", "ok", "error"}]
  BY <1>1, <1>2, ServesKeeps
<1>5. data' \in Responses /\ data'.status = s
  BY <1>1, SizesAssumption DEF Responses
<1>6. TypeOK'
  BY <1>1, <1>4, <1>5 DEF Inv, TypeOK
<1>7. Responding(t)'
  BY <1>1, <1>2, <1>3, <1>4, <1>5
  DEF Responding, ServedAs, Own, Serving, RequestOf, DaemonAt, ToRead
<1>. QED  BY <1>1, <1>2, <1>4, <1>6, <1>7, TransactionStep DEF Transaction

\* The first answer to GetKsvList: the count, in eight bits.
LEMMA DispatchKsvStep ==
    ASSUME Inv, DispatchKsv
    PROVE  Inv'
<1>. DEFINE M == MessageSize
<1>0. M \in Nat \ {0}
  BY SizesAssumption
<1>1. PICK devices \in 0 .. CountRange - 1 :
        LET n == KsvCount(devices)
            response == [status |-> "ok", count |-> n]
        IN \/ /\ n \in 1..MaxKsvCount
              /\ Sent(response, M)
              /\ data' = response /\ dpc' = "list"
              /\ UNCHANGED <<dreq, served>>
           \/ n = 0 /\ Sent(response, M) /\ Serves("ok") /\ NextRequest
           \/ n <= MaxKsvCount /\ NotSent("first") /\ Fails(n)
           \/ Fails(n) /\ UNCHANGED <<down, faults>>
  BY DEF DispatchKsv
<1>2. /\ daemonOpen /\ dpc = "ksv"
      /\ UNCHANGED <<sdkVars, marks, up, held, sdkOpen, daemonOpen>>
      /\ UNCHANGED <<pc, call, request, status, expected, mutex, protected, overtaken>>
  BY DEF DispatchKsv, DaemonUnchanged, sdkVars, marks
<1>3. PICK n \in 0 .. CountRange - 1 : n = KsvCount(devices)
  BY SizesAssumption DEF KsvCount
<1>. DEFINE m == [status |-> "ok", count |-> n]
<1>4. m \in Responses /\ m.status = "ok" /\ m.count = n
  BY SizesAssumption DEF Responses
<1>5. PICK t \in Threads : t = mutex /\ dreq = RequestOf(t)
  BY <1>2, ServesHolder
<1>6. /\ up = <<>> /\ (sdkOpen => down = <<>>) /\ pc[t] = "reply"
      /\ request[t].cmd = "ksv" /\ Unserved(t)
  BY <1>2, <1>5, DispatchedPhase
<1>7. CASE n \in 1..MaxKsvCount /\ Sent(m, M) /\ data' = m /\ dpc' = "list"
            /\ UNCHANGED <<dreq, served>>
  <2>. HIDE DEF m
  <2>1. sdkOpen /\ down' = Chunk(m, M) /\ UNCHANGED faults
    BY <1>0, <1>6, <1>7, OnePiece DEF Sent
  <2>2. TypeOK'
    BY <1>2, <1>4, <1>7, <2>1 DEF Inv, TypeOK
  <2>3. CountSent(t)'
    BY <1>2, <1>4, <1>5, <1>6, <1>7, <2>1
    DEF CountSent, Unserved, Own, Serving, RequestOf, DaemonAt, ToRead
  <2>. QED  BY <1>2, <1>5, <1>7, <2>2, <2>3, ThreadsKept, TransactionStep DEF Transaction
<1>8. CASE n = 0 /\ Sent(m, M) /\ Serves("ok") /\ NextRequest
  <2>. HIDE DEF m
  <2>1. /\ sdkOpen /\ down' = Chunk(m, M) /\ UNCHANGED faults
        /\ dpc' = "idle" /\ data' = Cleared
    BY <1>0, <1>6, <1>8, OnePiece DEF Sent, NextRequest
  <2>2. /\ ThreadInv' /\ ServedAs(t, "ok")'
        /\ served' \in [Threads -> {"no", "ok", "error"}]
    BY <1>2, <1>5, <1>8, ServesKeeps
  <2>3. TypeOK'
    BY <1>2, <2>1, <2>2, SizesAssumption DEF Inv, TypeOK, Cleared, Responses
  <2>4. Responded(t)'
    BY <1>2, <1>4, <1>6, <1>8, <2>1, <2>2 DEF Responded, ServedAs, Own, DaemonAt
  <2>. QED  BY <1>2, <1>5, <2>1, <2>2, <2>3, <2>4, TransactionStep DEF Transaction
<1>9. CASE Fails(n) /\ UNCHANGED down /\ faults' \in 0..MaxFaults
  BY <1>2, <1>5, <1>6, <1>9, FailsStep
<1>10. faults \in 0..MaxFaults /\ (NotSent("first") => UNCHANGED down /\ faults' \in 0..MaxFaults)
  BY FaultyAssumption DEF Inv, TypeOK, NotSent, Fault
<1>. QED  BY <1>1, <1>3, <1>7, <1>8, <1>9, <1>10

\* The list follows the count, unless the connection is gone.
LEMMA SendKsvListDataStep ==
    ASSUME Recovers, Inv, SendKsvListData
    PROVE  Inv'
<1>1. /\ daemonOpen /\ dpc = "list"
      /\ UNCHANGED <<sdkVars, marks, up, held, sdkOpen, daemonOpen>>
      /\ UNCHANGED <<pc, call, request, status, expected, mutex, protected, overtaken>>
  BY DEF SendKsvListData, DaemonUnchanged, sdkVars, marks
<1>2. PICK t \in Threads : t = mutex /\ dreq = RequestOf(t) /\ Transaction(t)
                          /\ request[t] \in Calls
  BY <1>1, ServesHolder
<1>3. CountSent(t) \/ CountRead(t)
  BY <1>1, <1>2, CallFacts
  DEF Transaction, Requested, Dispatched, Responding, Responded, CountAndListSent,
      ListSent, SizeAccepted, SrmSent, DaemonAt
<1>4. /\ data.count \in 1..MaxKsvCount /\ up = <<>> /\ Unserved(t)
      /\ data \in Responses /\ data.count \in 0 .. CountRange - 1
      /\ data.count \in Nat \ {0}
  BY <1>1, <1>3, SizesAssumption
  DEF Inv, TypeOK, Responses, ThreadInv, ThreadOK, CountSent, CountRead, DaemonAt
<1>5. CASE Sent(KsvList(t), data.count) /\ Serves("ok") /\ NextRequest
  <2>1. /\ sdkOpen /\ down' = down \o Chunk(KsvList(t), data.count) /\ UNCHANGED faults
        /\ dpc' = "idle" /\ data' = Cleared
    BY <1>5 DEF Sent, NextRequest
  <2>2. /\ ThreadInv' /\ ServedAs(t, "ok")'
        /\ served' \in [Threads -> {"no", "ok", "error"}]
    BY <1>1, <1>2, <1>5, ServesKeeps
  <2>3. TypeOK'
    BY <1>1, <2>1, <2>2, SizesAssumption DEF Inv, TypeOK, Cleared, Responses
  <2>4. CASE CountSent(t)
    <3>1. /\ data = [status |-> "ok", count |-> data.count]
          /\ down = Chunk(data, MessageSize)
          /\ pc[t] = "reply" /\ request[t].cmd = "ksv"
      BY <1>4, <2>1, <2>4 DEF CountSent, ToRead, Responses
    <3>2. down' = Chunk([status |-> "ok", count |-> data.count], MessageSize)
                    \o Chunk(KsvList(t), data.count)
      BY <2>1, <3>1
    <3>3. CountAndListSent(t)'
      BY <1>1, <1>4, <2>1, <2>2, <3>1, <3>2
      DEF CountAndListSent, ServedAs, Own, DaemonAt, KsvList
    <3>. QED  BY <1>1, <1>2, <2>1, <2>2, <2>3, <3>3, TransactionStep DEF Transaction
  <2>5. CASE CountRead(t)
    <3>1. down' = Chunk(KsvList(t), expected[t]) /\ pc[t] = "list"
      BY <1>4, <2>1, <2>5, OnePiece DEF CountRead, ToRead
    <3>2. ListSent(t)'
      BY <1>1, <1>4, <2>1, <2>2, <3>1 DEF ListSent, ServedAs, Own, DaemonAt, ToRead, KsvList
    <3>. QED  BY <1>1, <1>2, <2>1, <2>2, <2>3, <3>2, TransactionStep DEF Transaction
  <2>. QED  BY <1>3, <2>4, <2>5
<1>6. CASE NotSent("list") /\ Fails(data.count)
  <2>1. ~sdkOpen /\ UNCHANGED <<down, faults>>
    BY <1>6 DEF NotSent, Fault, Recovers
  <2>. QED  BY <1>1, <1>2, <1>4, <1>6, <2>1, FailsStep DEF Inv, TypeOK
<1>7. dreq.by = t
  BY <1>2 DEF RequestOf
<1>. QED  BY <1>5, <1>6, <1>7 DEF SendKsvListData

\* The first answer to SendSRMData: the size is accepted or refused.
LEMMA DispatchSrmStep ==
    ASSUME Inv, DispatchSrm
    PROVE  Inv'
<1>. DEFINE m == [status |-> "ok", count |-> 0]
<1>1. /\ daemonOpen /\ dpc = "srm"
      /\ UNCHANGED <<sdkVars, marks, up, held, sdkOpen, daemonOpen>>
      /\ UNCHANGED <<pc, call, request, status, expected, mutex, protected, overtaken>>
  BY DEF DispatchSrm, DaemonUnchanged, sdkVars, marks
<1>2. PICK t \in Threads : t = mutex /\ dreq = RequestOf(t)
  BY <1>1, ServesHolder
<1>3. /\ up = <<>> /\ (sdkOpen => down = <<>>) /\ pc[t] = "reply"
      /\ request[t].cmd = "srm" /\ Unserved(t)
  BY <1>1, <1>2, DispatchedPhase
<1>4. CASE Sent(m, MessageSize) /\ dpc' = "srmData" /\ UNCHANGED <<data, dreq, served>>
  <2>1. sdkOpen /\ down' = Chunk(m, MessageSize) /\ UNCHANGED faults
    BY <1>3, <1>4, OnePiece, SizesAssumption DEF Sent
  <2>2. TypeOK'
    BY <1>1, <1>4, <2>1 DEF Inv, TypeOK
  <2>3. SizeAccepted(t)'
    BY <1>1, <1>2, <1>3, <1>4, <2>1
    DEF SizeAccepted, Unserved, Own, Serving, RequestOf, DaemonAt, ToRead
  <2>. QED  BY <1>1, <1>2, <1>4, <2>2, <2>3, ThreadsKept, TransactionStep DEF Transaction
<1>5. CASE Fails(0) /\ UNCHANGED down /\ faults' \in 0..MaxFaults
  BY <1>1, <1>2, <1>3, <1>5, FailsStep, SizesAssumption
<1>6. faults \in 0..MaxFaults /\ (NotSent("first") => UNCHANGED down /\ faults' \in 0..MaxFaults)
  BY FaultyAssumption DEF Inv, TypeOK, NotSent, Fault
<1>. QED  BY <1>4, <1>5, <1>6 DEF DispatchSrm

\* The bytes of the SRM are read when all are there, or will never come.
LEMMA GetSrmDataStep ==
    ASSUME Inv, GetSrmData
    PROVE  Inv'
<1>1. /\ daemonOpen /\ dpc = "srmData" /\ dpc' = "response"
      /\ UNCHANGED <<sdkVars, marks, down, dreq, held, faults, sdkOpen, daemonOpen>>
      /\ UNCHANGED <<pc, call, request, status, expected, mutex, protected, overtaken>>
  BY DEF GetSrmData, DaemonUnchanged, sdkVars, marks
<1>2. PICK t \in Threads : t = mutex /\ dreq = RequestOf(t) /\ Transaction(t)
                          /\ request[t] \in Calls
  BY <1>1, ServesHolder
<1>3. SizeAccepted(t) \/ SrmSent(t)
  BY <1>1, <1>2, CallFacts
  DEF Transaction, Requested, Dispatched, Responding, Responded, CountSent, CountRead,
      CountAndListSent, ListSent, DaemonAt
<1>4. request[t].arg \in Nat \ {0} /\ dreq.body.arg = request[t].arg
  BY <1>2, <1>3, CallFacts DEF SizeAccepted, SrmSent, Inv, ThreadInv, ThreadOK, RequestOf
<1>5. PICK s \in {"ok", "error"} :
        /\ data' = [status |-> s, count |-> 0] /\ Serves(s)
        /\ \/ up' = Rest(up, request[t].arg) /\ Available(up, request[t].arg)
           \/ ~sdkOpen /\ ~Available(up, request[t].arg) /\ s = "error" /\ UNCHANGED up
  BY <1>4 DEF GetSrmData
<1>6. /\ ThreadInv' /\ ServedAs(t, s)'
      /\ served' \in [Threads -> {"no", "ok", "error"}]
  BY <1>1, <1>2, <1>5, ServesKeeps
<1>7. data' \in Responses /\ data'.status = s
  BY <1>5, SizesAssumption DEF Responses
<1>8. TypeOK'
  BY <1>1, <1>6, <1>7 DEF Inv, TypeOK
<1>9. CASE SizeAccepted(t)
  <2>1. up = <<>> /\ pc[t] = "reply"
    BY <1>1, <1>9 DEF SizeAccepted, DaemonAt
  <2>2. ~sdkOpen /\ s = "error" /\ up' = <<>>
    BY <1>4, <1>5, <2>1, NothingAvailable
  <2>3. Responding(t)'
    BY <1>1, <1>2, <1>6, <1>7, <2>1, <2>2
    DEF Responding, ServedAs, Own, Serving, RequestOf, DaemonAt, ToRead
  <2>. QED  BY <1>1, <1>2, <1>6, <1>8, <2>3, TransactionStep DEF Transaction
<1>10. CASE SrmSent(t)
  <2>1. up = Chunk(Srm(t), request[t].arg) /\ pc[t] = "stored" /\ ToRead(<<>>)
    BY <1>1, <1>10 DEF SrmSent, DaemonAt
  <2>2. up' = <<>>
    BY <1>4, <1>5, <2>1, OnePiece
  <2>3. Responding(t)'
    BY <1>1, <1>2, <1>6, <1>7, <2>1, <2>2
    DEF Responding, ServedAs, Own, Serving, RequestOf, DaemonAt, ToRead
  <2>. QED  BY <1>1, <1>2, <1>6, <1>8, <2>3, TransactionStep DEF Transaction
<1>. QED  BY <1>3, <1>9, <1>10

\* The final response ends the transaction on the daemon's side.
LEMMA SendResponseStep ==
    ASSUME Recovers, Inv, SendResponse
    PROVE  Inv'
<1>1. /\ daemonOpen /\ dpc = "response" /\ dpc' = "idle" /\ data' = Cleared
      /\ held' \in BOOLEAN
      /\ UNCHANGED <<sdkVars, marks, up, served, sdkOpen, daemonOpen>>
      /\ UNCHANGED <<pc, call, request, status, expected, mutex, protected, overtaken>>
  BY DEF SendResponse, NextRequest, DaemonUnchanged, sdkVars, marks, Inv, TypeOK
<1>2. PICK t \in Threads : t = mutex /\ dreq = RequestOf(t) /\ Transaction(t)
                          /\ request[t] \in Calls
  BY <1>1, ServesHolder
<1>3. Responding(t)
  BY <1>1, <1>2, CallFacts
  DEF Transaction, Requested, Dispatched, SizeAccepted, SrmSent, Responded, CountSent,
      CountRead, CountAndListSent, ListSent, DaemonAt
<1>4. UNCHANGED faults /\ (sdkOpen => down' = down \o Chunk(data, MessageSize))
  BY DEF SendResponse, Sent, NotSent, Fault, Recovers
<1>5. TypeOK'
  BY <1>1, <1>4, SizesAssumption DEF Inv, TypeOK, Cleared, Responses
<1>6. ASSUME sdkOpen
      PROVE  /\ down' = Chunk(data, MessageSize) /\ pc[t] # "list" /\ data \in Responses
             /\ request[t].cmd \in {"ksv", "srm"} /\ pc[t] = "reply" => data.status = "error"
             /\ ServedAs(t, data.status)
  BY <1>3, <1>4, <1>6, OnePiece, SizesAssumption DEF Responding, ToRead, Inv, TypeOK
<1>7. sdkOpen /\ request[t].cmd = "ksv" => pc[t] = "reply"
  BY <1>2, <1>3, ServesHolder, <1>1 DEF Responding, Inv, ThreadInv, ThreadOK
<1>8. Responded(t)'
  BY <1>1, <1>3, <1>6, <1>7 DEF Responding, Responded, ServedAs, Own, DaemonAt
<1>. QED  BY <1>1, <1>2, <1>5, <1>8, ThreadsKept, TransactionStep DEF Transaction

\* A process that ends leaves the streams as they are.
LEMMA ExitStep ==
    ASSUME Inv, SdkExits \/ DaemonExits \/ UNCHANGED vars
    PROVE  Inv'
<1>1. /\ UNCHANGED <<sdkVars, marks, up, down, dpc, dreq, data, held, served, faults>>
      /\ UNCHANGED <<pc, call, request, status, expected, mutex, protected, overtaken>>
      /\ sdkOpen' \in BOOLEAN /\ daemonOpen' \in BOOLEAN
      /\ (sdkOpen' => sdkOpen) /\ (daemonOpen' => daemonOpen)
  <2>0. sdkOpen \in BOOLEAN /\ daemonOpen \in BOOLEAN
    BY DEF Inv, TypeOK
  <2>1. CASE SdkExits
    BY <2>0, <2>1 DEF SdkExits, daemonVars, sdkVars, marks
  <2>2. CASE DaemonExits
    BY <2>0, <2>2 DEF DaemonExits, daemonVars, sdkVars, marks
  <2>3. CASE UNCHANGED vars
    BY <2>0, <2>3 DEF vars, daemonVars, sdkVars, marks
  <2>. QED  BY <2>1, <2>2, <2>3
<1>2. TypeOK'
  BY <1>1 DEF Inv, TypeOK
<1>3. ThreadInv'
  BY <1>1, ThreadsKept
<1>4. StreamInv'
  <2>1. mutex = NoThread => Quiet'
    BY <1>1 DEF Inv, StreamInv, Quiet, DaemonAt, ToRead
  <2>2. mutex # NoThread => Transaction(mutex)'
    <3>1. SUFFICES ASSUME NEW t \in Threads, t = mutex, Transaction(t)
                   PROVE  Transaction(t)'
      BY <1>1 DEF Inv, TypeOK, StreamInv
    <3>2. Requested(t) => Requested(t)'
      BY <1>1, <3>1 DEF Requested, DaemonAt, ToRead, Unserved, Own, RequestOf
    <3>3. Dispatched(t) => Dispatched(t)'
      BY <1>1, <3>1 DEF Dispatched, DaemonAt, ToRead, Unserved, Own, Serving, RequestOf
    <3>4. Responding(t) => Responding(t)'
      BY <1>1, <3>1 DEF Responding, DaemonAt, ToRead, ServedAs, Own, Serving, RequestOf
    <3>5. Responded(t) => Responded(t)'
      BY <1>1, <3>1 DEF Responded, DaemonAt, ServedAs, Own
    <3>6. CountSent(t) => CountSent(t)'
      BY <1>1, <3>1 DEF CountSent, DaemonAt, ToRead, Unserved, Own, Serving, RequestOf
    <3>7. CountAndListSent(t) => CountAndListSent(t)'
      BY <1>1, <3>1 DEF CountAndListSent, DaemonAt, ServedAs, Own
    <3>8. CountRead(t) => CountRead(t)'
      BY <1>1, <3>1 DEF CountRead, DaemonAt, ToRead, Unserved, Own, Serving, RequestOf
    <3>9. ListSent(t) => ListSent(t)'
      BY <1>1, <3>1 DEF ListSent, DaemonAt, ToRead, ServedAs, Own
    <3>10. SizeAccepted(t) => SizeAccepted(t)'
      BY <1>1, <3>1 DEF SizeAccepted, DaemonAt, ToRead, Unserved, Own, Serving, RequestOf
    <3>11. SrmSent(t) => SrmSent(t)'
      BY <1>1, <3>1 DEF SrmSent, DaemonAt, ToRead, Unserved, Own, Serving, RequestOf
    <3>. QED
      BY <3>1, <3>2, <3>3, <3>4, <3>5, <3>6, <3>7, <3>8, <3>9, <3>10, <3>11
      DEF Transaction
  <2>. QED  BY <1>1, <2>1, <2>2 DEF Inv, StreamInv
<1>. QED  BY <1>2, <1>3, <1>4 DEF Inv

-----------------------------------------------------------------------------
(***************************************************************************)
(* The invariant holds                                                     *)
(***************************************************************************)
LEMMA InitInv ==
    Init => Inv
<1>. SUFFICES ASSUME Init  PROVE Inv
  OBVIOUS
<1>1. TypeOK
  <2>1. 0 \in 0 .. CountRange - 1 /\ 0 \in 0..MaxFaults
    BY SizesAssumption, FaultyAssumption
  <2>2. data \in Responses
    BY <2>1 DEF Init, Cleared, Responses
  <2>3. held \in BOOLEAN /\ protected \in BOOLEAN /\ sdkOpen \in BOOLEAN /\ daemonOpen \in BOOLEAN
    BY DEF Init
  <2>4. /\ pc \in [Threads -> {"idle", "request", "reply", "list", "stored", "return"}]
        /\ call \in [Threads -> Calls \cup {NoCall}]
        /\ request \in [Threads -> Calls \cup {NoCall}]
        /\ status \in [Threads -> {"ok", "error", "transaction"}]
        /\ expected \in [Threads -> 0 .. CountRange - 1]
        /\ served \in [Threads -> {"no", "ok", "error"}]
    BY <2>1 DEF Init
  <2>. QED  BY <2>1, <2>2, <2>3, <2>4 DEF Init, TypeOK
<1>2. ThreadInv
  BY ThreadsAssumption DEF Init, ThreadInv, ThreadOK, Own
<1>3. StreamInv
  BY DEF Init, StreamInv, Quiet, DaemonAt, ToRead
<1>. QED  BY <1>1, <1>2, <1>3 DEF Inv

\* The invariant is inductive.
LEMMA NextInv ==
    ASSUME Recovers, Inv, [Next]_vars
    PROVE  Inv'
<1>1. CASE \E t \in Threads : Begin(t) \/ Thread(t)
  BY <1>1, BeginStep, RequestStep, ReplyStep, ReceiveKsvListStep, StoredStep, ReturnStep
  DEF Thread
<1>2. CASE Daemon
  BY <1>2, GetRequestStep, GetDestroyStep, QueryOrSetStep, DispatchKsvStep,
     SendKsvListDataStep, DispatchSrmStep, GetSrmDataStep, SendResponseStep
  DEF Daemon
<1>. QED  BY <1>1, <1>2, ExitStep DEF Next

\* It holds in every reachable state.
LEMMA InvHolds ==
    ASSUME Recovers
    PROVE  Spec => []Inv
BY InitInv, NextInv, PTL DEF Spec

\* Every variable of the session and of the daemon's side of the connection
\* keeps its type; KsvCount in particular fits its eight bits, and no status
\* is left over from another call.
THEOREM TypeCorrect ==
    ASSUME Recovers
    PROVE  Spec => []TypeOK
<1>1. Inv => TypeOK
  BY DEF Inv
<1>. QED  BY <1>1, InvHolds, PTL

\* For any number of threads, message size and list length: whatever the calls
\* before came to, the streams of a live connection are empty and the daemon
\* waits whenever m_SocketMutex is free.
THEOREM StreamsCorrect ==
    ASSUME Recovers
    PROVE  Spec => []StreamsInStep
<1>1. Inv => StreamsInStep
  <2>. SUFFICES ASSUME Inv, mutex = NoThread, sdkOpen, daemonOpen
                PROVE  up = <<>> /\ down = <<>> /\ dpc = "idle"
    BY DEF StreamsInStep
  <2>. QED  BY DEF Inv, StreamInv, Quiet, DaemonAt, ToRead
<1>. QED  BY <1>1, InvHolds, PTL

-----------------------------------------------------------------------------
(***************************************************************************)
(* The session implements the service                                      *)
(***************************************************************************)
AnswerOf(t) == IF pc[t] = "return" THEN Returned(t) ELSE "none"
Answers == [t \in Threads |-> AnswerOf(t)]

\* A step of a thread inside its call answers it, or is not seen.
LEMMA CallMaps ==
    ASSUME Inv, Inv', NEW t \in Threads, UNCHANGED <<call, served>>,
           pc[t] \notin {"idle", "return"},
           \A u \in Threads \ {t} : pc'[u] = pc[u] /\ status'[u] = status[u]
    PROVE  [Service!Next]_Service!serviceVars
<1>1. \A u \in Threads \ {t} : AnswerOf(u)' = AnswerOf(u)
  BY DEF AnswerOf, Returned
<1>2. AnswerOf(t) = "none"
  BY DEF AnswerOf
<1>3. CASE pc'[t] # "return"
  <2>1. AnswerOf(t)' = "none"
    BY <1>3 DEF AnswerOf
  <2>2. Answers' = Answers
    BY <1>1, <1>2, <2>1 DEF Answers
  <2>. QED  BY <2>2 DEF Answers, AnswerOf, Service!serviceVars
<1>4. CASE pc'[t] = "return"
  <2>1. AnswerOf(t)' = Returned(t)'
    BY <1>4 DEF AnswerOf
  <2>2. Answers' = [Answers EXCEPT ![t] = Returned(t)']
    BY <1>1, <2>1 DEF Answers
  <2>3. call[t] \in Calls /\ call[t] # NoCall
    BY CallFacts DEF Inv, ThreadInv, ThreadOK
  <2>4. /\ status'[t] \in {"ok", "error", "transaction"}
        /\ \/ status'[t] = "transaction" \/ status'[t] = served[t]
           \/ call[t].cmd = "query" /\ status'[t] = "error" /\ served[t] # "no"
    BY <1>4 DEF Inv, TypeOK, ThreadInv, ThreadOK
  <2>5. Returned(t)' \in Service!MayReturn(call[t], served[t])
    BY <2>3, <2>4, CallFacts DEF Returned, Service!MayReturn
  <2>6. Answers[t] = "none"
    BY <1>2 DEF Answers
  <2>7. Service!Answer(t)
    BY <2>2, <2>3, <2>5, <2>6 DEF Service!Answer, Answers, AnswerOf
  <2>. QED  BY <2>7 DEF Service!Next
<1>. QED  BY <1>3, <1>4

\* The daemon serves the call whose request it has, and has not served it.
LEMMA ServeMaps ==
    ASSUME Inv, NEW t \in Threads, NEW s \in {"ok", "error"},
           t = mutex, dreq = RequestOf(t), Unserved(t), Serves(s), UNCHANGED sdkVars
    PROVE  [Service!Next]_Service!serviceVars
<1>1. UNCHANGED <<pc, call, status>>
  BY DEF sdkVars
<1>2. Answers' = Answers
  BY <1>1 DEF Answers, AnswerOf, Returned
<1>3. CASE Own(t)
  <2>1. served[t] = "no" /\ served' = [served EXCEPT ![t] = s]
    BY <1>3 DEF Unserved, Own, Serves, RequestOf
  <2>2. call[t] # NoCall
    BY CallFacts DEF Inv, ThreadInv, ThreadOK
  <2>3. Service!Serve(t)
    BY <1>1, <1>2, <2>1, <2>2 DEF Service!Serve, Answers, AnswerOf
  <2>. QED  BY <2>3 DEF Service!Next
<1>4. CASE ~Own(t)
  <2>1. UNCHANGED served
    BY <1>4 DEF Own, Serves, RequestOf
  <2>. QED  BY <1>1, <1>2, <2>1 DEF Service!serviceVars, Answers, AnswerOf
<1>. QED  BY <1>3, <1>4

\* A step that changes no call and serves nothing is a stutter of the service.
LEMMA NotSeen ==
    ASSUME UNCHANGED <<sdkVars, served>>
    PROVE  [Service!Next]_Service!serviceVars
<1>1. UNCHANGED <<pc, call, status, served>>
  BY DEF sdkVars
<1>2. Answers' = Answers
  BY <1>1 DEF Answers, AnswerOf, Returned
<1>. QED  BY <1>1, <1>2 DEF Service!serviceVars, Answers, AnswerOf

\* A daemon inside a handler has not served the request yet.
LEMMA HandlerUnserved ==
    ASSUME Inv, daemonOpen, dpc \in {"query", "set", "ksv", "srm", "list", "srmData"}
    PROVE  /\ mutex \in Threads /\ dreq = RequestOf(mutex) /\ Unserved(mutex)
<1>1. mutex \in Threads /\ dreq = RequestOf(mutex) /\ Transaction(mutex)
  BY ServesHolder
<1>. QED
  BY <1>1
  DEF Transaction, Requested, Dispatched, Responding, Responded, CountSent, CountRead,
      CountAndListSent, ListSent, SizeAccepted, SrmSent, DaemonAt

\* A step of the daemon serves the call that waits for it, or is a stutter.
LEMMA DaemonMaps ==
    ASSUME Inv, Daemon
    PROVE  [Service!Next]_Service!serviceVars
<1>1. UNCHANGED sdkVars
  BY DEF Daemon, GetRequest, GetDestroy, DispatchQuery, DispatchSet, DispatchKsv,
         SendKsvListData, DispatchSrm, GetSrmData, SendResponse, DaemonUnchanged
<1>2. CASE UNCHANGED served
  BY <1>1, <1>2, NotSeen
<1>3. CASE /\ \E s \in {"ok", "error"} : Serves(s)
           /\ daemonOpen /\ dpc \in {"query", "set", "ksv", "srm", "list", "srmData"}
  BY <1>1, <1>3, HandlerUnserved, ServeMaps
<1>4. GetRequest \/ GetDestroy \/ SendResponse => UNCHANGED served
  BY DEF GetRequest, GetDestroy, SendResponse
<1>5. DispatchQuery \/ DispatchSet \/ GetSrmData =>
        /\ \E s \in {"ok", "error"} : Serves(s)
        /\ daemonOpen /\ dpc \in {"query", "set", "srmData"}
  BY DEF DispatchQuery, DispatchSet, GetSrmData
<1>6. DispatchKsv \/ SendKsvListData \/ DispatchSrm =>
        /\ UNCHANGED served \/ \E s \in {"ok", "error"} : Serves(s)
        /\ daemonOpen /\ dpc \in {"ksv", "list", "srm"}
  BY DEF DispatchKsv, SendKsvListData, DispatchSrm, Fails
<1>. QED  BY <1>2, <1>3, <1>4, <1>5, <1>6 DEF Daemon

\* A thread of the application goes through its call on its own.
LEMMA ThreadMaps ==
    ASSUME Inv, Inv', NEW t \in Threads, Begin(t) \/ Thread(t)
    PROVE  [Service!Next]_Service!serviceVars
<1>1. CASE Begin(t)
  <2>1. /\ pc[t] = "idle" /\ pc' = [pc EXCEPT ![t] = "request"]
        /\ \E c \in Calls : call' = [call EXCEPT ![t] = c]
        /\ UNCHANGED <<status, served>>
    BY <1>1 DEF Begin, SdkUnchanged, daemonVars, marks
  <2>2. call[t] = NoCall
    BY <2>1 DEF Inv, ThreadInv, ThreadOK
  <2>3. \A u \in Threads : AnswerOf(u)' = AnswerOf(u)
    BY <2>1 DEF AnswerOf, Returned, Inv, TypeOK
  <2>4. Answers' = Answers
    BY <2>3 DEF Answers
  <2>5. Service!Begin(t)
    BY <2>1, <2>2, <2>4 DEF Service!Begin, Answers, AnswerOf
  <2>. QED  BY <2>5 DEF Service!Next
<1>2. CASE Return(t)
  <2>1. /\ pc[t] = "return" /\ pc' = [pc EXCEPT ![t] = "idle"]
        /\ call' = [call EXCEPT ![t] = NoCall] /\ served' = [served EXCEPT ![t] = "no"]
        /\ status' = [status EXCEPT ![t] = "ok"]
    BY <1>2 DEF Return
  <2>2. AnswerOf(t) # "none" /\ AnswerOf(t)' = "none"
    BY <2>1 DEF AnswerOf, Returned, Inv, TypeOK
  <2>3. \A u \in Threads \ {t} : AnswerOf(u)' = AnswerOf(u)
    BY <2>1 DEF AnswerOf, Returned, Inv, TypeOK
  <2>4. Answers' = [Answers EXCEPT ![t] = "none"] /\ Answers[t] # "none"
    BY <2>2, <2>3 DEF Answers
  <2>5. Service!Return(t)
    BY <2>1, <2>4 DEF Service!Return, Answers, AnswerOf
  <2>. QED  BY <2>5 DEF Service!Next
<1>3. CASE Request(t) \/ Reply(t) \/ ReceiveKsvList(t) \/ Stored(t)
  <2>1. /\ UNCHANGED <<call, served>>
        /\ pc[t] \in {"request", "reply", "list", "stored"}
    BY <1>3 DEF Request, Reply, ReceiveKsvList, Stored, SdkUnchanged, daemonVars, marks
  <2>2. /\ pc' = pc \/ \E p \in {"request", "reply", "list", "stored", "return"} :
                            pc' = [pc EXCEPT ![t] = p]
        /\ status' = status \/ \E s : status' = [status EXCEPT ![t] = s]
    BY <1>3 DEF Request, Reply, ReceiveKsvList, Stored, Finish, ReceiveList, SendSrm
  <2>3. \A u \in Threads \ {t} : pc'[u] = pc[u] /\ status'[u] = status[u]
    BY <2>2 DEF Inv, TypeOK
  <2>. QED  BY <2>1, <2>3, CallMaps
<1>. QED  BY <1>1, <1>2, <1>3 DEF Thread

\* Every call returns the answer to its own request, or that the transaction
\* failed, and the daemon serves it at most once: the messages of the session
\* and the daemon implement SessionService.
THEOREM ServiceImplemented ==
    ASSUME Recovers
    PROVE  Spec => ImplementsService
<1>1. Init => Service!Init
  BY DEF Init, Service!Init
<1>2. ASSUME Inv, Inv', [Next]_vars
      PROVE  [Service!Next]_Service!serviceVars
  <2>1. CASE \E t \in Threads : Begin(t) \/ Thread(t)
    BY <1>2, <2>1, ThreadMaps
  <2>2. CASE Daemon
    BY <1>2, <2>2, DaemonMaps
  <2>3. CASE SdkExits \/ DaemonExits \/ UNCHANGED vars
    <3>1. UNCHANGED <<sdkVars, served>>
      BY <2>3 DEF SdkExits, DaemonExits, vars, daemonVars
    <3>. QED  BY <3>1, NotSeen
  <2>. QED  BY <1>2, <2>1, <2>2, <2>3 DEF Next
<1>. QED  BY <1>1, <1>2, InvHolds, PTL DEF Spec, ImplementsService, Service!Spec

-----------------------------------------------------------------------------
(***************************************************************************)
(* A success of SetProtectionLevel holds                                   *)
(***************************************************************************)

\* A grant that is still to be returned, with no level 0 served after it, and a
\* success that was returned, stand for a reference.
HeldInv ==
    /\ \A t \in Threads : pc[t] # "idle" /\ ~Own(t) => status[t] # "ok"
    /\ /\ sdkOpen /\ daemonOpen
       /\ protected \/ \E t \in Threads \ overtaken : Own(t) /\ Granted(t)
       => held

\* A step of a call that neither begins nor ends it.
LEMMA HeldInCall ==
    ASSUME Inv, HeldInv, NEW t \in Threads,
           Request(t) \/ Reply(t) \/ ReceiveKsvList(t) \/ Stored(t)
    PROVE  HeldInv'
<1>1. /\ UNCHANGED <<call, served, held, protected, overtaken, sdkOpen, daemonOpen>>
      /\ pc[t] \in {"request", "reply", "list", "stored"}
  BY DEF Request, Reply, ReceiveKsvList, Stored, SdkUnchanged, daemonVars, marks
<1>2. \E p \in {"request", "reply", "list", "stored", "return"} :
        pc' = [pc EXCEPT ![t] = p]
  BY DEF Request, Reply, ReceiveKsvList, Stored, Finish, ReceiveList, SendSrm
<1>3. ASSUME NEW s, Finish(t, s)
      PROVE  \/ UNCHANGED request /\ (UNCHANGED status \/ Own(t))
             \/ /\ request' = [request EXCEPT ![t] = LevelZero]
                /\ status' = [status EXCEPT ![t] = s] /\ s # "ok"
                /\ call[t].arg # 0
  BY <1>3 DEF Finish, Own
<1>4. ASSUME NEW s, Finish(t, s)
      PROVE  UNCHANGED status \/ status' = [status EXCEPT ![t] = s]
  BY <1>4 DEF Finish
<1>5. UNCHANGED <<request, status>> \/ \E s : Finish(t, s)
  BY DEF Request, Reply, ReceiveKsvList, Stored, ReceiveList, SendSrm
<1>6. /\ \A u \in Threads \ {t} :
            pc'[u] = pc[u] /\ request'[u] = request[u] /\ status'[u] = status[u]
      /\ pc'[t] # "idle"
      /\ \/ request'[t] = request[t] /\ (status'[t] = status[t] \/ Own(t))
         \/ request'[t] = LevelZero /\ status'[t] # "ok" /\ call[t].arg # 0
  BY <1>2, <1>3, <1>4, <1>5 DEF Inv, TypeOK
<1>7. LevelZero # call[t] \/ call[t].arg = 0
  BY CallFacts
<1>8. \A u \in Threads :
        /\ Granted(u)' = Granted(u)
        /\ Own(u)' => Own(u)
        /\ pc'[u] # "idle" /\ ~Own(u)' => status'[u] # "ok"
  BY <1>1, <1>6, <1>7 DEF HeldInv, Granted, Own
<1>. QED  BY <1>1, <1>8 DEF HeldInv

\* A call that begins has been granted nothing; one that returns a success was
\* granted its level.
LEMMA HeldAtEnds ==
    ASSUME Inv, HeldInv, NEW t \in Threads, Begin(t) \/ Return(t)
    PROVE  HeldInv'
<1>1. CASE Begin(t)
  <2>1. /\ pc[t] = "idle" /\ pc' = [pc EXCEPT ![t] = "request"]
        /\ \E c \in Calls : /\ call' = [call EXCEPT ![t] = c]
                           /\ request' = [request EXCEPT ![t] = c]
        /\ UNCHANGED <<status, served, held, protected, overtaken, sdkOpen, daemonOpen>>
    BY <1>1 DEF Begin, SdkUnchanged, daemonVars, marks
  <2>2. served[t] = "no"
    BY <2>1 DEF Inv, ThreadInv, ThreadOK
  <2>3. /\ \A u \in Threads \ {t} :
              pc'[u] = pc[u] /\ request'[u] = request[u] /\ call'[u] = call[u]
        /\ request'[t] = call'[t]
    BY <2>1 DEF Inv, TypeOK
  <2>. QED  BY <2>1, <2>2, <2>3 DEF HeldInv, Granted, Own
<1>2. CASE Return(t)
  <2>1. /\ pc[t] = "return" /\ pc' = [pc EXCEPT ![t] = "idle"]
        /\ call' = [call EXCEPT ![t] = NoCall] /\ request' = [request EXCEPT ![t] = NoCall]
        /\ status' = [status EXCEPT ![t] = "ok"] /\ served' = [served EXCEPT ![t] = "no"]
        /\ protected' = \/ protected
                        \/ /\ call[t].cmd = "set" /\ call[t].arg # 0
                           /\ Returned(t) = "ok" /\ t \notin overtaken
        /\ overtaken' = overtaken \ {t}
        /\ UNCHANGED <<held, sdkOpen, daemonOpen>>
    BY <1>2 DEF Return
  <2>2. /\ \A u \in Threads \ {t} :
              /\ pc'[u] = pc[u] /\ request'[u] = request[u] /\ call'[u] = call[u]
              /\ status'[u] = status[u] /\ served'[u] = served[u]
        /\ pc'[t] = "idle" /\ served'[t] = "no"
    BY <2>1 DEF Inv, TypeOK
  <2>3. ASSUME protected', ~protected
        PROVE  t \in Threads \ overtaken /\ Own(t) /\ Granted(t)
    <3>1. call[t].cmd = "set" /\ call[t].arg # 0 /\ Returned(t) = "ok" /\ t \notin overtaken
      BY <2>1, <2>3
    <3>2. status[t] = "ok" /\ Own(t)
      BY <2>1, <3>1, CallFacts DEF Returned, HeldInv
    <3>3. served[t] = "ok"
      BY <2>1, <3>1, <3>2 DEF Inv, ThreadInv, ThreadOK
    <3>. QED  BY <3>1, <3>2, <3>3 DEF Granted
  <2>4. \A u \in Threads \ overtaken' : Own(u)' /\ Granted(u)' =>
            u \in Threads \ overtaken /\ Own(u) /\ Granted(u)
    BY <2>1, <2>2 DEF Granted, Own
  <2>5. \A u \in Threads : pc'[u] # "idle" /\ ~Own(u)' => status'[u] # "ok"
    BY <2>1, <2>2 DEF HeldInv, Own
  <2>. QED  BY <2>1, <2>3, <2>4, <2>5 DEF HeldInv
<1>. QED  BY <1>1, <1>2

\* The daemon takes the reference away only for a level 0 and when the
\* application has gone.
LEMMA HeldInDaemon ==
    ASSUME Recovers, Inv, HeldInv, Daemon
    PROVE  HeldInv'
<1>1. UNCHANGED <<pc, call, request, status, sdkOpen, daemonOpen>>
  BY DEF Daemon, GetRequest, GetDestroy, DispatchQuery, DispatchSet, DispatchKsv,
         SendKsvListData, DispatchSrm, GetSrmData, SendResponse, DaemonUnchanged, sdkVars
<1>2. CASE UNCHANGED marks /\ (sdkOpen => UNCHANGED <<held, served>>)
  BY <1>1, <1>2 DEF HeldInv, Granted, Own, marks
<1>3. CASE /\ daemonOpen /\ dpc \in {"query", "ksv", "srm", "list", "srmData"}
           /\ UNCHANGED <<held, marks>> /\ \E s : Serves(s)
  <2>1. PICK u \in Threads : u = mutex /\ dreq = RequestOf(u) /\ Transaction(u)
    BY <1>3, ServesHolder
  <2>2. request[u].cmd # "set"
    BY <1>3, <2>1
    DEF Transaction, Requested, Dispatched, Responding, Responded, CountSent, CountRead,
        CountAndListSent, ListSent, SizeAccepted, SrmSent, DaemonAt, Inv, ThreadInv, ThreadOK
  <2>3. \A v \in Threads : Own(v)' /\ Granted(v)' => Own(v) /\ Granted(v)
    BY <1>1, <1>3, <2>1, <2>2 DEF Granted, Own, Serves, RequestOf, Inv, TypeOK
  <2>. QED  BY <1>1, <1>3, <2>3 DEF HeldInv, Own, marks
<1>4. CASE DispatchSet
  <2>1. PICK s \in {"ok", "error"} :
          /\ Serves(s)
          /\ \/ dreq.body.arg # 0 /\ held' = (held \/ s = "ok") /\ UNCHANGED marks
             \/ /\ dreq.body.arg = 0 /\ protected' = FALSE
                /\ overtaken' = overtaken \cup {t \in Threads : Granted(t)}
    BY <1>4 DEF DispatchSet
  <2>2. PICK u \in Threads : /\ u = mutex /\ dreq = RequestOf(u) /\ request[u].cmd = "set"
                            /\ pc[u] = "reply" /\ Unserved(u)
    BY <1>4, ServesHolder, DispatchedPhase DEF DispatchSet
  <2>3. dreq.body = request[u]
    BY <2>2 DEF RequestOf
  <2>4. \A v \in Threads \ {u} : Own(v)' = Own(v) /\ Granted(v)' = Granted(v)
    BY <1>1, <2>1, <2>2 DEF Granted, Own, Serves, RequestOf, Inv, TypeOK
  <2>5. Own(u)' /\ Granted(u)' => dreq.body.arg # 0 /\ s = "ok"
    BY <1>1, <2>1, <2>2, <2>3 DEF Granted, Own, Serves, RequestOf, Inv, TypeOK
  <2>6. CASE dreq.body.arg # 0
    <3>1. held' = (held \/ s = "ok") /\ UNCHANGED <<protected, overtaken>>
      BY <2>1, <2>6 DEF marks
    <3>. QED  BY <1>1, <2>4, <2>5, <3>1 DEF HeldInv, Own
  <2>7. CASE dreq.body.arg = 0
    <3>1. protected' = FALSE /\ overtaken' = overtaken \cup {t \in Threads : Granted(t)}
      BY <2>1, <2>7
    <3>2. \A v \in Threads \ overtaken' : ~(Own(v)' /\ Granted(v)')
      BY <2>4, <2>5, <2>7, <3>1
    <3>. QED  BY <1>1, <3>1, <3>2 DEF HeldInv, Own
  <2>. QED  BY <2>6, <2>7
<1>5. GetRequest \/ GetDestroy \/ SendResponse =>
        UNCHANGED marks /\ (sdkOpen => UNCHANGED <<held, served>>)
  BY DEF GetRequest, GetDestroy, SendResponse, NotSent, Fault, Recovers, DaemonUnchanged
<1>6. DispatchQuery \/ DispatchKsv \/ SendKsvListData \/ DispatchSrm \/ GetSrmData =>
        /\ daemonOpen /\ dpc \in {"query", "ksv", "srm", "list", "srmData"}
        /\ UNCHANGED <<held, marks>>
        /\ UNCHANGED served \/ \E s : Serves(s)
  BY DEF DispatchQuery, DispatchKsv, SendKsvListData, DispatchSrm, GetSrmData, Fails,
         DaemonUnchanged
<1>. QED  BY <1>2, <1>3, <1>4, <1>5, <1>6 DEF Daemon

\* For any number of threads that set levels: a success returned for a level
\* above 0 leaves the application its reference on the port until the daemon
\* serves a level 0 after it, whatever fails and in whatever order the calls
\* come.
THEOREM SuccessCorrect ==
    ASSUME Recovers
    PROVE  Spec => []SuccessHolds
<1>1. Init => HeldInv
  BY DEF Init, HeldInv, Granted, Own
<1>2. ASSUME Inv, HeldInv, [Next]_vars
      PROVE  HeldInv'
  <2>1. CASE \E t \in Threads : Begin(t) \/ Thread(t)
    BY <1>2, <2>1, HeldAtEnds, HeldInCall DEF Thread
  <2>2. CASE Daemon
    BY <1>2, <2>2, HeldInDaemon
  <2>3. CASE SdkExits \/ DaemonExits \/ UNCHANGED vars
    <3>1. /\ UNCHANGED <<pc, call, request, status, served, held, protected, overtaken>>
          /\ sdkOpen' /\ daemonOpen' => sdkOpen /\ daemonOpen
      BY <2>3 DEF SdkExits, DaemonExits, vars, daemonVars, sdkVars, marks
    <3>. QED  BY <1>2, <3>1 DEF HeldInv, Granted, Own
  <2>. QED  BY <1>2, <2>1, <2>2, <2>3 DEF Next
<1>3. HeldInv => SuccessHolds
  BY DEF HeldInv, SuccessHolds
<1>. QED  BY <1>1, <1>2, <1>3, InvHolds, PTL DEF Spec

=============================================================================

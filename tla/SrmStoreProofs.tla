--------------------------- MODULE SrmStoreProofs ---------------------------
(***************************************************************************)
(* The properties of SrmStore for every set of messages, every size of the *)
(* header and the signatures, and any number of faults and restarts.       *)
(***************************************************************************)
EXTENDS SrmStore, TLAPS

\* The pcs at which StoreSrm and PortManager::SendSRMData write a request.
StorePcs == {"open", "write", "kernelOpen", "kernelWrite"}

\* The SRM an accepted message is: what RetrieveHeader has checked.
FirstListOk(m) ==
    /\ m.isSrm /\ m.authentic /\ m.counted
    /\ m.ends[1] - SRM_HEADER_LENGTH >= MinGen1

\* The well-formed messages of one generation, the ones the loop accepts.
Sound(m) ==
    /\ m.isSrm /\ m.authentic /\ m.counted
    /\ Len(m.ends) = 1 /\ m.size = m.ends[1]
    /\ m.ends[1] - SRM_HEADER_LENGTH >= MinGen1

\* What holds of the loop over the later lists: the first list was accepted,
\* and a later one leaves at least two bytes of the buffer behind it.
ParseInv ==
    pc = "vrls" =>
        /\ FirstListOk(buf[1]) /\ Intact(buf, buf[1], 0, buf[1].ends[1])
        /\ buf[1].version >= version
        /\ lists # <<>> /\ lists[1] = buf[1]
        /\ Len(lists) = 1 => offset = buf[1].ends[1]
        /\ Len(lists) > 1 => offset + 2 <= Len(buf)

\* Where the bytes being parsed come from.
SourceInv ==
    /\ pc \in {"header", "vrls"} =>
          /\ buf # <<>>
          /\ buf = IF request = NoSrm THEN file ELSE Bytes(request)
          /\ request = NoSrm => table = <<>> /\ version = 0
    /\ pc \in {"data"} \cup StorePcs => request # NoSrm
    /\ pc \in {"down", "idle"} => request = NoSrm
    /\ request # NoSrm => status = "none"
    /\ pc = "down" => table = <<>> /\ version = 0

\* The loop has nothing to read after a well-formed message.
RequestInv ==
    \A m \in Srms :
        pc = "vrls" /\ Sound(m) /\ buf = Bytes(m) => offset = Len(buf)

\* Only accepted requests reach the files.
StoreInv ==
    /\ pc \in StorePcs => table = <<request>> /\ Sound(request)
    /\ pc \in {"kernelOpen", "kernelWrite"} =>
          disabled \/ Intact(file, request, 0, request.size)
    /\ \A i \in DOMAIN file : Sound(file[i])

Inv ==
    /\ TypeOK /\ ParseInv /\ SourceInv /\ RequestInv /\ StoreInv
    /\ TableIsOneSrm

-----------------------------------------------------------------------------
(***************************************************************************)
(* Messages and buffers                                                    *)
(***************************************************************************)

\* The fields of a message, the facts of SrmsAssumption one by one.
LEMMA SrmFields ==
    ASSUME NEW m \in Srms
    PROVE  /\ m # NoSrm
           /\ m.isSrm \in BOOLEAN /\ m.version \in Nat /\ m.authentic \in BOOLEAN
           /\ m.counted \in BOOLEAN /\ m.size \in Nat /\ m.size > 0
           /\ m.ends \in Seq(Nat) /\ Len(m.ends) \in Nat /\ Len(m.ends) >= 1
           /\ m.ends[1] \in Nat /\ m.ends[1] >= SRM_HEADER_LENGTH
           /\ Len(m.ends) > 1 => m.ends[1] + 2 <= m.size
<1>1. m \in SrmRecord /\ m # NoSrm /\ m.size > 0 /\ m.ends # <<>>
  BY SrmsAssumption
<1>2. m.ends[1] >= SRM_HEADER_LENGTH
  BY SrmsAssumption
<1>3. \A k \in 1 .. Len(m.ends) - 1 : m.ends[k] + 2 <= m.size
  BY SrmsAssumption
<1>4. /\ m.isSrm \in BOOLEAN /\ m.version \in Nat /\ m.authentic \in BOOLEAN
      /\ m.counted \in BOOLEAN /\ m.size \in Nat /\ m.ends \in Seq(Nat)
  BY <1>1 DEF SrmRecord
<1>5. Len(m.ends) \in Nat /\ Len(m.ends) >= 1 /\ m.ends[1] \in Nat
  BY <1>1, <1>4
<1>6. Len(m.ends) > 1 => m.ends[1] + 2 <= m.size
  BY <1>3, <1>5
<1> QED BY <1>1, <1>2, <1>4, <1>5, <1>6

\* They are well-formed, and no other message of one generation is.
LEMMA SoundIsWellFormed ==
    ASSUME NEW m \in Srms
    PROVE  Sound(m) <=> WellFormed(m) /\ Len(m.ends) = 1
<1>1. ASSUME Len(m.ends) = 1
      PROVE  m.ends[Len(m.ends)] = m.ends[1] /\ 2 .. Len(m.ends) = {}
  BY <1>1
<1> QED BY <1>1 DEF Sound, WellFormed

\* The bytes of a message are a buffer of its size.
LEMMA BytesType ==
    ASSUME NEW m \in Srms
    PROVE  /\ Bytes(m) \in Seq(Srms) /\ Len(Bytes(m)) = m.size
           /\ Bytes(m) # <<>> /\ Bytes(m)[1] = m
           /\ \A i \in 1 .. m.size : Bytes(m)[i] = m
<1>1. m.size \in Nat /\ m.size > 0
  BY SrmFields
<1>2. Bytes(m) \in [1 .. m.size -> Srms]
  BY DEF Bytes
<1>3. Bytes(m) \in Seq(Srms) /\ Len(Bytes(m)) = m.size
  BY <1>1, <1>2 DEF Bytes
<1> QED BY <1>1, <1>3 DEF Bytes

\* A write at offset 0 makes a file of a file.
LEMMA OverwrittenType ==
    ASSUME NEW f \in Seq(Srms), NEW m \in Srms, NEW n \in Nat
    PROVE  /\ Overwritten(f, m, n) \in Seq(Srms)
           /\ Len(Overwritten(f, m, n)) >= n
           /\ DOMAIN Overwritten(f, m, n) = 1 .. Len(Overwritten(f, m, n))
           /\ \A i \in 1 .. Len(Overwritten(f, m, n)) :
                 Overwritten(f, m, n)[i] = IF i <= n THEN m ELSE f[i]
           /\ \A i \in 1 .. Len(Overwritten(f, m, n)) :
                 i <= n \/ i \in DOMAIN f
<1> DEFINE len == IF Len(f) > n THEN Len(f) ELSE n
<1>1. len \in Nat /\ len >= n /\ DOMAIN f = 1 .. Len(f)
  OBVIOUS
<1>2. \A i \in 1 .. len : i <= n \/ i \in DOMAIN f
  BY <1>1
<1>3. \A i \in 1 .. len : (IF i <= n THEN m ELSE f[i]) \in Srms
  BY <1>2
<1>4. Overwritten(f, m, n) = [i \in 1 .. len |-> IF i <= n THEN m ELSE f[i]]
  BY DEF Overwritten
<1> HIDE DEF len
<1>5. Overwritten(f, m, n) \in Seq(Srms) /\ Len(Overwritten(f, m, n)) = len
  BY <1>1, <1>3, <1>4
<1> QED BY <1>1, <1>2, <1>4, <1>5

-----------------------------------------------------------------------------
(***************************************************************************)
(* The invariant                                                           *)
(***************************************************************************)

\* The daemon has started on an empty machine.
LEMMA InvInit == Init => Inv
<1> SUFFICES ASSUME Init PROVE Inv
  OBVIOUS
<1> USE DEF Init
<1>1. TypeOK
  <2>1. <<>> \in Seq(Srms)
    OBVIOUS
  <2> QED BY <2>1 DEF TypeOK, Pcs, Statuses
<1>2. ParseInv /\ SourceInv /\ RequestInv /\ StoreInv
  BY DEF ParseInv, SourceInv, RequestInv, StoreInv, StorePcs
<1>3. TableIsOneSrm
  BY DEF TableIsOneSrm
<1> QED BY <1>1, <1>2, <1>3 DEF Inv

\* Every handler that answers, and a start that gives up its file, leaves the
\* daemon idle with the table it had.
LEMMA IdleInv ==
    ASSUME Inv, pc' = "idle", request' = NoSrm, status' \in Statuses,
           buf' = <<>>, offset' = 0, lists' = <<>>,
           UNCHANGED tableVars,
           file' \in Seq(Srms), kernelFile' \in Seq(Srms),
           \A i \in DOMAIN file' : Sound(file[i])',
           faults' \in Nat, stops' \in Nat
    PROVE  Inv'
<1>1. TypeOK'
  BY DEF Inv, TypeOK, Pcs, tableVars
<1>2. ParseInv' /\ RequestInv'
  BY DEF ParseInv, RequestInv
<1>3. SourceInv'
  BY DEF SourceInv, StorePcs
<1>4. StoreInv'
  BY DEF StoreInv, StorePcs
<1>5. TableIsOneSrm'
  BY DEF Inv, TableIsOneSrm, tableVars
<1> QED BY <1>1, <1>2, <1>3, <1>4, <1>5 DEF Inv

\* The same for a handler that leaves the files alone.
LEMMA AnswerInv ==
    ASSUME Inv, NEW s \in Statuses, Answer(s), UNCHANGED <<tableVars, fileVars>>,
           faults' \in Nat, stops' \in Nat
    PROVE  Inv'
<1>1. file' = file /\ kernelFile' = kernelFile
  BY DEF fileVars
<1>2. \A i \in DOMAIN file' : Sound(file[i])'
  BY <1>1 DEF Inv, StoreInv, Sound
<1>3. file' \in Seq(Srms) /\ kernelFile' \in Seq(Srms)
  BY <1>1 DEF Inv, TypeOK
<1> QED BY <1>1, <1>2, <1>3, IdleInv DEF Answer

\* An SRM that is refused leaves the table and the files alone.
LEMMA RetrieveErrorInv ==
    ASSUME Inv, NEW err \in {"EINVAL", "EAGAIN", "ENOMEM"}, RetrieveError(err),
           UNCHANGED <<tableVars, fileVars>>, faults' \in Nat, stops' \in Nat
    PROVE  Inv'
<1>1. CASE request = NoSrm
  <2>1. file' = file /\ kernelFile' = kernelFile
    BY DEF fileVars
  <2>2. \A i \in DOMAIN file' : Sound(file[i])'
    BY <2>1 DEF Inv, StoreInv, Sound
  <2>3. file' \in Seq(Srms) /\ kernelFile' \in Seq(Srms) /\ status \in Statuses
    BY <2>1 DEF Inv, TypeOK
  <2> QED BY <1>1, <2>1, <2>2, <2>3, IdleInv DEF RetrieveError
<1>2. CASE request # NoSrm
  <2>1. \E s \in Statuses : Answer(s)
    BY <1>2 DEF RetrieveError, Statuses
  <2> QED BY <2>1, AnswerInv
<1> QED BY <1>1, <1>2

\* What the checks of the header let pass.
LEMMA HeaderAccepted ==
    ASSUME TypeOK, buf # <<>>, HeaderErrors = {}
    PROVE  /\ buf[1] \in Srms /\ FirstListOk(buf[1])
           /\ Intact(buf, buf[1], 0, buf[1].ends[1])
           /\ buf[1].version >= version
<1>1. buf[1] \in Srms
  BY DEF TypeOK
<1>2. buf[1].isSrm
  BY DEF HeaderErrors
<1>3. ~Older(buf[1])
  BY DEF HeaderErrors
<1>4. /\ buf[1].ends[1] - SRM_HEADER_LENGTH >= MinGen1
      /\ VerifySignature(buf, buf[1], 0, buf[1].ends[1]) /\ VrlValid(buf[1])
  <2>1. ~(buf[1].ends[1] - SRM_HEADER_LENGTH < MinGen1)
    BY DEF HeaderErrors
  <2>2. VerifySignature(buf, buf[1], 0, buf[1].ends[1]) /\ VrlValid(buf[1])
    BY DEF HeaderErrors
  <2> QED BY <1>1, <2>1, <2>2, SrmFields, LengthsAssumption DEF MinGen1
<1>5. buf[1].version >= version
  BY <1>1, <1>3, SrmFields DEF Older, TypeOK
<1> QED BY <1>1, <1>2, <1>4, <1>5
        DEF FirstListOk, VerifySignature, SignatureOk, VrlValid

\* Arithmetic the provers do not find under Len.
LEMMA AtMostOne ==
    ASSUME NEW n \in Nat, n >= 1, ~(n > 1)
    PROVE  n = 1
OBVIOUS

\* The checks refuse a well-formed request only for its version.
LEMMA HeaderRefused ==
    ASSUME TypeOK, NEW m \in Srms, WellFormed(m), buf = Bytes(m),
           NEW err \in HeaderErrors
    PROVE  err = "EAGAIN" /\ m.version < version
<1>1. buf[1] = m /\ Len(buf) = m.size /\ \A i \in 1 .. m.size : buf[i] = m
  BY BytesType
<1>2. /\ m.size >= m.ends[1] /\ m.isSrm /\ m.authentic /\ m.counted
      /\ m.ends[1] - SRM_HEADER_LENGTH >= MinGen1
  <2>1. Len(m.ends) = 1 => m.size = m.ends[1]
    BY DEF WellFormed
  <2>2. Len(m.ends) > 1 => m.ends[1] + 2 <= m.size
    BY SrmFields
  <2>3. Len(m.ends) = 1 \/ Len(m.ends) > 1
    BY SrmFields, AtMostOne
  <2>4. m.size >= m.ends[1]
    BY <2>1, <2>2, <2>3, SrmFields
  <2> QED BY <2>4 DEF WellFormed
<1>3. m.size \in Nat /\ m.size >= SRM_HEADER_LENGTH + 3
  BY <1>2, SrmFields, LengthsAssumption DEF MinGen1
<1>4. Intact(buf, m, 0, SRM_HEADER_LENGTH + 3) /\ Intact(buf, m, 0, m.ends[1])
  BY <1>1, <1>2, <1>3, SrmFields, LengthsAssumption DEF Intact
<1>5. /\ Gen1Fits(m.ends[1]) /\ VerifySignature(buf, m, 0, m.ends[1]) /\ VrlValid(m)
      /\ ~(m.ends[1] - SRM_HEADER_LENGTH < MinGen1)
  BY <1>1, <1>2, <1>3, <1>4, SrmFields, LengthsAssumption
     DEF Gen1Fits, VerifySignature, SignatureOk, VrlValid, MinGen1
<1>6. ~(Len(buf) < SRM_HEADER_LENGTH + 3)
  BY <1>1, <1>3, LengthsAssumption
<1>7. HeaderErrors = IF Older(m) THEN {"EAGAIN"} ELSE {}
  BY <1>1, <1>2, <1>4, <1>5, <1>6 DEF HeaderErrors
<1> QED BY <1>7 DEF Older

\* The errors of the header are errors the parser can return.
LEMMA HeaderErrorsType == HeaderErrors \subseteq {"EINVAL", "EAGAIN", "ENOMEM"}
BY DEF HeaderErrors

\* An accepted request is well-formed: a later list never ends the buffer, so
\* the first list does.
LEMMA Accepted ==
    ASSUME Inv, pc = "vrls", offset >= Len(buf)
    PROVE  /\ lists = <<buf[1]>> /\ buf[1] \in Srms
           /\ Len(buf) = buf[1].ends[1]
           /\ \A i \in 1 .. Len(buf) : buf[i] = buf[1]
           /\ request # NoSrm => request = buf[1] /\ Sound(request)
<1> USE DEF Inv
<1>1. buf # <<>> /\ buf \in Seq(Srms) /\ lists \in Seq(Srms) /\ offset \in Nat
  BY DEF SourceInv, TypeOK
<1>2. buf[1] \in Srms /\ Len(buf) \in Nat /\ Len(lists) \in Nat
  BY <1>1
<1>3. lists # <<>> /\ lists[1] = buf[1]
  BY DEF ParseInv
<1>4. Len(lists) = 1
  <2>1. Len(lists) > 1 => offset + 2 <= Len(buf)
    BY DEF ParseInv
  <2>2. Len(lists) >= 1
    BY <1>1, <1>3
  <2>3. ~(Len(lists) > 1)
    BY <1>1, <1>2, <2>1
  <2> QED BY <1>2, <2>2, <2>3, AtMostOne
<1>5. lists = <<buf[1]>>
  BY <1>1, <1>3, <1>4
<1>6. buf[1].ends[1] <= Len(buf) /\ offset = buf[1].ends[1]
  BY <1>4 DEF ParseInv, Intact
<1>7. Len(buf) = buf[1].ends[1]
  BY <1>1, <1>2, <1>6
<1>8. \A i \in 1 .. Len(buf) : buf[i] = buf[1]
  BY <1>2, <1>7 DEF ParseInv, Intact
<1>9. ASSUME request # NoSrm
      PROVE  request = buf[1] /\ Sound(request)
  <2>1. request \in Srms /\ buf = Bytes(request)
    BY <1>9 DEF TypeOK, SourceInv
  <2>2. request = buf[1] /\ Len(buf) = request.size
    BY <2>1, BytesType
  <2>3. request.size = request.ends[1]
    BY <2>2, <1>7
  <2>4. Len(request.ends) = 1
    <3>1. /\ request.size \in Nat /\ request.ends[1] \in Nat
          /\ Len(request.ends) \in Nat /\ Len(request.ends) >= 1
          /\ Len(request.ends) > 1 => request.ends[1] + 2 <= request.size
      BY <2>1, SrmFields
    <3>2. ~(Len(request.ends) > 1)
      BY <2>3, <3>1
    <3> QED BY <3>1, <3>2, AtMostOne
  <2> QED BY <2>2, <2>3, <2>4 DEF Sound, ParseInv, FirstListOk
<1> QED BY <1>2, <1>5, <1>7, <1>8, <1>9

\* A request is received.
LEMMA ReceiveInv ==
    ASSUME Inv, (\E m \in Srms : SendSRMData(m)) \/ GetSrmData
    PROVE  Inv'
<1> USE DEF boundVars
<1>0. faults \in Nat /\ stops \in Nat /\ buf \in Seq(Srms)
  BY DEF Inv, TypeOK
<1>1. ASSUME NEW m \in Srms, SendSRMData(m)
      PROVE  Inv'
  <2>1. stops' \in Nat /\ UNCHANGED <<tableVars, fileVars>>
    BY <1>0, <1>1 DEF SendSRMData
  <2>2. ASSUME NEW s \in {"INVALID_PARAMETER", "INSUFFICIENT_MEMORY"},
               Answer(s), faults' \in Nat
        PROVE  Inv'
    BY <2>1, <2>2, AnswerInv DEF Statuses
  <2>3. ASSUME pc = "idle", pc' = "data", request' = m, status' = "none",
               UNCHANGED <<parseVars, faults>>
        PROVE  Inv'
    <3> USE <2>3 DEF tableVars, parseVars, fileVars
    <3>1. TypeOK'
      BY <2>1 DEF Inv, TypeOK, Pcs, Statuses
    <3>2. ParseInv' /\ RequestInv' /\ StoreInv'
      BY <2>1 DEF Inv, ParseInv, RequestInv, StoreInv, StorePcs, Sound
    <3>3. SourceInv'
      BY <2>1, SrmFields DEF SourceInv, StorePcs
    <3>4. TableIsOneSrm'
      BY <2>1 DEF Inv, TableIsOneSrm
    <3> QED BY <3>1, <3>2, <3>3, <3>4 DEF Inv
  <2>4. faults' \in Nat
    BY <1>0, <1>1 DEF SendSRMData, Fault
  <2> QED BY <1>1, <2>2, <2>3, <2>4 DEF SendSRMData
<1>2. ASSUME GetSrmData
      PROVE  Inv'
  <2>1. /\ faults' \in Nat /\ stops' \in Nat
        /\ UNCHANGED <<tableVars, fileVars>> /\ pc = "data"
    BY <1>0, <1>2 DEF GetSrmData
  <2>2. CASE Answer("INTERNAL")
    BY <2>1, <2>2, AnswerInv DEF Statuses
  <2>3. ASSUME pc' = "header", buf' = Bytes(request),
               UNCHANGED <<request, status, offset, lists>>
        PROVE  Inv'
    <3>0. request \in Srms /\ request # NoSrm /\ Bytes(request) \in Seq(Srms)
      <4>1. request \in Srms
        BY <2>1 DEF Inv, SourceInv, TypeOK
      <4> QED BY <4>1, BytesType, SrmFields
    <3> USE <2>3 DEF tableVars, fileVars
    <3>1. TypeOK'
      BY <2>1, <3>0 DEF Inv, TypeOK, Pcs
    <3>2. ParseInv' /\ RequestInv' /\ StoreInv'
      BY <2>1 DEF Inv, ParseInv, RequestInv, StoreInv, StorePcs, Sound
    <3>3. SourceInv'
      <4>1. Bytes(request)' = Bytes(request) /\ Bytes(request) # <<>>
        BY <3>0, BytesType DEF Bytes
      <4>2. status' = "none"
        BY <3>0 DEF Inv, SourceInv
      <4> QED BY <2>1, <3>0, <4>1, <4>2 DEF SourceInv, StorePcs
    <3>4. TableIsOneSrm'
      BY <2>1 DEF Inv, TableIsOneSrm
    <3> QED BY <3>1, <3>2, <3>3, <3>4 DEF Inv
  <2> QED BY <1>2, <2>2, <2>3 DEF GetSrmData
<1> QED BY <1>1, <1>2

\* The checks of the header.
LEMMA HeaderInv ==
    ASSUME Inv, RetrieveHeader
    PROVE  Inv'
<1>1. /\ pc = "header" /\ stops' \in Nat /\ faults' \in Nat
      /\ UNCHANGED <<tableVars, fileVars>>
  BY DEF RetrieveHeader, Inv, TypeOK, Fault
<1>2. ASSUME NEW err \in HeaderErrors \cup CallErrors, RetrieveError(err)
      PROVE  Inv'
  <2>1. err \in {"EINVAL", "EAGAIN", "ENOMEM"}
    BY HeaderErrorsType DEF CallErrors
  <2> QED BY <1>1, <1>2, <2>1, RetrieveErrorInv
<1>3. ASSUME HeaderErrors = {}, pc' = "vrls", offset' = buf[1].ends[1],
             lists' = <<buf[1]>>, UNCHANGED <<request, status, buf>>
      PROVE  Inv'
  <2> USE <1>3 DEF tableVars, fileVars
  <2>0. buf # <<>> /\ buf \in Seq(Srms)
    BY <1>1 DEF Inv, SourceInv, TypeOK
  <2>1. /\ buf[1] \in Srms /\ FirstListOk(buf[1])
        /\ Intact(buf, buf[1], 0, buf[1].ends[1]) /\ buf[1].version >= version
    BY <2>0, HeaderAccepted DEF Inv
  <2>2. buf[1].ends[1] \in Nat
    BY <2>1, SrmFields
  <2>3. TypeOK'
    <3>1. <<buf[1]>> \in Seq(Srms)
      BY <2>1
    <3> QED BY <1>1, <2>2, <3>1 DEF Inv, TypeOK, Pcs
  <2>4. ParseInv'
    <3>1. FirstListOk(buf[1])' /\ Intact(buf, buf[1], 0, buf[1].ends[1])'
      BY <2>1 DEF FirstListOk, Intact
    <3> QED BY <1>1, <2>1, <3>1 DEF ParseInv
  <2>5. SourceInv'
    BY <1>1 DEF Inv, SourceInv, StorePcs, Bytes
  <2>6. RequestInv'
    <3> SUFFICES ASSUME NEW m \in Srms, Sound(m), buf = Bytes(m)
                 PROVE  offset' = Len(buf)
      BY DEF RequestInv, Sound, Bytes
    <3>1. buf[1] = m /\ Len(buf) = m.size
      BY BytesType
    <3> QED BY <3>1 DEF Sound
  <2>7. StoreInv'
    BY <1>1 DEF Inv, StoreInv, StorePcs, Sound
  <2>8. TableIsOneSrm'
    BY <1>1 DEF Inv, TableIsOneSrm
  <2> QED BY <2>3, <2>4, <2>5, <2>6, <2>7, <2>8 DEF Inv
<1> QED BY <1>2, <1>3 DEF RetrieveHeader

\* One pass of the loop.
LEMMA VrlInv ==
    ASSUME Inv, RetrieveVrl
    PROVE  Inv'
<1>1. /\ pc = "vrls" /\ offset < Len(buf) /\ stops' \in Nat /\ faults' \in Nat
      /\ UNCHANGED <<tableVars, fileVars>>
  BY DEF RetrieveVrl, Inv, TypeOK, Fault
<1>2. ASSUME NEW err \in CallErrors, RetrieveError(err)
      PROVE  Inv'
  BY <1>1, <1>2, RetrieveErrorInv DEF CallErrors
<1>3. ASSUME NEW v \in 0 .. MaxVrlLength, VrlAccepted(v), offset' = offset + v,
             lists' = Append(lists, buf[offset + 1]),
             UNCHANGED <<pc, request, status, buf>>
      PROVE  Inv'
  <2> USE <1>3 DEF tableVars, fileVars
  <2>0. /\ buf # <<>> /\ buf \in Seq(Srms) /\ lists \in Seq(Srms) /\ offset \in Nat
        /\ v \in Nat
    BY <1>1, LengthsAssumption DEF Inv, SourceInv, TypeOK
  <2>1. offset + 2 + v <= Len(buf)
    BY DEF VrlAccepted, VrlFits
  <2>2. buf[offset + 1] \in Srms
    BY <1>1, <2>0
  <2>3. /\ lists' \in Seq(Srms) /\ lists' # <<>> /\ offset' \in Nat
        /\ Len(lists') = Len(lists) + 1 /\ Len(lists) \in Nat
    BY <2>0, <2>2
  <2>4. TypeOK'
    BY <1>1, <2>3 DEF Inv, TypeOK
  <2>5. ParseInv'
    <3>1. lists # <<>> /\ lists[1] = buf[1]
      BY <1>1 DEF Inv, ParseInv
    <3>2. Len(lists) >= 1 /\ lists'[1] = lists[1]
      BY <2>0, <2>2, <3>1
    <3>3. ~(Len(lists') = 1) /\ offset' + 2 <= Len(buf)
      BY <2>0, <2>1, <2>3, <3>2
    <3>4. /\ FirstListOk(buf[1])' /\ Intact(buf, buf[1], 0, buf[1].ends[1])'
          /\ (buf[1].version >= version)'
      BY <1>1 DEF Inv, ParseInv, FirstListOk, Intact
    <3> QED BY <2>3, <3>1, <3>2, <3>3, <3>4 DEF ParseInv
  <2>6. SourceInv'
    BY <1>1 DEF Inv, SourceInv, StorePcs, Bytes
  <2>7. RequestInv'
    <3>1. ~(offset = Len(buf))
      BY <1>1, <2>0
    <3> QED BY <1>1, <3>1 DEF Inv, RequestInv, Sound, Bytes
  <2>8. StoreInv'
    BY <1>1 DEF Inv, StoreInv, StorePcs, Sound
  <2>9. TableIsOneSrm'
    BY <1>1 DEF Inv, TableIsOneSrm
  <2> QED BY <2>4, <2>5, <2>6, <2>7, <2>8, <2>9 DEF Inv
<1> QED BY <1>2, <1>3 DEF RetrieveVrl, CallErrors

\* The new table takes the place of the old one.
LEMMA DoneInv ==
    ASSUME Inv, RetrieveDone
    PROVE  Inv'
<1>1. /\ pc = "vrls" /\ offset >= Len(buf)
      /\ version' = buf[1].version /\ table' = lists
      /\ pc' = IF request = NoSrm THEN "idle" ELSE "open"
      /\ buf' = <<>> /\ offset' = 0 /\ lists' = <<>>
      /\ UNCHANGED <<disabled, request, status, file, kernelFile, faults, stops>>
  BY DEF RetrieveDone, fileVars, boundVars
<1>2. /\ lists = <<buf[1]>> /\ buf[1] \in Srms
      /\ request # NoSrm => request = buf[1] /\ Sound(request)
  BY <1>1, Accepted
<1>3. buf[1].version \in Nat /\ lists \in Seq(Srms) /\ <<>> \in Seq(Srms)
  BY <1>2, SrmFields DEF Inv, TypeOK
<1>4. TypeOK'
  BY <1>1, <1>3 DEF Inv, TypeOK, Pcs
<1>5. ParseInv' /\ RequestInv'
  BY <1>1 DEF ParseInv, RequestInv
<1>6. SourceInv'
  BY <1>1 DEF Inv, SourceInv, StorePcs
<1>7. StoreInv'
  BY <1>1, <1>2 DEF Inv, StoreInv, StorePcs, Sound
<1>8. TableIsOneSrm'
  <2>1. buf[1].isSrm /\ buf[1].authentic
    BY <1>1 DEF Inv, ParseInv, FirstListOk
  <2>2. Len(<<buf[1]>>) = 1 /\ <<buf[1]>>[1] = buf[1]
    OBVIOUS
  <2>3. table' = <<buf[1]>> /\ version' = buf[1].version
    BY <1>1, <1>2
  <2>4. table' # <<>> /\ \A k \in DOMAIN table' : table'[k] = buf[1]
    BY <2>2, <2>3
  <2>5. table'[1] = buf[1]
    BY <2>2, <2>3
  <2> QED BY <2>1, <2>3, <2>4, <2>5 DEF TableIsOneSrm
<1> QED BY <1>4, <1>5, <1>6, <1>7, <1>8 DEF Inv

\* The files are opened.
LEMMA OpenInv ==
    ASSUME Inv, OpenFile \/ KernelOpen
    PROVE  Inv'
<1>1. /\ pc \in {"open", "kernelOpen"} /\ stops' \in Nat /\ faults' \in Nat
      /\ UNCHANGED <<tableVars, fileVars>>
  BY DEF OpenFile, KernelOpen, Inv, TypeOK, Fault
<1>2. CASE Answer("INTERNAL")
  BY <1>1, <1>2, AnswerInv DEF Statuses
<1>3. ASSUME \/ pc = "open" /\ pc' \in {"write", "kernelOpen"}
                /\ (pc' = "kernelOpen" => disabled)
             \/ pc = "kernelOpen" /\ pc' = "kernelWrite",
             UNCHANGED <<request, status, parseVars>>
      PROVE  Inv'
  <2> USE <1>3 DEF tableVars, parseVars, fileVars
  <2>1. TypeOK'
    BY <1>1 DEF Inv, TypeOK, Pcs
  <2>2. ParseInv' /\ RequestInv'
    BY DEF ParseInv, RequestInv
  <2>3. SourceInv'
    BY DEF Inv, SourceInv, StorePcs
  <2>4. StoreInv'
    BY <1>1 DEF Inv, StoreInv, StorePcs, Sound, Intact
  <2>5. TableIsOneSrm'
    BY <1>1 DEF Inv, TableIsOneSrm
  <2> QED BY <2>1, <2>2, <2>3, <2>4, <2>5 DEF Inv
<1> QED BY <1>2, <1>3 DEF OpenFile, KernelOpen

\* A write of a well-formed message keeps every byte of the file one of a
\* well-formed message.
LEMMA OverwrittenOk ==
    ASSUME NEW f \in Seq(Srms), \A i \in DOMAIN f : Sound(f[i]),
           NEW m \in Srms, Sound(m), NEW n \in Nat
    PROVE  \A i \in DOMAIN Overwritten(f, m, n) : Sound(Overwritten(f, m, n)[i])
<1> SUFFICES ASSUME NEW i \in DOMAIN Overwritten(f, m, n)
             PROVE  Sound(Overwritten(f, m, n)[i])
  OBVIOUS
<1>1. /\ Overwritten(f, m, n)[i] = IF i <= n THEN m ELSE f[i]
      /\ i <= n \/ i \in DOMAIN f
  <2>1. i \in 1 .. Len(Overwritten(f, m, n))
    BY OverwrittenType
  <2> QED BY <2>1, OverwrittenType
<1>2. CASE i <= n
  BY <1>1, <1>2
<1>3. CASE ~(i <= n)
  BY <1>1, <1>3
<1> QED BY <1>2, <1>3

\* The files are written.
LEMMA WriteInv ==
    ASSUME Inv, WriteFile \/ KernelWrite
    PROVE  Inv'
<1>1. PICK n \in 0 .. request.size :
        /\ \/ /\ pc = "write" /\ file' = Overwritten(file, request, n)
              /\ kernelFile' = kernelFile
           \/ /\ pc = "kernelWrite" /\ file' = file
              /\ kernelFile' = Overwritten(kernelFile, request, n)
        /\ \/ Answer("INTERNAL") \/ Answer("SUCCESSFUL")
           \/ /\ pc = "write" /\ n = request.size /\ pc' = "kernelOpen"
              /\ UNCHANGED <<request, status, parseVars>>
  BY DEF WriteFile, KernelWrite, WholeWritten
<1>2. stops' \in Nat /\ faults' \in Nat /\ UNCHANGED tableVars
  BY DEF WriteFile, KernelWrite, Inv, TypeOK, Fault
<1>3. request \in Srms /\ Sound(request) /\ request # NoSrm
  BY <1>1 DEF Inv, TypeOK, SourceInv, StoreInv, StorePcs
<1>4. n \in Nat /\ request.size \in Nat
  BY <1>3, SrmFields
<1>5. file' \in Seq(Srms) /\ kernelFile' \in Seq(Srms)
  BY <1>1, <1>3, <1>4, OverwrittenType DEF Inv, TypeOK
<1>6. \A i \in DOMAIN file' : Sound(file[i])'
  <2>1. \A i \in DOMAIN file' : Sound(file'[i])
    BY <1>1, <1>3, <1>4, OverwrittenOk DEF Inv, TypeOK, StoreInv
  <2> QED BY <2>1 DEF Sound
<1>7. ASSUME NEW s \in Statuses, Answer(s)
      PROVE  Inv'
  BY <1>2, <1>5, <1>6, <1>7, IdleInv DEF Answer
<1>8. ASSUME pc = "write", n = request.size, pc' = "kernelOpen",
             UNCHANGED <<request, status, parseVars>>
      PROVE  Inv'
  <2> USE <1>8 DEF tableVars, parseVars
  <2>1. TypeOK'
    BY <1>2, <1>5 DEF Inv, TypeOK, Pcs
  <2>2. ParseInv' /\ RequestInv'
    BY DEF ParseInv, RequestInv
  <2>3. SourceInv'
    BY DEF Inv, SourceInv, StorePcs
  <2>4. StoreInv'
    <3>1. file' = Overwritten(file, request, n) /\ file \in Seq(Srms)
      BY <1>1 DEF Inv, TypeOK
    <3>2. Len(file') >= n /\ Len(file') \in Nat
      BY <1>3, <1>4, <1>5, <3>1, OverwrittenType
    <3>3. \A i \in 1 .. n : file'[i] = request
      <4>1. \A i \in 1 .. Len(file') : file'[i] = IF i <= n THEN request ELSE file[i]
        BY <1>3, <1>4, <3>1, OverwrittenType
      <4> QED BY <1>4, <3>2, <4>1
    <3>4. Intact(file', request, 0, request.size)
      BY <1>4, <3>2, <3>3 DEF Intact
    <3>5. Intact(file, request, 0, request.size)' /\ Sound(request)'
      BY <1>3, <3>4 DEF Intact, Sound
    <3>6. table' = <<request'>>
      BY <1>2 DEF Inv, StoreInv, StorePcs
    <3> QED BY <1>6, <3>5, <3>6 DEF StoreInv, StorePcs
  <2>5. TableIsOneSrm'
    BY <1>2 DEF Inv, TableIsOneSrm
  <2> QED BY <2>1, <2>2, <2>3, <2>4, <2>5 DEF Inv
<1> QED BY <1>1, <1>7, <1>8 DEF Statuses

\* The daemon starts and ends.
LEMMA StartInv ==
    ASSUME Inv, Start
    PROVE  Inv'
<1>1. /\ pc = "down" /\ stops' \in Nat /\ faults' \in Nat
      /\ UNCHANGED <<version, table, disabled, request, status, offset, lists,
                     file, kernelFile>>
      /\ \/ pc' \in {"idle", "down"} /\ buf' = buf
         \/ pc' = "header" /\ buf' = file /\ file # <<>>
  BY DEF Start, Inv, TypeOK, Fault, tableVars, fileVars
<1>2. TypeOK'
  BY <1>1 DEF Inv, TypeOK, Pcs
<1>3. ParseInv' /\ RequestInv'
  BY <1>1 DEF ParseInv, RequestInv
<1>4. SourceInv'
  BY <1>1 DEF Inv, SourceInv, StorePcs
<1>5. StoreInv'
  BY <1>1 DEF Inv, StoreInv, StorePcs, Sound
<1>6. TableIsOneSrm'
  BY <1>1 DEF Inv, TableIsOneSrm
<1> QED BY <1>2, <1>3, <1>4, <1>5, <1>6 DEF Inv

\* A stop forgets the table, and may leave a file torn.
LEMMA StopInv ==
    ASSUME Inv, Stop
    PROVE  Inv'
<1>1. /\ pc' = "down" /\ version' = 0 /\ table' = <<>> /\ disabled' = FALSE
      /\ request' = NoSrm /\ status' = "none"
      /\ buf' = <<>> /\ offset' = 0 /\ lists' = <<>>
      /\ stops' \in Nat /\ faults' \in Nat
  BY DEF Stop, Inv, TypeOK
<1>2. \/ file' = file /\ kernelFile' = kernelFile
      \/ \E n \in 1 .. request.size :
            \/ /\ pc = "write" /\ kernelFile' = kernelFile
               /\ file' = Overwritten(file, request, n)
            \/ /\ pc = "kernelWrite" /\ file' = file
               /\ kernelFile' = Overwritten(kernelFile, request, n)
  BY DEF Stop, fileVars
<1>3. /\ file' \in Seq(Srms) /\ kernelFile' \in Seq(Srms)
      /\ \A i \in DOMAIN file' : Sound(file'[i])
  <2>1. CASE file' = file /\ kernelFile' = kernelFile
    BY <2>1 DEF Inv, TypeOK, StoreInv
  <2>2. ASSUME NEW n \in 1 .. request.size, pc \in {"write", "kernelWrite"},
               \/ file' = file /\ kernelFile' = Overwritten(kernelFile, request, n)
               \/ kernelFile' = kernelFile /\ file' = Overwritten(file, request, n)
        PROVE  /\ file' \in Seq(Srms) /\ kernelFile' \in Seq(Srms)
               /\ \A i \in DOMAIN file' : Sound(file'[i])
    <3>1. request \in Srms /\ Sound(request)
      BY <2>2 DEF Inv, TypeOK, SourceInv, StoreInv, StorePcs
    <3>2. n \in Nat
      BY <3>1, SrmFields
    <3>3. /\ file \in Seq(Srms) /\ kernelFile \in Seq(Srms)
          /\ \A i \in DOMAIN file : Sound(file[i])
      BY DEF Inv, TypeOK, StoreInv
    <3>4. /\ Overwritten(file, request, n) \in Seq(Srms)
          /\ Overwritten(kernelFile, request, n) \in Seq(Srms)
      BY <3>1, <3>2, <3>3, OverwrittenType
    <3>5. \A i \in DOMAIN Overwritten(file, request, n) :
             Sound(Overwritten(file, request, n)[i])
      BY <3>1, <3>2, <3>3, OverwrittenOk
    <3> QED BY <2>2, <3>3, <3>4, <3>5
  <2> QED BY <1>2, <2>1, <2>2
<1>4. \A i \in DOMAIN file' : Sound(file[i])'
  BY <1>3 DEF Sound
<1>5. TypeOK'
  <2>1. <<>> \in Seq(Srms)
    OBVIOUS
  <2> QED BY <1>1, <1>3, <2>1 DEF TypeOK, Pcs, Statuses
<1>6. ParseInv' /\ RequestInv' /\ SourceInv' /\ StoreInv' /\ TableIsOneSrm'
  BY <1>1, <1>4 DEF ParseInv, RequestInv, SourceInv, StoreInv, StorePcs, TableIsOneSrm
<1> QED BY <1>5, <1>6 DEF Inv

\* SrmConfig only switches the store off or on.
LEMMA ConfigInv ==
    ASSUME Inv, NEW d \in BOOLEAN, Config(d) \/ UNCHANGED vars
    PROVE  Inv'
<1>1. /\ pc = "idle" \/ disabled' = disabled
      /\ disabled' \in BOOLEAN
      /\ UNCHANGED <<pc, version, table, request, status, buf, offset, lists, file,
                     kernelFile, faults, stops>>
  BY DEF Config, vars, tableVars, parseVars, fileVars, boundVars, Inv, TypeOK
<1>2. TypeOK'
  BY <1>1 DEF Inv, TypeOK
<1>3. ParseInv'
  BY <1>1 DEF Inv, ParseInv, FirstListOk, Intact
<1>4. SourceInv'
  BY <1>1 DEF Inv, SourceInv, Bytes
<1>5. RequestInv'
  BY <1>1 DEF Inv, RequestInv, Sound, Bytes
<1>6. StoreInv'
  <2>1. \A i \in DOMAIN file' : Sound(file[i])'
    BY <1>1 DEF Inv, StoreInv, Sound
  <2>2. pc' \in StorePcs => table' = <<request'>> /\ Sound(request)'
    BY <1>1 DEF Inv, StoreInv, Sound
  <2>3. pc' \in {"kernelOpen", "kernelWrite"} =>
          disabled' \/ Intact(file, request, 0, request.size)'
    BY <1>1 DEF Inv, StoreInv, Intact
  <2> QED BY <2>1, <2>2, <2>3 DEF StoreInv
<1>7. TableIsOneSrm'
  BY <1>1 DEF Inv, TableIsOneSrm
<1> QED BY <1>2, <1>3, <1>4, <1>5, <1>6, <1>7 DEF Inv

\* The invariant is inductive.
LEMMA InvStep == Inv /\ [Next]_vars => Inv'
BY ReceiveInv, HeaderInv, VrlInv, DoneInv, OpenInv, WriteInv, StartInv, StopInv,
   ConfigInv DEF Next, Retrieve, Store

\* It holds in every reachable state.
LEMMA InvHolds == Spec => []Inv
BY InvInit, InvStep, PTL DEF Spec

-----------------------------------------------------------------------------
(***************************************************************************)
(* The theorems                                                            *)
(***************************************************************************)

\* Every offset, status and file stays in its range.
THEOREM TypeCorrect == Spec => []TypeOK
<1>1. Inv => TypeOK
  BY DEF Inv
<1> QED BY <1>1, InvHolds, PTL

\* No table mixes the lists of two SRMs, whatever is left in the file.
THEOREM TableCorrect == Spec => []TableIsOneSrm
<1>1. Inv => TableIsOneSrm
  BY DEF Inv
<1> QED BY <1>1, InvHolds, PTL

\* The version in memory never goes back while the daemon runs.
THEOREM VersionCorrect == Spec => VersionNeverRollsBack
<1> DEFINE Step == pc' # "down" => version' >= version
<1>1. ASSUME Inv, [Next]_vars
      PROVE  [Step]_vars
  <2>0. version \in Nat
    BY <1>1 DEF Inv, TypeOK
  <2>1. CASE version' = version
    BY <2>0, <2>1
  <2>2. CASE Stop
    BY <2>2 DEF Stop
  <2>3. CASE RetrieveDone
    BY <1>1, <2>3 DEF RetrieveDone, Inv, ParseInv
  <2>4. version' = version \/ Stop \/ RetrieveDone
    BY <1>1 DEF Next, Retrieve, Store, Start, SendSRMData, GetSrmData, Config,
       RetrieveHeader, RetrieveVrl, OpenFile, WriteFile, KernelOpen, KernelWrite,
       tableVars, vars
  <2> QED BY <2>1, <2>2, <2>3, <2>4
<1> QED BY <1>1, InvHolds, PTL DEF Spec, VersionNeverRollsBack

\* SUCCESSFUL means that memory and both files hold the SRM.
THEOREM AcknowledgementCorrect == Spec => AcknowledgedIsStored
<1> DEFINE Step ==
      request # NoSrm /\ status' = "SUCCESSFUL" =>
          /\ table' = <<request>>
          /\ Intact(kernelFile', request, 0, request.size)
          /\ disabled \/ Intact(file', request, 0, request.size)
<1>1. ASSUME Inv, [Next]_vars
      PROVE  [Step]_vars
  <2> SUFFICES ASSUME request # NoSrm, status' = "SUCCESSFUL" PROVE Step
    OBVIOUS
  <2>1. status = "none"
    BY <1>1 DEF Inv, SourceInv
  <2>2. KernelWrite
    <3>1. CASE Start \/ Stop \/ GetSrmData \/ (\E d \in BOOLEAN : Config(d))
               \/ UNCHANGED vars
      BY <2>1, <3>1 DEF Start, Stop, GetSrmData, Config, Answer, vars
    <3>2. CASE \E m \in Srms : SendSRMData(m)
      BY <2>1, <3>2 DEF SendSRMData, Answer
    <3>3. CASE Retrieve
      BY <2>1, <3>3 DEF Retrieve, RetrieveHeader, RetrieveVrl, RetrieveDone,
         RetrieveError, Answer
    <3>4. CASE OpenFile \/ WriteFile \/ KernelOpen
      BY <2>1, <3>4 DEF OpenFile, WriteFile, KernelOpen, Answer
    <3> QED BY <1>1, <3>1, <3>2, <3>3, <3>4 DEF Next, Store
  <2>3. /\ pc = "kernelWrite" /\ file' = file /\ table' = table
        /\ kernelFile' = Overwritten(kernelFile, request, request.size)
    <3>1. PICK n \in 0 .. request.size :
             /\ kernelFile' = Overwritten(kernelFile, request, n)
             /\ n < request.size => Answer("INTERNAL")
      BY <2>2 DEF KernelWrite
    <3>2. request \in Srms
      BY <1>1 DEF Inv, TypeOK
    <3>3. request.size \in Nat
      BY <3>2, SrmFields
    <3>4. n = request.size
      BY <3>1, <3>3 DEF Answer
    <3> QED BY <2>2, <3>1, <3>4 DEF KernelWrite, tableVars
  <2>4. request \in Srms /\ request.size \in Nat /\ kernelFile \in Seq(Srms)
    BY <1>1, SrmFields DEF Inv, TypeOK
  <2>5. Intact(kernelFile', request, 0, request.size)
    <3>1. /\ Len(kernelFile') >= request.size /\ Len(kernelFile') \in Nat
          /\ \A i \in 1 .. Len(kernelFile') :
                kernelFile'[i] = IF i <= request.size THEN request ELSE kernelFile[i]
      BY <2>3, <2>4, OverwrittenType
    <3> QED BY <2>4, <3>1 DEF Intact
  <2>6. table = <<request>> /\ (disabled \/ Intact(file, request, 0, request.size))
    BY <1>1, <2>3 DEF Inv, StoreInv, StorePcs
  <2> QED BY <2>3, <2>5, <2>6
<1> QED BY <1>1, InvHolds, PTL DEF Spec, AcknowledgedIsStored

\* A well-formed SRM is refused only for a newer one in memory or for its later
\* generations.
THEOREM RefusalCorrect == Spec => RefusalJustified
<1> DEFINE Step ==
      request # NoSrm /\ WellFormed(request) /\ faults' = faults =>
          /\ status' = "SRM_INVALID" => Len(request.ends) > 1
          /\ status' = "SRM_NOT_RECENT" => request.version < version
<1>1. ASSUME Inv, [Next]_vars
      PROVE  [Step]_vars
  <2> SUFFICES ASSUME request # NoSrm, WellFormed(request), faults' = faults
               PROVE  Step
    OBVIOUS
  <2>0. status = "none" /\ request \in Srms /\ faults \in Nat
    BY <1>1 DEF Inv, SourceInv, TypeOK
  <2>1. ~Fault
    BY <2>0 DEF Fault
  <2>2. CASE RetrieveHeader
    <3>1. pc = "header" /\ buf = Bytes(request)
      BY <1>1, <2>2 DEF RetrieveHeader, Inv, SourceInv
    <3>2. status' = status \/ \E err \in HeaderErrors : RetrieveError(err)
      BY <2>1, <2>2 DEF RetrieveHeader
    <3>3. ASSUME NEW err \in HeaderErrors, RetrieveError(err)
          PROVE  status' = "SRM_NOT_RECENT" /\ request.version < version
      <4>1. err = "EAGAIN" /\ request.version < version
        BY <1>1, <2>0, <3>1, HeaderRefused DEF Inv
      <4> QED BY <3>3, <4>1 DEF RetrieveError, Answer
    <3> QED BY <2>0, <3>2, <3>3
  <2>3. CASE RetrieveVrl
    <3>1. /\ pc = "vrls" /\ buf = Bytes(request) /\ offset < Len(buf)
          /\ offset \in Nat /\ Len(buf) \in Nat
      BY <1>1, <2>3 DEF RetrieveVrl, Inv, SourceInv, TypeOK
    <3>2. ~Sound(request)
      BY <1>1, <2>0, <3>1 DEF Inv, RequestInv
    <3>3. Len(request.ends) > 1
      BY <2>0, <3>2, SoundIsWellFormed, SrmFields, AtMostOne
    <3>4. status' # "SRM_NOT_RECENT"
      BY <2>0, <2>1, <2>3 DEF RetrieveVrl, RetrieveError, Answer
    <3> QED BY <3>3, <3>4
  <2>4. CASE UNCHANGED vars \/ (\E m \in Srms : SendSRMData(m))
    BY <2>0, <2>4 DEF vars, SendSRMData, Answer
  <2>5. CASE Start \/ Stop \/ GetSrmData \/ (\E d \in BOOLEAN : Config(d))
             \/ RetrieveDone \/ Store
    BY <2>0, <2>5 DEF Start, Stop, GetSrmData, Config, RetrieveDone, Store, OpenFile,
       WriteFile, KernelOpen, KernelWrite, Answer
  <2> QED BY <1>1, <2>2, <2>3, <2>4, <2>5 DEF Next, Retrieve
<1> QED BY <1>1, InvHolds, PTL DEF Spec, RefusalJustified

\* A start loads the file exactly when it is one well-formed SRM.
THEOREM StartCorrect == Spec => StartLoadsExactFile
<1> DEFINE Exact == \E m \in Srms : WellFormed(m) /\ file = Bytes(m)
           Step == ReadsFile /\ pc' = "idle" /\ faults' = faults =>
                      (table' # <<>> <=> Exact)
<1>1. ASSUME Inv, [Next]_vars
      PROVE  [Step]_vars
  <2> SUFFICES ASSUME ReadsFile, pc' = "idle", faults' = faults
               PROVE  table' # <<>> <=> Exact
    OBVIOUS
  <2>0. /\ pc \in {"header", "vrls"} /\ request = NoSrm /\ faults \in Nat
        /\ buf = file /\ table = <<>> /\ version = 0
    BY <1>1 DEF ReadsFile, Inv, SourceInv, TypeOK
  <2>1. ~Fault
    BY <2>0 DEF Fault
  <2>2. CASE RetrieveHeader
    <3>1. table' = <<>> /\ HeaderErrors # {}
      BY <2>0, <2>1, <2>2 DEF RetrieveHeader, tableVars
    <3>2. ASSUME NEW m \in Srms, WellFormed(m), file = Bytes(m)
          PROVE  FALSE
      <4>1. m.version < version
        BY <1>1, <2>0, <3>1, <3>2, HeaderRefused DEF Inv
      <4>2. m.version \in Nat
        BY SrmFields
      <4> QED BY <2>0, <4>1, <4>2
    <3> QED BY <3>1, <3>2
  <2>3. CASE RetrieveVrl
    <3>1. /\ pc = "vrls" /\ table' = <<>> /\ offset < Len(buf)
          /\ offset \in Nat /\ Len(buf) \in Nat
      BY <1>1, <2>0, <2>3 DEF RetrieveVrl, tableVars, Inv, TypeOK
    <3>2. ASSUME NEW m \in Srms, WellFormed(m), file = Bytes(m)
          PROVE  FALSE
      <4>0. Sound(m)
        <5>1. file[1] = m /\ 1 \in DOMAIN file
          BY <3>2, BytesType
        <5> QED BY <1>1, <5>1 DEF Inv, StoreInv
      <4>1. offset = Len(buf)
        BY <1>1, <2>0, <3>1, <3>2, <4>0 DEF Inv, RequestInv
      <4> QED BY <3>1, <4>1
    <3> QED BY <3>1, <3>2
  <2>4. CASE RetrieveDone
    <3>1. pc = "vrls" /\ offset >= Len(buf) /\ table' = lists
      BY <2>4 DEF RetrieveDone
    <3>2. /\ lists = <<buf[1]>> /\ buf[1] \in Srms /\ Len(buf) = buf[1].ends[1]
          /\ \A i \in 1 .. Len(buf) : buf[i] = buf[1]
      BY <1>1, <3>1, Accepted
    <3>3. file \in Seq(Srms) /\ file # <<>>
      BY <1>1, <2>0 DEF Inv, TypeOK, SourceInv
    <3>4. Sound(file[1])
      <4>1. 1 \in DOMAIN file
        BY <3>3
      <4> QED BY <1>1, <4>1 DEF Inv, StoreInv
    <3>5. Len(file) = file[1].size
      BY <2>0, <3>2, <3>4 DEF Sound
    <3>6. file = Bytes(file[1])
      BY <2>0, <3>2, <3>3, <3>5 DEF Bytes
    <3>7. table' # <<>>
      BY <3>1, <3>2
    <3> QED BY <2>0, <3>2, <3>4, <3>6, <3>7, SoundIsWellFormed
  <2>5. CASE Start \/ Stop \/ GetSrmData \/ (\E d \in BOOLEAN : Config(d))
             \/ (\E m \in Srms : SendSRMData(m)) \/ Store \/ UNCHANGED vars
    BY <2>0, <2>5 DEF Start, Stop, GetSrmData, Config, SendSRMData, Store, OpenFile,
       WriteFile, KernelOpen, KernelWrite, vars
  <2> QED BY <1>1, <2>2, <2>3, <2>4, <2>5 DEF Next, Retrieve
<1> QED BY <1>1, InvHolds, PTL DEF Spec, StartLoadsExactFile

=============================================================================

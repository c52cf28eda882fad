------------------------------ MODULE SrmStore ------------------------------
(***************************************************************************)
(* The store of system renewability messages (daemon/srm.cpp) with the     *)
(* handlers that use it: HdcpDaemon::SendSRMData and Config, and           *)
(* PortManager::SendSRMData, which hands an SRM to the kernel.             *)
(*                                                                         *)
(* An SRM lives in three places: the table in memory, the daemon's own     *)
(* file, read when the daemon starts, and the firmware file the kernel     *)
(* reads.  They are written one after the other, each write may fail or be *)
(* cut short, and the daemon may die between any two steps.                *)
(*                                                                         *)
(* A buffer or a file is a sequence of SRMs: byte i is byte i of the SRM   *)
(* at place i.  Every write starts at offset 0 and the files are opened    *)
(* without O_TRUNC, so a file is a new SRM followed by what is left of     *)
(* older ones.                                                             *)
(***************************************************************************)
EXTENDS Integers, Sequences

CONSTANTS
    Srms,                   \* the messages clients send; see SrmRecord
    NoSrm,                  \* no message is being served
    SRM_HEADER_LENGTH, DSA_SIG_LENGTH, SRM_FIRST_GEN_MAX_SIZE,  \* srm.h
    MaxVrlLength,           \* bound: what two length bytes may say
    MaxFaults, MaxStops     \* bounds: failing calls, ends of the daemon

\* A vector revocation list is its length bytes, its KSVs and two signatures.
MinGen1 == 3 + 2 * DSA_SIG_LENGTH
MinGen2 == 2 + 2 * DSA_SIG_LENGTH

\* ends[k] is the offset at which the k-th revocation list ends according to
\* the length bytes; size is the number of bytes sent.  isSrm: srm_id is
\* right; authentic: the signatures are; counted: the number of KSVs in every
\* list agrees with the list's length.
SrmRecord == [name : STRING, isSrm : BOOLEAN, version : Nat, ends : Seq(Nat),
              size : Nat, authentic : BOOLEAN, counted : BOOLEAN]

ASSUME SrmsAssumption ==
    /\ Srms \subseteq SrmRecord /\ NoSrm \notin Srms
    /\ \A m \in Srms :
          /\ m.size > 0 /\ m.ends # <<>> /\ m.ends[1] >= SRM_HEADER_LENGTH
          /\ \A k \in 1 .. Len(m.ends) - 1 : m.ends[k] + 2 <= m.size
ASSUME LengthsAssumption ==
    /\ SRM_HEADER_LENGTH \in Nat \ {0} /\ DSA_SIG_LENGTH \in Nat \ {0}
    /\ SRM_FIRST_GEN_MAX_SIZE \in Nat /\ MaxVrlLength \in Nat
ASSUME BoundsAssumption == MaxFaults \in Nat /\ MaxStops \in Nat

VARIABLES
    pc,         \* where the main thread is
    version,    \* SrmTable::m_Version
    table,      \* m_RevocationListsByGeneration: the SRM each list is from
    disabled,   \* m_IsSrmStorageDisable
    request,    \* the SRM a client sends, and the
    status,     \* status of the last response about one
    buf, offset, lists,     \* RetrieveSrmFromBuffer's parameter and locals
    file, kernelFile,       \* the contents of the two files
    faults, stops           \* bounded counters

tableVars == <<version, table, disabled>>
parseVars == <<buf, offset, lists>>
fileVars == <<file, kernelFile>>
boundVars == <<faults, stops>>

vars == <<pc, tableVars, request, status, parseVars, fileVars, boundVars>>

Pcs == {"down", "idle", "data", "header", "vrls", "open", "write",
        "kernelOpen", "kernelWrite"}

Statuses == {"none", "SUCCESSFUL", "INVALID_PARAMETER", "INSUFFICIENT_MEMORY",
             "SRM_INVALID", "SRM_NOT_RECENT", "INTERNAL"}

TypeOK ==
    /\ pc \in Pcs
    /\ version \in Nat /\ table \in Seq(Srms) /\ disabled \in BOOLEAN
    /\ request \in Srms \cup {NoSrm} /\ status \in Statuses
    /\ buf \in Seq(Srms) /\ offset \in Nat /\ lists \in Seq(Srms)
    /\ file \in Seq(Srms) /\ kernelFile \in Seq(Srms)
    /\ faults \in Nat /\ stops \in Nat

\* The first start of the daemon finds no file.
Init ==
    /\ pc = "down"
    /\ version = 0 /\ table = <<>> /\ disabled = FALSE
    /\ request = NoSrm /\ status = "none"
    /\ buf = <<>> /\ offset = 0 /\ lists = <<>>
    /\ file = <<>> /\ kernelFile = <<>>
    /\ faults = 0 /\ stops = 0

-----------------------------------------------------------------------------
(***************************************************************************)
(* Buffers                                                                 *)
(***************************************************************************)

\* A library or system call fails.
Fault == faults < MaxFaults /\ faults' = faults + 1

\* The bytes of m as it is sent.
Bytes(m) == [i \in 1 .. m.size |-> m]

\* The bytes of b from offset lo up to offset hi are all m's.
Intact(b, m, lo, hi) == hi <= Len(b) /\ \A i \in lo + 1 .. hi : b[i] = m

\* What write(fd, m, n) at offset 0 makes of a file.
Overwritten(f, m, n) ==
    [i \in 1 .. (IF Len(f) > n THEN Len(f) ELSE n) |-> IF i <= n THEN m ELSE f[i]]

\* DSA_do_verify of the bytes of b from lo to hi, which ought to be m's
\* (OpenSSL, external): bytes of two messages do not verify.
SignatureOk(b, m, lo, hi) == m.authentic /\ Intact(b, m, lo, hi)

\* Mutant: the signature is taken for granted.
SignatureIgnored(b, m, lo, hi) == TRUE

\* VerifySignature, when no allocation fails.
VerifySignature(b, m, lo, hi) == SignatureOk(b, m, lo, hi)

\* The VectorRevocationList constructor finds the count it expects.
VrlValid(m) == m.counted

-----------------------------------------------------------------------------
(***************************************************************************)
(* HdcpDaemon::SendSRMData: the size, then the data                        *)
(***************************************************************************)

\* The handler returns and the loop sends the response.
Answer(s) ==
    /\ pc' = "idle" /\ status' = s /\ request' = NoSrm
    /\ buf' = <<>> /\ offset' = 0 /\ lists' = <<>>

\* A client announces m.  One over the limit of the HDCP specification is
\* refused, as is one the daemon has no memory for; otherwise the client is
\* told to go on.
SendSRMData(m) ==
    /\ pc = "idle"
    /\ \/ /\ m.size > SRM_FIRST_GEN_MAX_SIZE
          /\ Answer("INVALID_PARAMETER")
          /\ UNCHANGED faults
       \/ /\ m.size <= SRM_FIRST_GEN_MAX_SIZE
          /\ Fault
          /\ Answer("INSUFFICIENT_MEMORY")
       \/ /\ m.size <= SRM_FIRST_GEN_MAX_SIZE
          /\ pc' = "data" /\ request' = m /\ status' = "none"
          /\ UNCHANGED <<parseVars, faults>>
    /\ UNCHANGED <<tableVars, fileVars, stops>>

\* The data arrives, or the client is gone.
GetSrmData ==
    /\ pc = "data"
    /\ \/ /\ pc' = "header" /\ buf' = Bytes(request)
          /\ UNCHANGED <<request, status, offset, lists>>
       \/ Answer("INTERNAL")
    /\ UNCHANGED <<tableVars, fileVars, boundVars>>

\* Config: any client may switch the daemon's own file off and on.
Config(disable) ==
    /\ pc = "idle"
    /\ disabled' = disable
    /\ UNCHANGED <<pc, version, table, request, status, parseVars, fileVars,
                   boundVars>>

-----------------------------------------------------------------------------
(***************************************************************************)
(* SrmTable::RetrieveSrmFromBuffer, for the constructor and for StoreSrm   *)
(***************************************************************************)

\* Mutant: the caller's errno is answered as it is.
RetrieveErrorUnmapped(err) ==
    IF request = NoSrm
    THEN /\ pc' = "idle" /\ buf' = <<>> /\ offset' = 0 /\ lists' = <<>>
         /\ UNCHANGED <<request, status>>
    ELSE Answer(err)

\* It returns an error: the constructor goes on with an empty table, StoreSrm
\* passes it to SendSRMData, which answers.
RetrieveError(err) ==
    IF request = NoSrm
    THEN /\ pc' = "idle" /\ buf' = <<>> /\ offset' = 0 /\ lists' = <<>>
         /\ UNCHANGED <<request, status>>
    ELSE Answer(CASE err = "EINVAL" -> "SRM_INVALID"
                  [] err = "EAGAIN" -> "SRM_NOT_RECENT"
                  [] OTHER -> "INTERNAL")

\* Mutant: the version is not compared.
NeverOlder(m) == FALSE

\* The SRM is older than the one in memory.
Older(m) == m.version < version

\* Mutant: off by one.
Gen1FitsWithRoom(end) == end < Len(buf)

\* gen1BufLength is within the buffer.
Gen1Fits(end) == end <= Len(buf)

\* The checks of the header and of the first list.  A buffer too short for a
\* header is only logged: the fields are read past its end, and whatever they
\* hold one of the checks that follow fails.
HeaderErrors ==
    LET m == buf[1]
        end == m.ends[1]
        headerSize == SRM_HEADER_LENGTH + 3
    IN  IF Len(buf) < headerSize
        THEN {"EINVAL"} \cup (IF version > 0 THEN {"EAGAIN"} ELSE {})
        ELSE IF ~Intact(buf, m, 0, headerSize) \/ ~m.isSrm THEN {"EINVAL"}
        ELSE IF Older(m) THEN {"EAGAIN"}
        ELSE IF \/ ~Gen1Fits(end)
                \/ end - SRM_HEADER_LENGTH < MinGen1
                \/ ~VerifySignature(buf, m, 0, end)
                \/ ~VrlValid(m) THEN {"EINVAL"}
        ELSE {}

\* What an allocation or a call of OpenSSL that fails is turned into.
CallErrors == {"ENOMEM", "EINVAL"}

RetrieveHeader ==
    /\ pc = "header"
    /\ \/ /\ \E err \in HeaderErrors : RetrieveError(err)
          /\ UNCHANGED faults
       \/ /\ Fault
          /\ \E err \in CallErrors : RetrieveError(err)
       \/ /\ HeaderErrors = {}
          /\ pc' = "vrls" /\ offset' = buf[1].ends[1] /\ lists' = <<buf[1]>>
          /\ UNCHANGED <<request, status, buf, faults>>
    /\ UNCHANGED <<tableVars, fileVars, stops>>

\* The length bytes at offset: the SRM's, or any number when a list of the SRM
\* the bytes are from does not begin there.
VrlStartsHere(m, k) ==
    /\ k + 1 \in DOMAIN m.ends /\ m.ends[k] = offset /\ m.ends[k + 1] >= offset
    /\ Intact(buf, m, offset, offset + 2)

VrlLength(v) ==
    LET m == buf[offset + 1]
        starts == {k \in DOMAIN m.ends : VrlStartsHere(m, k)}
    IN  IF starts # {}
        THEN \E k \in starts : v = m.ends[k + 1] - offset
        ELSE v \in 0 .. MaxVrlLength

\* (offset + vrlLength) > length is tested after offset has moved past the two
\* length bytes, which vrlLength counts too.
VrlFits(v) == offset + 2 + v <= Len(buf)

VrlAccepted(v) ==
    LET m == buf[offset + 1]
    IN  /\ VrlFits(v) /\ v >= MinGen2
        /\ \E k \in DOMAIN m.ends : VrlStartsHere(m, k)
        /\ VerifySignature(buf, m, offset, offset + v)
        /\ VrlValid(m)

\* One pass of the loop over the lists of the later generations.
RetrieveVrl ==
    /\ pc = "vrls" /\ offset < Len(buf)
    /\ \/ /\ offset + 2 > Len(buf)
          /\ RetrieveError("EINVAL")
          /\ UNCHANGED faults
       \/ /\ offset + 2 <= Len(buf)
          /\ \E v \in 0 .. MaxVrlLength :
                /\ VrlLength(v)
                /\ \/ /\ ~VrlAccepted(v)
                      /\ RetrieveError("EINVAL")
                      /\ UNCHANGED faults
                   \/ /\ VrlAccepted(v)
                      /\ offset' = offset + v
                      /\ lists' = Append(lists, buf[offset + 1])
                      /\ UNCHANGED <<pc, request, status, buf, faults>>
                   \/ /\ Fault
                      /\ \E err \in CallErrors : RetrieveError(err)
    /\ UNCHANGED <<tableVars, fileVars, stops>>

\* The new lists replace the old ones, under the mutex.
RetrieveDone ==
    /\ pc = "vrls" /\ offset >= Len(buf)
    /\ version' = buf[1].version /\ table' = lists
    /\ pc' = IF request = NoSrm THEN "idle" ELSE "open"
    /\ buf' = <<>> /\ offset' = 0 /\ lists' = <<>>
    /\ UNCHANGED <<disabled, request, status, fileVars, boundVars>>

-----------------------------------------------------------------------------
(***************************************************************************)
(* StoreSrm: the daemon's own file; then PortManager::SendSRMData          *)
(***************************************************************************)

OpenFile ==
    /\ pc = "open"
    /\ \/ /\ pc' = IF disabled THEN "kernelOpen" ELSE "write"
          /\ UNCHANGED <<request, status, parseVars, faults>>
       \/ /\ ~disabled /\ Fault
          /\ Answer("INTERNAL")
    /\ UNCHANGED <<tableVars, fileVars, stops>>

\* Mutant: a short write is not noticed.
AnyLength(n) == TRUE

\* bytesWritten == size
WholeWritten(n) == n = request.size

\* One write; a short one is an error, and what it wrote stays.
WriteFile ==
    /\ pc = "write"
    /\ \E n \in 0 .. request.size :
          /\ file' = Overwritten(file, request, n)
          /\ IF n < request.size THEN Fault ELSE UNCHANGED faults
          /\ IF WholeWritten(n)
             THEN pc' = "kernelOpen" /\ UNCHANGED <<request, status, parseVars>>
             ELSE Answer("INTERNAL")
    /\ UNCHANGED <<tableVars, kernelFile, stops>>

KernelOpen ==
    /\ pc = "kernelOpen"
    /\ \/ /\ pc' = "kernelWrite"
          /\ UNCHANGED <<request, status, parseVars, faults>>
       \/ /\ Fault
          /\ Answer("INTERNAL")
    /\ UNCHANGED <<tableVars, fileVars, stops>>

\* Write until all is written or an error that is not EINTR or EAGAIN.
KernelWrite ==
    /\ pc = "kernelWrite"
    /\ \E n \in 0 .. request.size :
          /\ kernelFile' = Overwritten(kernelFile, request, n)
          /\ IF n < request.size
             THEN Fault /\ Answer("INTERNAL")
             ELSE UNCHANGED faults /\ Answer("SUCCESSFUL")
    /\ UNCHANGED <<tableVars, file, stops>>

-----------------------------------------------------------------------------
(***************************************************************************)
(* SrmInit and the end of the daemon                                       *)
(***************************************************************************)

\* The SrmTable constructor: valid from the moment the list is allocated,
\* whatever becomes of the file.
Start ==
    /\ pc = "down"
    /\ \/ /\ file = <<>>
          /\ pc' = "idle"
          /\ UNCHANGED <<buf, faults>>
       \/ /\ file # <<>>
          /\ pc' = "header" /\ buf' = file
          /\ UNCHANGED faults
       \/ /\ file # <<>> /\ Fault       \* open, fstat or mmap
          /\ pc' = "idle"
          /\ UNCHANGED buf
       \/ /\ Fault                      \* SrmInit fails and main gives up
          /\ UNCHANGED <<pc, buf>>
    /\ UNCHANGED <<tableVars, request, status, offset, lists, fileVars, stops>>

\* SrmRelease, or the daemon is killed, possibly in the middle of a write.
Stop ==
    /\ pc # "down" /\ stops < MaxStops
    /\ stops' = stops + 1
    /\ pc' = "down"
    /\ version' = 0 /\ table' = <<>> /\ disabled' = FALSE
    /\ request' = NoSrm /\ status' = "none"
    /\ buf' = <<>> /\ offset' = 0 /\ lists' = <<>>
    /\ \/ UNCHANGED fileVars
       \/ /\ pc = "write"
          /\ \E n \in 1 .. request.size : file' = Overwritten(file, request, n)
          /\ UNCHANGED kernelFile
       \/ /\ pc = "kernelWrite"
          /\ \E n \in 1 .. request.size :
                kernelFile' = Overwritten(kernelFile, request, n)
          /\ UNCHANGED file
    /\ UNCHANGED faults

-----------------------------------------------------------------------------
Retrieve == RetrieveHeader \/ RetrieveVrl \/ RetrieveDone
Store == OpenFile \/ WriteFile \/ KernelOpen \/ KernelWrite

Next ==
    \/ Start \/ Stop
    \/ \E m \in Srms : SendSRMData(m)
    \/ GetSrmData
    \/ \E d \in BOOLEAN : Config(d)
    \/ Retrieve
    \/ Store

Spec == Init /\ [][Next]_vars

-----------------------------------------------------------------------------
(***************************************************************************)
(* Properties                                                              *)
(***************************************************************************)

\* A message that is what it says: signed and complete, every list as long as
\* it has to be.
WellFormed(m) ==
    /\ m.isSrm /\ m.authentic /\ m.counted
    /\ m.size = m.ends[Len(m.ends)]
    /\ m.ends[1] - SRM_HEADER_LENGTH >= MinGen1
    /\ \A k \in 2 .. Len(m.ends) : m.ends[k] - m.ends[k - 1] >= MinGen2

\* The constructor is reading the daemon's file.
ReadsFile == pc \in {"header", "vrls"} /\ request = NoSrm

\* The table holds lists of one signed SRM and m_Version is that SRM's
\* version, or both are empty.  The file it was read from may be a torn write
\* or hold the tail of an older SRM, and the lists of the later generations
\* carry signatures of their own, so that the lists of two SRMs could meet.
TableIsOneSrm ==
    \/ table = <<>> /\ version = 0
    \/ /\ table # <<>> /\ version = table[1].version
       /\ table[1].isSrm /\ table[1].authentic
       /\ \A k \in DOMAIN table : table[k] = table[1]

\* While the daemon runs, the version in memory never goes back.
VersionNeverRollsBack == [][pc' # "down" => version' >= version]_vars

\* When SendSRMData answers SUCCESSFUL, memory holds the SRM, the kernel's file
\* begins with all of it, and so does the daemon's file unless storage is
\* disabled.
AcknowledgedIsStored ==
    [][request # NoSrm /\ status' = "SUCCESSFUL" =>
          /\ table' = <<request>>
          /\ Intact(kernelFile', request, 0, request.size)
          /\ disabled \/ Intact(file', request, 0, request.size)]_vars

\* Unless a call fails in that step, a well-formed SRM is called invalid only
\* if it is of more than one generation, and not recent only if a newer one is
\* in memory: one that failed on its way to the files may be sent again.  The
\* first exception is the test of VrlFits, which refuses the lists the loop is
\* there to read; hdcpapi.h:319 has SRM_INVALID for a wrong signature alone.
RefusalJustified ==
    [][request # NoSrm /\ WellFormed(request) /\ faults' = faults =>
          /\ status' = "SRM_INVALID" => Len(request.ends) > 1
          /\ status' = "SRM_NOT_RECENT" => request.version < version]_vars

\* Reading the file at the start ends with an SRM in the table if and only if
\* the file is exactly one well-formed SRM, of however many generations, unless
\* a call fails.
StartLoadsExactFile ==
    [][ReadsFile /\ pc' = "idle" /\ faults' = faults =>
          (table' # <<>> <=> \E m \in Srms : WellFormed(m) /\ file = Bytes(m))]_vars

(***************************************************************************)
(* What the documentation promises and the code does not keep.             *)
(***************************************************************************)

\* srm.h on SrmTable::IsValid: it is false if the initial SRM list cannot be
\* read from non-volatile storage.  So a daemon that started has read its file,
\* at least when every byte of the SRM it stored last is there.
ValidMeansRead ==
    [][ReadsFile /\ pc' = "idle" /\ Intact(file, file[1], 0, file[1].size)
          => table' # <<>>]_vars

=============================================================================

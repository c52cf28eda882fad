--------------------------- MODULE SessionService ---------------------------
(***************************************************************************)
(* What a session promises the threads of an application that call it:     *)
(* the daemon serves the request of a call at most once, in one step, and  *)
(* a call returns what was answered to its own request, or that the        *)
(* transaction failed.  HdcpSession and HdcpDaemon implement it with       *)
(* several messages per call over one connection (module SessionProtocol). *)
(***************************************************************************)
CONSTANTS
    Threads,        \* threads of the application that share a session
    Calls,          \* what they may ask for
    NoCall          \* not a call

VARIABLES
    call,           \* the call each thread is in
    served,         \* what the daemon did for it: "no", "ok", "error"
    answer          \* what it is about to return, or "none"

serviceVars == <<call, served, answer>>

Init ==
    /\ call = [t \in Threads |-> NoCall]
    /\ served = [t \in Threads |-> "no"]
    /\ answer = [t \in Threads |-> "none"]

Begin(t) ==
    /\ call[t] = NoCall
    /\ \E c \in Calls : call' = [call EXCEPT ![t] = c]
    /\ UNCHANGED <<served, answer>>

\* The daemon serves the request of t, once.
Serve(t) ==
    /\ call[t] # NoCall /\ served[t] = "no"
    /\ \E s \in {"ok", "error"} : served' = [served EXCEPT ![t] = s]
    /\ UNCHANGED <<call, answer>>

\* What a call may return.  The level-0 call of SetProtectionLevel returns "ok"
\* whatever happened, and EnumerateDisplay an error for an answer it refuses.
MayReturn(c, s) ==
    {"transaction"} \cup (IF s = "no" THEN {} ELSE {s})
        \cup (IF c.cmd = "set" /\ c.arg = 0 THEN {"ok"} ELSE {})
        \cup (IF c.cmd = "query" /\ s # "no" THEN {"error"} ELSE {})

Answer(t) ==
    /\ call[t] # NoCall /\ answer[t] = "none"
    /\ \E r \in MayReturn(call[t], served[t]) : answer' = [answer EXCEPT ![t] = r]
    /\ UNCHANGED <<call, served>>

Return(t) ==
    /\ answer[t] # "none"
    /\ call' = [call EXCEPT ![t] = NoCall]
    /\ served' = [served EXCEPT ![t] = "no"]
    /\ answer' = [answer EXCEPT ![t] = "none"]

Next == \E t \in Threads : Begin(t) \/ Serve(t) \/ Answer(t) \/ Return(t)

Spec == Init /\ [][Next]_serviceVars

=============================================================================

-------------------------- MODULE PortManagerHistory --------------------------
(***************************************************************************)
(* PortManager with a history variable: the ports whose loss was reported. *)
(* It records steps of PortManager and restricts none.                     *)
(***************************************************************************)
EXTENDS PortManager

VARIABLE
    lossSent    \* ports for which LINK_LOST was reported since last enabled

hvars == <<vars, lossSent>>

\* The integrity thread reports its port; EnablePort succeeds for a port.
LossSent(p) == ipc = "send" /\ ipc' = "commit" /\ iport = p
Enabled(p) ==
    /\ mpc = "enableCheck" /\ mainVars' # mainVars
    /\ mport = p /\ mpc' = "respond" /\ mret' = "SUCCESS"

LossSentNext ==
    lossSent' = {p \in Ports : (p \in lossSent /\ ~Enabled(p)) \/ LossSent(p)}

HistorySpec == Init /\ lossSent = {} /\ [][Next /\ LossSentNext]_hvars

-----------------------------------------------------------------------------
\* The cached type of a port in use is dropped only after LINK_LOST was
\* reported for it; a DisablePort of one application never drops it.
NoSilentLoss ==
    [][\A p \in Ports :
          cpType[p] # CP_TYPE_INVALID /\ cpType'[p] = CP_TYPE_INVALID
              => appIds[p] = {} \/ p \in lossSent]_hvars

=============================================================================

--------------------------- MODULE ConnectionTable ---------------------------
(***************************************************************************)
(* What a TcpServer promises of the connections it accepts (TcpServer.h,   *)
(* Callbacks.h): each is entered in the server's map, reported to the user *)
(* as up once and as down once, taken out of the map, and freed, in this   *)
(* order.  A server that is being destroyed keeps the order but may leave  *)
(* steps out: what its loops no longer run is neither reported nor removed *)
(* before it is freed.                                                     *)
(***************************************************************************)
CONSTANT Conns

VARIABLES
    phase,      \* of each connection, see Phases
    listed,     \* the connections in the server's map
    serving     \* FALSE once the server is being destroyed

ctVars == <<phase, listed, serving>>

\* none   not accepted yet
\* made   the object exists
\* up     reported as up
\* down   reported as down
\* freed  the object is gone, and with it its descriptor
Phases == {"none", "made", "up", "down", "freed"}

CTInit ==
    /\ phase = [c \in Conns |-> "none"]
    /\ listed = {}
    /\ serving = TRUE

\* On a server without I/O threads a connection is up when it is made.
Make(c) ==
    /\ serving
    /\ phase[c] = "none"
    /\ \E p \in {"made", "up"} : phase' = [phase EXCEPT ![c] = p]
    /\ listed' = listed \cup {c}
    /\ UNCHANGED serving

ReportUp(c) ==
    /\ phase[c] = "made"
    /\ phase' = [phase EXCEPT ![c] = "up"]
    /\ UNCHANGED <<listed, serving>>

\* The connection is reported as down; with the server's own loop as its I/O
\* loop, or when the server goes, it may leave the map in the same step.
ReportDown(c) ==
    /\ phase[c] = "up"
    /\ phase' = [phase EXCEPT ![c] = "down"]
    /\ listed' \in {listed, listed \ {c}}
    /\ UNCHANGED serving

Remove(c) ==
    /\ c \in listed
    /\ serving => phase[c] = "down"
    /\ listed' = listed \ {c}
    /\ UNCHANGED <<phase, serving>>

Free(c) ==
    /\ c \notin listed
    /\ phase[c] \in IF serving THEN {"down"} ELSE {"made", "up", "down"}
    /\ phase' = [phase EXCEPT ![c] = "freed"]
    /\ UNCHANGED <<listed, serving>>

StopServing ==
    /\ serving
    /\ serving' = FALSE
    /\ listed' \subseteq listed
    /\ UNCHANGED phase

CTNext ==
    \/ \E c \in Conns :
         Make(c) \/ ReportUp(c) \/ ReportDown(c) \/ Remove(c) \/ Free(c)
    \/ StopServing

CTSpec == CTInit /\ [][CTNext]_ctVars
=============================================================================

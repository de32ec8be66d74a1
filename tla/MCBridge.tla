------------------------------ MODULE MCBridge ------------------------------
(***************************************************************************)
(* The instance of Bridge for TLC.  ToolCalls has an instance for tools,   *)
(* arguments and concurrent requests; here one call goes to the gateway    *)
(* beside others that are refused, and all go through the recorder.  The   *)
(* metrics listener is of interest beside the SSE server, on its port; one *)
(* that is never scheduled stands for none.                                *)
(***************************************************************************)
EXTENDS Bridge

MCInit ==
    /\ BridgeInit
    /\ metricsPort = IF transport = "sse" THEN "shared" ELSE "none"
    /\ \E c \in {CHOOSE d \in Calls : TRUE} :
          first[c] \in Texts /\ \A d \in Calls \ {c} : first[d] = "empty"
    /\ second = [c \in Calls |-> "absent"]

MCSpec == MCInit /\ [][BridgeNext]_bridgeVars /\ BridgeFairness
=============================================================================

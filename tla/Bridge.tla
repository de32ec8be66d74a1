------------------------------- MODULE Bridge --------------------------------
(***************************************************************************)
(* A tool call from the MCP client to the gateway and back: the process    *)
(* (Server), the recorder that server.buildMCPServer wraps around every    *)
(* handler (AgentTrace) and the handler with its request (ToolCalls) in    *)
(* one system.  A step of it is a step of one of them, except that a       *)
(* process starts and ends together with its recorder and its goroutines,  *)
(* that a call arrives in the recorder, and that what the handler returns  *)
(* is what the recorder hears.  A request to the gateway outlives the      *)
(* process that sent it.                                                   *)
(***************************************************************************)
EXTENDS Server, Sequences, FiniteSets

CONSTANTS
    Tools, Texts, PositiveTexts,    \* as in ToolCalls
    Free,                           \* as in AgentTrace
    MaxFaults                       \* bound: writes to the log that fail

VARIABLES
    (* of ToolCalls *)
    tool, first, second, toolPc, inflight, served, reply, toolResult, earlier,
    (* of AgentTrace *)
    enabled, file, mu, log, tracePc, traceResult, faults,
    recorded    \* history variable: the recorder had its file when c arrived

toolVars == <<tool, first, second, toolPc, inflight, served, reply, toolResult,
              earlier>>
traceVars == <<enabled, file, mu, log, tracePc, traceResult, faults>>
bridgeVars == <<serverVars, toolVars, traceVars, recorded>>

T == INSTANCE ToolCalls WITH pc <- toolPc, result <- toolResult

ASSUME ToolsAssumption ==
    /\ Tools \subseteq T!AllTools
    /\ PositiveTexts \subseteq Texts
    /\ {"absent", "notString", "empty"} \intersect Texts = {}
ASSUME RecorderAssumption == MaxFaults \in Nat /\ Free \notin Calls

(* One process at a time, the one Server is about.  main never calls       *)
(* Server.Close, so nobody closes the recorder.                            *)
Process == "bridge"
R == INSTANCE AgentTrace WITH
    Processes <- {Process}, Closers <- {}, MaxCrashes <- MaxStarts,
    proc <- [c \in Calls |-> Process],
    up <- [p \in {Process} |-> Up],
    closeError <- << >>,
    crashes <- IF Up THEN starts - 1 ELSE starts,
    pc <- tracePc, result <- traceResult

-----------------------------------------------------------------------------
BridgeInit ==
    /\ ServerInit /\ T!Init /\ R!Init
    /\ recorded = [c \in Calls |-> FALSE]

(* A step of the process: it starts, ends, or goes on with its recorder.   *)
Lives(Step) ==
    /\ Step
    /\ \/ ~Up /\ Up' /\ R!StartProcess(Process)
       \/ Up /\ ~Up' /\ R!Crash(Process)
       \/ Up = Up' /\ UNCHANGED traceVars
    /\ UNCHANGED <<toolVars, recorded>>

(* The MCP server calls the wrapped handler.                               *)
Arrive(c) ==
    /\ Accept(c) /\ R!CallTool(c)
    /\ recorded' = [recorded EXCEPT ![c] = file[Process]]
    /\ UNCHANGED toolVars

(* The handler runs inside of Wrap.                                        *)
HandlerStep(c) ==
    /\ tracePc[c] = "inner" /\ (T!Handle(c) \/ T!CallStep(c))
    /\ UNCHANGED <<serverVars, traceVars, recorded>>

(* Its errors are results with IsError, never Go errors.                   *)
HandlerResult(c) == IF toolResult[c] = "success" THEN "success" ELSE "isError"

HandlerReturns(c) ==
    /\ toolPc[c] = "done" /\ UNCHANGED <<serverVars, toolVars, recorded>>
    /\ R!InnerReturns(c) /\ traceResult'[c] = HandlerResult(c)

RecordStep(c) ==
    /\ UNCHANGED <<serverVars, toolVars, recorded>>
    /\ R!CheckFile(c) \/ R!LockRecord(c) \/ R!WriteEvent(c) \/ R!WriteNewline(c)

(* Variant: the event is recorded in a goroutine of its own.               *)
AnyTime(c) == tracePc[c] \notin {"idle", "inner", "killed"}
(* Wrap returns when Record has returned.                                  *)
WrapReturned(c) == tracePc[c] = "done"

Deliver(c) ==
    /\ WrapReturned(c) /\ Answer(c)
    /\ UNCHANGED <<toolVars, traceVars, recorded>>

(* The gateway and the network go on whatever becomes of the process.      *)
GatewayStep(c) ==
    /\ T!Serve(c) \/ T!Reject(c) \/ T!Lose(c)
    /\ UNCHANGED <<serverVars, traceVars, recorded>>

-----------------------------------------------------------------------------
CallProgress(c) ==
    HandlerStep(c) \/ HandlerReturns(c) \/ RecordStep(c) \/ Deliver(c)

BridgeNext ==
    \/ Lives(Lifecycle)
    \/ \E c \in Calls : Arrive(c) \/ CallProgress(c) \/ GatewayStep(c)

BridgeSpec == BridgeInit /\ [][BridgeNext]_bridgeVars

(* The scheduler runs every goroutine, a request has a timeout             *)
(* (client.go:35-44), and a mutex that each call takes once is free in the *)
(* end.  Nobody has to send a signal, and nothing has to arrive.           *)
BridgeFairness ==
    /\ WF_bridgeVars(Lives(MainStep)) /\ WF_bridgeVars(Lives(StopperStep))
    /\ \A c \in Calls : WF_bridgeVars(CallProgress(c))

BridgeFairSpec == BridgeSpec /\ BridgeFairness

-----------------------------------------------------------------------------
(* The call has its event in the log, with its newline right behind it.    *)
HasLine(c) ==
    \E i \in 1..(Len(log) - 1) :
        /\ log[i].kind = "event" /\ log[i].call = c
        /\ log[i + 1].kind = "newline" /\ log[i + 1].call = c

Served(c) == \E i \in DOMAIN served : served[i] = c

(* What holds in the components alone holds in the bridge, and they agree  *)
(* on where a call is: it runs exactly while its goroutine is in Wrap or   *)
(* about to leave it, the handler only inside, and nothing of a call       *)
(* outlives its process but its request (server.go:67-70,                  *)
(* agentrace.go:127-144).                                                  *)
BridgeTypeOK ==
    /\ T!TypeOK /\ R!TypeOK
    /\ recorded \in [Calls -> BOOLEAN]
    /\ \A c \in Calls :
          /\ call[c] = "new" <=> tracePc[c] = "idle"
          /\ call[c] = "running" => Up /\ tracePc[c] # "killed"
          /\ toolPc[c] # "idle" => tracePc[c] # "idle"
          /\ tracePc[c] \notin {"idle", "inner", "killed"} => toolPc[c] = "done"

(* As long as writes to the log succeed, whatever a recorded call made the *)
(* gateway do is in the log, unless the call still runs or its process     *)
(* ended under it; and a client that got its result can find its line      *)
(* there, over restarts too (agentrace.go:108-123, 136-141,                *)
(* server.go:156-165).                                                     *)
Audited ==
    faults = 0 => \A c \in Calls : recorded[c] =>
        /\ call[c] \in {"answered", "lost"} => HasLine(c)
        /\ Served(c) => HasLine(c) \/ call[c] \in {"running", "cut"}

(* An event says success exactly for calls that the gateway served, once,  *)
(* and whose client was told so if it was told anything                    *)
(* (agentrace.go:137-141).                                                 *)
TruthfulAudit ==
    \A i \in DOMAIN log : log[i].kind = "event" =>
        LET c == log[i].call IN
        /\ log[i].success <=> toolResult[c] = "success"
        /\ log[i].success => Cardinality({j \in DOMAIN served : served[j] = c}) = 1

(* A call as its MCP client sees it.  It begins when the handler accepts   *)
(* its arguments; a call without an answer stays open.                     *)
ClientStatus(c) ==
    IF call[c] = "answered" THEN toolResult[c]
    ELSE IF toolPc[c] = "idle" \/ toolResult[c] = "refused" THEN "new" ELSE "open"

Client == INSTANCE AtMostOnce WITH
    status <- [c \in Calls |-> ClientStatus(c)], log <- served

(* The promise of AtMostOnce reaches the MCP client: through the recorder, *)
(* over signals, kills and restarts, a call that is answered with success  *)
(* was served exactly once, and no call is served twice or after it was    *)
(* refused (server.go:67-70, 156-165, client.go:548-574).                  *)
PromiseToClient == Client!Spec

(* Whatever is asked of a process is done with in the end: a running call  *)
(* is answered, lost with its connection, or cut off, and a process that   *)
(* got a signal is down, although the gateway may never answer, a client   *)
(* may never ask, and the signal may come before, while or after the SSE   *)
(* server binds its port (client.go:35-44, agentrace.go:97-124,            *)
(* server.go:155-170).                                                     *)
Settles == []<>(~ctxDone /\ \A c \in Calls : call[c] # "running")
=============================================================================

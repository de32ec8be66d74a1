------------------------------- MODULE Server -------------------------------
(***************************************************************************)
(* The life of a helixon-mcp process: main.run of cmd/helixon-mcp once the *)
(* configuration is loaded, Server.Run and runSSE of internal/server.      *)
(* Three goroutines (run itself, the one of runSSE that waits for the      *)
(* context, the metrics listener) and the tool calls share it.  Signals    *)
(* come at any time, other programs take and leave the ports, the process  *)
(* can be killed, and whoever started it starts it again.                  *)
(***************************************************************************)
EXTENDS Naturals

CONSTANTS
    Calls,          \* the tool calls
    Transports,     \* bound: values of Config.Transport
    MetricsPorts,   \* bound: what Config.PrometheusMetricsPort can be
    MaxStarts       \* bound: how often the process is started

AllTransports == {"stdio", "sse"}

(* No metrics; a port of their own; the port of the SSE address.           *)
AllMetricsPorts == {"none", "own", "shared"}

ASSUME ConfigAssumption ==
    Transports \subseteq AllTransports /\ MetricsPorts \subseteq AllMetricsPorts
ASSUME StartsAssumption == MaxStarts \in Nat

VARIABLES
    transport, metricsPort,     \* the Config
    main,       \* where main.run is
    exit,       \* how the last process ended
    ctxDone,    \* the context of signal.NotifyContext is done
    stopper,    \* where the goroutine of runSSE is
    closed,     \* srv.Close was called
    metrics,    \* where the metrics goroutine is
    holder,     \* holder[p]: who listens on port p, if it can be bound
    call,       \* call[c]: what became of c, as its MCP client sees it
    starts      \* processes so far

configVars == <<transport, metricsPort>>
serverVars == <<configVars, main, exit, ctxDone, stopper, closed, metrics, holder,
                call, starts>>

Ports == {"sse", "metrics"}
MetricsAt == IF metricsPort = "shared" THEN "sse" ELSE "metrics"

(* The ports this process wants; nothing is said of the others.            *)
PortsUsed == (IF transport = "sse" THEN {"sse"} ELSE {})
               \union (IF metricsPort = "none" THEN {} ELSE {MetricsAt})

MainPc == {"down", "boot", "run", "listen", "bound", "serve", "stdio"}
CallStates == {"new", "running", "answered", "lost", "cut"}

ServerTypes ==
    /\ transport \in Transports /\ metricsPort \in MetricsPorts
    /\ main \in MainPc
    /\ exit \in {"none", "ok", "error", "killed"}
    /\ ctxDone \in BOOLEAN /\ closed \in BOOLEAN
    /\ stopper \in {"none", "wait", "shutdown", "close", "done"}
    /\ metrics \in {"none", "start", "serve", "failed"}
    /\ holder \in [Ports -> {"nobody", "server", "metrics", "unavailable"}]
    /\ call \in [Calls -> CallStates]
    /\ starts \in 0..MaxStarts

-----------------------------------------------------------------------------
ServerInit ==
    /\ transport \in Transports /\ metricsPort \in MetricsPorts
    /\ main = "down" /\ exit = "none"
    /\ ctxDone = FALSE /\ closed = FALSE
    /\ stopper = "none" /\ metrics = "none"
    /\ holder \in [Ports -> {"nobody", "unavailable"}]
    /\ \A p \in Ports \ PortsUsed : holder[p] = "nobody"
    /\ call = [c \in Calls |-> "new"]
    /\ starts = 0

(* Up to signal.NotifyContext: New, and the metrics goroutine if there is  *)
(* a port for it.                                                          *)
Start ==
    /\ main = "down" /\ starts < MaxStarts
    /\ starts' = starts + 1
    /\ main' = "boot" /\ exit' = "none"
    /\ metrics' = IF metricsPort = "none" THEN "none" ELSE "start"
    /\ UNCHANGED <<configVars, ctxDone, stopper, closed, holder, call>>

(* The end of a process: goroutines and listeners are gone, and the calls  *)
(* that run are cut off.  Nothing waits for them, and main does not call   *)
(* Server.Close.                                                           *)
Exit(how) ==
    /\ main' = "down" /\ exit' = how
    /\ ctxDone' = FALSE /\ stopper' = "none" /\ closed' = FALSE /\ metrics' = "none"
    /\ holder' = [p \in Ports |-> IF holder[p] = "unavailable" THEN "unavailable" ELSE "nobody"]
    /\ call' = [c \in Calls |-> IF call[c] = "running" THEN "cut" ELSE call[c]]
    /\ UNCHANGED <<configVars, starts>>

(* Before NotifyContext, a signal kills; later it ends the context, and a  *)
(* second one does nothing more.                                           *)
Kill == main # "down" /\ Exit("killed")
Signal ==
    /\ main \notin {"down", "boot"} /\ ~ctxDone /\ ctxDone' = TRUE
    /\ UNCHANGED <<configVars, main, exit, stopper, closed, metrics, holder, call,
                   starts>>

NotifyContext ==
    /\ main = "boot" /\ main' = "run"
    /\ UNCHANGED <<configVars, exit, ctxDone, stopper, closed, metrics, holder, call,
                   starts>>

(* Server.Run; runSSE starts the goroutine that waits for the context.     *)
Run ==
    /\ main = "run"
    /\ \/ transport = "stdio" /\ main' = "stdio" /\ UNCHANGED stopper
       \/ transport = "sse" /\ main' = "listen" /\ stopper' = "wait"
    /\ UNCHANGED <<configVars, exit, ctxDone, closed, metrics, holder, call, starts>>

(* ListenAndServe returns http.ErrServerClosed, which is no error.         *)
ReturnClosed == Exit("ok")

(* ListenAndServe: not once the server is closed; and the address may be   *)
(* one that cannot be bound, or the metrics listener's.                    *)
Listen ==
    /\ main = "listen"
    /\ \/ closed /\ ReturnClosed
       \/ ~closed /\ holder["sse"] # "nobody" /\ Exit("error")
       \/ /\ ~closed /\ holder["sse"] = "nobody"
          /\ holder' = [holder EXCEPT !["sse"] = "server"] /\ main' = "bound"
          /\ UNCHANGED <<configVars, exit, ctxDone, stopper, closed, metrics, call,
                         starts>>

(* It looks at closed again before it serves the listener.                 *)
ClosedMeanwhile == closed
Serve ==
    /\ main = "bound"
    /\ \/ ClosedMeanwhile /\ ReturnClosed
       \/ /\ ~ClosedMeanwhile /\ main' = "serve"
          /\ UNCHANGED <<configVars, exit, ctxDone, stopper, closed, metrics, holder,
                         call, starts>>

(* The listener that Close closed ends Serve.                              *)
ServeReturns == main = "serve" /\ closed /\ ReturnClosed

(* StdioServer.Listen ends with the context or with its input, and what it *)
(* returns is what run returns.                                            *)
StdioReturns == main = "stdio" /\ (Exit("ok") \/ Exit("error"))

StopperMoves(from, to) ==
    /\ stopper = from /\ stopper' = to
    /\ UNCHANGED <<configVars, main, exit, ctxDone, metrics, call, starts>>

(* <-ctx.Done()                                                            *)
StopperWakes == ctxDone /\ StopperMoves("wait", "shutdown") /\ UNCHANGED <<closed, holder>>

(* sseSrv.Shutdown, whatever it does to the sessions.                      *)
ShutdownSSE == StopperMoves("shutdown", "close") /\ UNCHANGED <<closed, holder>>

(* Variant: the HTTP server is left open.                                  *)
LeaveOpen == UNCHANGED <<closed, holder>>
(* Variant: only the listener is closed, and the server does not know.     *)
CloseListener ==
    /\ holder' = [holder EXCEPT !["sse"] = IF @ = "server" THEN "nobody" ELSE @]
    /\ UNCHANGED closed
(* A listener that is not served yet is not known to Close.                *)
CloseHTTP ==
    /\ closed' = TRUE
    /\ holder' = IF main = "serve" THEN [holder EXCEPT !["sse"] = "nobody"] ELSE holder
(* srv.Close: the listener and all connections.                            *)
CloseServer == StopperMoves("close", "done") /\ CloseHTTP

(* Variant: log.Fatal.                                                     *)
MetricsFatal == Exit("error")
(* http.ListenAndServe of the metrics fails: the error is logged.          *)
MetricsFails ==
    /\ metrics' = "failed"
    /\ UNCHANGED <<configVars, main, exit, ctxDone, stopper, closed, holder, call,
                   starts>>
ListenMetrics ==
    /\ metrics = "start"
    /\ \/ holder[MetricsAt] # "nobody" /\ MetricsFails
       \/ /\ holder[MetricsAt] = "nobody"
          /\ holder' = [holder EXCEPT ![MetricsAt] = "metrics"] /\ metrics' = "serve"
          /\ UNCHANGED <<configVars, main, exit, ctxDone, stopper, closed, call, starts>>

-----------------------------------------------------------------------------
(* The MCP clients and the rest of the machine. *)

CallMoves(c, from, to) ==
    /\ call[c] = from /\ call' = [call EXCEPT ![c] = to]
    /\ UNCHANGED <<configVars, main, exit, ctxDone, stopper, closed, metrics, holder,
                   starts>>

(* A tool call arrives.                                                    *)
Accept(c) == (main = "stdio" \/ (main = "serve" /\ ~closed)) /\ CallMoves(c, "new", "running")

(* Its result reaches the client, over a connection that is still open; or *)
(* it does not.                                                            *)
Answer(c) == (~closed /\ CallMoves(c, "running", "answered")) \/ CallMoves(c, "running", "lost")

(* A port cannot be bound: another program has it, or the kernel refuses   *)
(* (a privileged port, an address that is not of this machine).  That      *)
(* changes; when nobody here is about to bind one, it shows only later.    *)
PortChanges(p) ==
    /\ p \in PortsUsed /\ (main = "listen" \/ metrics = "start")
    /\ \/ holder[p] = "nobody" /\ holder' = [holder EXCEPT ![p] = "unavailable"]
       \/ holder[p] = "unavailable" /\ holder' = [holder EXCEPT ![p] = "nobody"]
    /\ UNCHANGED <<configVars, main, exit, ctxDone, stopper, closed, metrics, call, starts>>

-----------------------------------------------------------------------------
(* The steps that run and its goroutine take by themselves.  On stdio, run *)
(* waits for its input unless the context is done.                         *)
MainStep ==
    \/ NotifyContext \/ Run \/ Listen \/ Serve \/ ServeReturns
    \/ (ctxDone /\ StdioReturns)
StopperStep == StopperWakes \/ ShutdownSSE \/ CloseServer

(* What happens to the process as such, calls aside.                       *)
Lifecycle ==
    \/ Start \/ Kill \/ Signal \/ MainStep \/ StdioReturns \/ StopperStep
    \/ ListenMetrics \/ \E p \in Ports : PortChanges(p)

ServerNext == Lifecycle \/ \E c \in Calls : Accept(c) \/ Answer(c)

ServerSpec == ServerInit /\ [][ServerNext]_serverVars

-----------------------------------------------------------------------------
Up == main # "down"

(* Every variable has its type; the port of the SSE server has a listener  *)
(* of this process exactly while run binds and serves it and Close has not *)
(* come, however signals, Close and ListenAndServe interleave              *)
(* (server.go:155-170).                                                    *)
ServerTypeOK ==
    /\ ServerTypes
    /\ (holder["sse"] = "server") <=> (main = "bound" \/ (main = "serve" /\ ~closed))

(* Only a signal, a kill or an address it cannot bind, which can be the    *)
(* one its own metrics listener holds, ends an SSE server: never an error  *)
(* of that listener; and a shutdown that was asked for is not reported as  *)
(* an error (main.go:67-80, server.go:167-170).                            *)
EndsForAReason ==
    [][(Up /\ ~Up' /\ transport = "sse") =>
          \/ exit' = "killed"
          \/ exit' = "ok" /\ ctxDone
          \/ exit' = "error" /\ main = "listen" /\ holder["sse"] # "nobody"]_serverVars
=============================================================================

---------------------------- MODULE ServerProofs -----------------------------
(***************************************************************************)
(* Proofs about Server, for any calls, transports, metrics ports and any   *)
(* number of starts: who holds the SSE port, and why a process ends.       *)
(***************************************************************************)
EXTENDS Server, TLAPS

(* What each transport goes through, and how far a shutdown can be: runSSE *)
(* alone starts the goroutine that waits for the context, and only that    *)
(* goroutine closes the server.                                            *)
Paths ==
    /\ main = "stdio" => transport = "stdio"
    /\ main \in {"listen", "bound", "serve"} => transport = "sse"
    /\ main \in {"down", "boot", "run"} => stopper = "none"
    /\ stopper \in {"shutdown", "close", "done"} => ctxDone
    /\ closed => stopper = "done"

ServerInv == ServerTypeOK /\ Paths

-----------------------------------------------------------------------------
LEMMA InitInv == ServerInit => ServerInv
<1> SUFFICES ASSUME ServerInit PROVE ServerInv
    OBVIOUS
<1>1. holder["sse"] # "server" BY DEF ServerInit, Ports
<1>2. holder \in [Ports -> {"nobody", "server", "metrics", "unavailable"}]
    BY DEF ServerInit
<1>3. ServerTypes
  <2>1. call \in [Calls -> CallStates] BY DEF ServerInit, CallStates
  <2>2. starts \in 0..MaxStarts BY StartsAssumption DEF ServerInit
  <2>3. QED BY <1>2, <2>1, <2>2 DEF ServerInit, ServerTypes, MainPc
<1>4. QED BY <1>1, <1>3 DEF ServerInit, ServerInv, ServerTypeOK, Paths

(* Whatever ends a process leaves nothing of it behind.                    *)
LEMMA ExitInv ==
    ASSUME ServerInv, NEW how \in {"ok", "error", "killed"}, Exit(how)
    PROVE  ServerInv'
BY DEF ServerInv, ServerTypeOK, ServerTypes, Paths, Exit, Ports, MainPc, CallStates,
       configVars

(* Start, signals, and the steps of run that do not end the process.       *)
LEMMA MainInv ==
    ASSUME ServerInv, Start \/ Signal \/ NotifyContext \/ Run \/ Listen \/ Serve
    PROVE  ServerInv'
<1> USE DEF ServerInv, ServerTypeOK, ServerTypes, Paths, Ports, MainPc, CallStates,
            configVars
<1>1. CASE Start BY <1>1, StartsAssumption DEF Start
<1>2. CASE Signal BY <1>2 DEF Signal
<1>3. CASE NotifyContext BY <1>3 DEF NotifyContext
<1>4. CASE Run
  <2>1. main' \in MainPc /\ stopper' \in {"none", "wait", "shutdown", "close", "done"}
    BY <1>4 DEF Run
  <2>2. ~closed BY <1>4 DEF Run
  <2>3. QED BY <1>4, <2>1, <2>2 DEF Run
<1>5. CASE Listen BY <1>5, ExitInv DEF Listen, ReturnClosed
<1>6. CASE Serve BY <1>6, ExitInv DEF Serve, ReturnClosed, ClosedMeanwhile
<1>7. QED BY <1>1, <1>2, <1>3, <1>4, <1>5, <1>6

LEMMA StopperInv ==
    ASSUME ServerInv, StopperStep
    PROVE  ServerInv'
<1> USE DEF ServerInv, ServerTypeOK, ServerTypes, Paths, Ports, MainPc, CallStates,
            configVars, StopperMoves
<1>1. CASE StopperWakes BY <1>1 DEF StopperWakes
<1>2. CASE ShutdownSSE BY <1>2 DEF ShutdownSSE
<1>3. CASE CloseServer
  <2>1. closed' = TRUE /\ stopper' = "done" /\ ctxDone' /\ ctxDone' \in BOOLEAN
    BY <1>3 DEF CloseServer, CloseHTTP
  <2>2. holder' \in [Ports -> {"nobody", "server", "metrics", "unavailable"}]
    BY <1>3 DEF CloseServer, CloseHTTP
  <2>3. (holder'["sse"] = "server") <=> main = "bound"
    BY <1>3 DEF CloseServer, CloseHTTP
  <2>4. QED BY <1>3, <2>1, <2>2, <2>3 DEF CloseServer
<1>4. QED BY <1>1, <1>2, <1>3 DEF StopperStep

(* Nobody here loses a port to the metrics listener or to the machine.     *)
LEMMA PortsInv ==
    ASSUME ServerInv, ListenMetrics \/ \E p \in Ports : PortChanges(p)
    PROVE  ServerInv'
BY DEF ServerInv, ServerTypeOK, ServerTypes, Paths, Ports, MainPc, CallStates,
       configVars, ListenMetrics, MetricsFails, MetricsAt, PortChanges

LEMMA CallsInv ==
    ASSUME ServerInv, NEW c \in Calls, Accept(c) \/ Answer(c)
    PROVE  ServerInv'
BY DEF ServerInv, ServerTypeOK, ServerTypes, Paths, Ports, MainPc, CallStates,
       configVars, Accept, Answer, CallMoves

LEMMA StepInv == ServerInv /\ [ServerNext]_serverVars => ServerInv'
<1> SUFFICES ASSUME ServerInv, [ServerNext]_serverVars PROVE ServerInv'
    OBVIOUS
<1>1. CASE Kill \/ ServeReturns \/ StdioReturns
    BY <1>1, ExitInv DEF Kill, ServeReturns, StdioReturns, ReturnClosed
<1>2. CASE Start \/ Signal \/ NotifyContext \/ Run \/ Listen \/ Serve
    BY <1>2, MainInv
<1>3. CASE StopperStep BY <1>3, StopperInv
<1>4. CASE ListenMetrics \/ \E p \in Ports : PortChanges(p) BY <1>4, PortsInv
<1>5. CASE \E c \in Calls : Accept(c) \/ Answer(c) BY <1>5, CallsInv
<1>6. CASE UNCHANGED serverVars
    BY <1>6 DEF ServerInv, ServerTypeOK, ServerTypes, Paths, serverVars, configVars
<1>7. QED
    BY <1>1, <1>2, <1>3, <1>4, <1>5, <1>6 DEF ServerNext, Lifecycle, MainStep

(* The SSE port has a listener of the process exactly while run binds and  *)
(* serves it, for any interleaving of signals, Close and ListenAndServe    *)
(* (server.go:155-170).                                                    *)
THEOREM PortFollowsRun == ServerSpec => []ServerTypeOK
<1>1. ServerInv => ServerTypeOK BY DEF ServerInv
<1>2. QED BY InitInv, StepInv, <1>1, PTL DEF ServerSpec

(* Only a signal, a kill or an address that cannot be bound ends an SSE    *)
(* server, and a shutdown is no error (main.go:67-80, server.go:167-170).  *)
THEOREM NoOtherEnd == ServerSpec => EndsForAReason
<1> DEFINE Reason ==
        (Up /\ ~Up' /\ transport = "sse") =>
          \/ exit' = "killed"
          \/ exit' = "ok" /\ ctxDone
          \/ exit' = "error" /\ main = "listen" /\ holder["sse"] # "nobody"
<1>1. ASSUME ServerInv, [ServerNext]_serverVars PROVE [Reason]_serverVars
  <2> \A how : Exit(how) => exit' = how BY DEF Exit
  <2>1. CASE Kill BY <2>1 DEF Kill
  <2>2. CASE ServeReturns \/ Listen \/ Serve
    <3>1. closed => ctxDone BY <1>1 DEF ServerInv, Paths
    <3>2. CASE closed
      BY <2>2, <3>1, <3>2 DEF ServeReturns, Listen, Serve, ClosedMeanwhile, ReturnClosed
    <3>3. CASE ~closed
      BY <2>2, <3>3 DEF ServeReturns, Listen, Serve, ClosedMeanwhile, Up
    <3>4. QED BY <3>2, <3>3
  <2>3. CASE StdioReturns BY <1>1, <2>3 DEF StdioReturns, ServerInv, Paths
  <2>4. CASE Start \/ Signal \/ NotifyContext \/ Run
    BY <2>4 DEF Start, Signal, NotifyContext, Run, Up
  <2>5. CASE StopperStep
    BY <2>5 DEF StopperStep, StopperWakes, ShutdownSSE, CloseServer, StopperMoves, Up
  <2>6. CASE ListenMetrics \/ \E p \in Ports : PortChanges(p)
    BY <2>6 DEF ListenMetrics, MetricsFails, PortChanges, Up
  <2>7. CASE \E c \in Calls : Accept(c) \/ Answer(c)
    BY <2>7 DEF Accept, Answer, CallMoves, Up
  <2>8. CASE UNCHANGED serverVars BY <2>8
  <2>9. QED
    BY <1>1, <2>1, <2>2, <2>3, <2>4, <2>5, <2>6, <2>7, <2>8
    DEF ServerNext, Lifecycle, MainStep
<1>2. QED BY InitInv, StepInv, <1>1, PTL DEF ServerSpec, EndsForAReason
=============================================================================

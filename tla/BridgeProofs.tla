---------------------------- MODULE BridgeProofs -----------------------------
(***************************************************************************)
(* Proofs about Bridge, for any calls, tools and arguments, any number of  *)
(* restarts and failed writes.  What is proved of the components alone is  *)
(* taken over: each step of the bridge is a step of each component or      *)
(* leaves it alone.  What is new is how they agree on a call, and what     *)
(* follows for the log and for the client.                                 *)
(***************************************************************************)
EXTENDS Bridge, ServerProofs, FiniteSetTheorems

(* The components again, with what is proved of them.                      *)
TP == INSTANCE ToolCallsProofs WITH pc <- toolPc, result <- toolResult
RP == INSTANCE AgentTraceProofs WITH
    Processes <- {Process}, Closers <- {}, MaxCrashes <- MaxStarts,
    proc <- [c \in Calls |-> Process],
    up <- [p \in {Process} |-> Up],
    closeError <- << >>,
    crashes <- IF Up THEN starts - 1 ELSE starts,
    pc <- tracePc, result <- traceResult

(* Their invariants are inductive here too: what their proofs assume of    *)
(* the constants holds.                                                    *)
LEMMA ToolsInv == TP!IndInv /\ [TP!Next]_(TP!vars) => TP!IndInv'
BY ToolsAssumption, TP!IndInvNext DEF T!AllTools, TP!AllTools

LEMMA ToolsInitInv == TP!Init => TP!IndInv
BY ToolsAssumption, TP!IndInvInit DEF T!AllTools, TP!AllTools

LEMMA TraceInv == RP!RecorderInv /\ [RP!Next]_(RP!vars) => RP!RecorderInv'
BY RecorderAssumption, StartsAssumption, RP!RecorderNext

LEMMA TraceInitInv == RP!Init => RP!RecorderInv
BY RecorderAssumption, StartsAssumption, RP!RecorderInit

(* A step of T or R is the step of TP or RP of that name.                  *)
LEMMA SameTools == \A c \in Calls :
    /\ T!Handle(c) => TP!Handle(c)
    /\ T!CallStep(c) => TP!CallStep(c)
    /\ T!Serve(c) => TP!Serve(c)
    /\ T!Reject(c) => TP!Reject(c)
    /\ T!Lose(c) => TP!Lose(c)
<1> SUFFICES ASSUME NEW c \in Calls PROVE
    /\ T!Handle(c) => TP!Handle(c)
    /\ T!CallStep(c) => TP!CallStep(c)
    /\ T!Serve(c) => TP!Serve(c)
    /\ T!Reject(c) => TP!Reject(c)
    /\ T!Lose(c) => TP!Lose(c)
    OBVIOUS
<1> USE DEF T!requestVars, TP!requestVars, T!Goto, TP!Goto, T!Return, TP!Return,
            T!Replies, TP!Replies
<1>1. T!Accepts(c) <=> TP!Accepts(c)
    BY DEF T!Accepts, TP!Accepts, T!NeedsFirst, TP!NeedsFirst, T!NeedsSecond,
           TP!NeedsSecond, T!RequiredString, TP!RequiredString, T!LimitAccepted,
           TP!LimitAccepted, T!OptionalString, TP!OptionalString
<1>2. T!Handle(c) => TP!Handle(c)
    BY <1>1 DEF T!Handle, TP!Handle
<1>3. T!Request(c) => TP!Request(c)
    BY DEF T!Request, TP!Request, T!SendRequest, TP!SendRequest
<1>4. T!Receive(c) => TP!Receive(c)
    BY DEF T!Receive, TP!Receive, T!Outcome, TP!Outcome, T!NoBody, TP!NoBody
<1>5. T!Unanswered(c) => TP!Unanswered(c)
    BY DEF T!Unanswered, TP!Unanswered, T!GiveUp, TP!GiveUp
<1>6. T!CallStep(c) => TP!CallStep(c)
    BY <1>3, <1>4, <1>5 DEF T!CallStep, TP!CallStep
<1>7. T!Serve(c) => TP!Serve(c)
    BY DEF T!Serve, TP!Serve
<1>8. (T!Reject(c) => TP!Reject(c)) /\ (T!Lose(c) => TP!Lose(c))
    BY DEF T!Reject, TP!Reject, T!Lose, TP!Lose
<1> QED
    BY <1>2, <1>6, <1>7, <1>8

LEMMA SameTrace ==
    /\ R!StartProcess(Process) => RP!StartProcess(Process)
    /\ R!Crash(Process) => RP!Crash(Process)
    /\ \A c \in Calls :
          /\ R!CallTool(c) => RP!CallTool(c)
          /\ R!InnerReturns(c) => RP!InnerReturns(c)
          /\ R!CheckFile(c) => RP!CheckFile(c)
          /\ R!LockRecord(c) => RP!LockRecord(c)
          /\ R!WriteEvent(c) => RP!WriteEvent(c)
          /\ R!WriteNewline(c) => RP!WriteNewline(c)
<1> USE DEF R!Goto, RP!Goto, R!Recorder, RP!Recorder, R!Lock, RP!Lock, R!Unlock,
            RP!Unlock, R!Goroutines, RP!Goroutines, R!Results, RP!Results
<1>1. /\ R!StartProcess(Process) => RP!StartProcess(Process)
      /\ R!Crash(Process) => RP!Crash(Process)
    BY DEF R!StartProcess, RP!StartProcess, R!Crash, RP!Crash
<1>2. ASSUME NEW c \in Calls PROVE R!CallTool(c) => RP!CallTool(c)
    BY DEF R!CallTool, RP!CallTool
<1>3. ASSUME NEW c \in Calls PROVE R!InnerReturns(c) => RP!InnerReturns(c)
    BY DEF R!InnerReturns, RP!InnerReturns
<1>4. ASSUME NEW c \in Calls PROVE R!CheckFile(c) => RP!CheckFile(c)
    BY DEF R!CheckFile, RP!CheckFile
<1>5. ASSUME NEW c \in Calls PROVE R!LockRecord(c) => RP!LockRecord(c)
    BY DEF R!LockRecord, RP!LockRecord, R!LockRecorder, RP!LockRecorder
<1>6. ASSUME NEW c \in Calls PROVE R!WriteEvent(c) => RP!WriteEvent(c)
    BY DEF R!WriteEvent, RP!WriteEvent, R!Write, RP!Write, R!Success, RP!Success
<1>7. ASSUME NEW c \in Calls PROVE R!WriteNewline(c) => RP!WriteNewline(c)
    BY DEF R!WriteNewline, RP!WriteNewline, R!Write, RP!Write, R!Success, RP!Success,
           R!UnlockRecord, RP!UnlockRecord
<1> QED
    BY <1>1, <1>2, <1>3, <1>4, <1>5, <1>6, <1>7

-----------------------------------------------------------------------------
(* A step of the bridge is a step of each component or leaves it alone.    *)
LEMMA ServerStep == [BridgeNext]_bridgeVars => [ServerNext]_serverVars
BY DEF BridgeNext, bridgeVars, ServerNext, Lives, Arrive, CallProgress, HandlerStep,
       HandlerReturns, RecordStep, Deliver, GatewayStep

LEMMA ToolsStep == [BridgeNext]_bridgeVars => [TP!Next]_(TP!vars)
<1>1. UNCHANGED toolVars => UNCHANGED TP!vars
    BY DEF toolVars, TP!vars, TP!requestVars
<1>2. ASSUME NEW c \in Calls, HandlerStep(c) \/ GatewayStep(c) PROVE TP!Next
    BY <1>2, SameTools DEF HandlerStep, GatewayStep, TP!Next
<1> QED
    BY <1>1, <1>2 DEF BridgeNext, bridgeVars, Lives, Arrive, CallProgress,
       HandlerReturns, RecordStep, Deliver

(* What happens to a process: it starts, it ends and its calls with it, or *)
(* it goes on.                                                             *)
LEMMA LifeSteps ==
    ASSUME Lifecycle
    PROVE  \/ ~Up /\ Up' /\ starts' = starts + 1 /\ call' = call
           \/ /\ Up /\ ~Up' /\ starts' = starts
              /\ call' = [c \in Calls |-> IF call[c] = "running" THEN "cut" ELSE call[c]]
           \/ Up' = Up /\ starts' = starts /\ call' = call
<1>1. CASE Start
    BY <1>1 DEF Start, Up
<1>2. CASE Kill \/ Signal \/ StdioReturns
    BY <1>2 DEF Kill, Signal, StdioReturns, Exit, Up
<1>3. CASE MainStep
    BY <1>3 DEF MainStep, NotifyContext, Run, Listen, Serve, ServeReturns, StdioReturns,
                ReturnClosed, ClosedMeanwhile, Exit, Up
<1>4. CASE StopperStep
    BY <1>4 DEF StopperStep, StopperWakes, ShutdownSSE, CloseServer, StopperMoves, Up
<1>5. CASE ListenMetrics \/ \E p \in Ports : PortChanges(p)
    BY <1>5 DEF ListenMetrics, MetricsFails, PortChanges, Up
<1> QED
    BY <1>1, <1>2, <1>3, <1>4, <1>5 DEF Lifecycle

LEMMA TraceStep == [BridgeNext]_bridgeVars => [RP!Next]_(RP!vars)
<1> SUFFICES ASSUME [BridgeNext]_bridgeVars PROVE [RP!Next]_(RP!vars)
    OBVIOUS
<1>1. UNCHANGED <<Up, starts, traceVars>> => UNCHANGED RP!vars
    <2>1. Up' = Up => [p \in {Process} |-> Up'] = [p \in {Process} |-> Up]
        OBVIOUS
    <2>2. Up' = Up /\ starts' = starts =>
            (IF Up' THEN starts' - 1 ELSE starts') = (IF Up THEN starts - 1 ELSE starts)
        BY DEF Up
    <2> QED
        BY <2>1, <2>2 DEF traceVars, RP!vars, Process
<1>2. CASE Lives(Lifecycle)
    <2>1. R!StartProcess(Process) \/ R!Crash(Process) => RP!Next
        BY SameTrace DEF RP!Next
    <2>2. CASE Up = Up' /\ UNCHANGED traceVars
        <3>1. starts' = starts
            BY <1>2, <2>2, LifeSteps DEF Lives
        <3> QED
            BY <1>1, <2>2, <3>1
    <2> QED
        BY <1>2, <2>1, <2>2 DEF Lives
<1>3. ASSUME NEW c \in Calls, Arrive(c) PROVE RP!Next
    BY <1>3, SameTrace DEF Arrive, RP!Next
<1>4. ASSUME NEW c \in Calls, HandlerReturns(c) PROVE RP!Next
    BY <1>4, SameTrace DEF HandlerReturns, RP!Next, RP!CallStep
<1>5. ASSUME NEW c \in Calls, RecordStep(c) PROVE RP!Next
    BY <1>5, SameTrace DEF RecordStep, RP!Next, RP!CallStep
<1>6. ASSUME NEW c \in Calls, HandlerStep(c) \/ GatewayStep(c) \/ Deliver(c)
      PROVE  UNCHANGED RP!vars
    <2>1. UNCHANGED <<main, starts, traceVars>>
        BY <1>6 DEF HandlerStep, GatewayStep, Deliver, Answer, CallMoves, serverVars
    <2> QED
        BY <1>1, <2>1 DEF Up
<1>7. CASE UNCHANGED bridgeVars
    BY <1>1, <1>7 DEF bridgeVars, serverVars, Up
<1> QED
    BY <1>2, <1>3, <1>4, <1>5, <1>6, <1>7 DEF BridgeNext, CallProgress

-----------------------------------------------------------------------------
(* How the components agree on a call.                                     *)
Agree(c) ==
    /\ call[c] = "new" <=> tracePc[c] = "idle"
    /\ call[c] = "running" => Up /\ tracePc[c] # "killed"
    /\ toolPc[c] # "idle" => tracePc[c] # "idle"
    /\ tracePc[c] \notin {"idle", "inner", "killed"} =>
          toolPc[c] = "done" /\ traceResult[c] # "none"
    /\ call[c] \in {"answered", "lost"} => tracePc[c] = "done"
    /\ traceResult[c] # "none" => toolPc[c] = "done" /\ traceResult[c] = HandlerResult(c)

Links ==
    /\ \A c \in Calls : Agree(c)
    /\ \A i \in DOMAIN log : traceResult[log[i].call] # "none"
    /\ recorded \in [Calls -> BOOLEAN]

(* What the proofs need to know of the types.                              *)
Shapes ==
    /\ call \in [Calls -> CallStates]
    /\ toolPc \in [Calls -> {"idle", "request", "waiting", "done"}]
    /\ toolResult \in [Calls -> {"none", "success", "error", "refused"}]
    /\ DOMAIN tracePc = Calls
    /\ \A c \in Calls : tracePc[c] \in
          {"idle", "inner", "check", "lock", "data", "newline", "done", "killed"}
    /\ traceResult \in [Calls -> {"none", "success", "isError", "goError"}]
    /\ file \in [{Process} -> BOOLEAN] /\ enabled \in [{Process} -> BOOLEAN]
    /\ faults \in Nat

Components == ServerInv /\ TP!IndInv /\ RP!RecorderInv

LEMMA ShapesOf == Components => Shapes
<1> SUFFICES ASSUME Components PROVE Shapes
    OBVIOUS
<1>1. call \in [Calls -> CallStates]
    BY DEF Components, ServerInv, ServerTypeOK, ServerTypes
<1>2. /\ toolPc \in [Calls -> {"idle", "request", "waiting", "done"}]
      /\ toolResult \in [Calls -> {"none", "success", "error", "refused"}]
    BY DEF Components, TP!IndInv, TP!Types
<1>3. RP!Types /\ DOMAIN tracePc = Calls
    BY DEF Components, RP!RecorderInv, RP!Typing, RP!Goroutines
<1>4. \A c \in Calls : tracePc[c] \in
          {"idle", "inner", "check", "lock", "data", "newline", "done", "killed"}
    BY <1>3 DEF RP!Types, RP!CallPc
<1>5. /\ traceResult \in [Calls -> {"none", "success", "isError", "goError"}]
      /\ file \in [{Process} -> BOOLEAN] /\ enabled \in [{Process} -> BOOLEAN]
      /\ faults \in Nat
    BY <1>3, RecorderAssumption DEF RP!Types, RP!Results
<1> QED
    BY <1>1, <1>2, <1>3, <1>4, <1>5 DEF Shapes

-----------------------------------------------------------------------------
(* What each step does to the labels of the calls.                         *)

(* The process starts, or ends with all it runs, or goes on.               *)
LEMMA LivesEffect ==
    ASSUME Shapes, Lives(Lifecycle)
    PROVE  /\ UNCHANGED <<toolPc, toolResult, traceResult, log, recorded, faults>>
           /\ \/ ~Up /\ call' = call /\ tracePc' = tracePc
              \/ Up' = Up /\ UNCHANGED <<call, tracePc, file>>
              \/ /\ Up /\ ~Up'
                 /\ call' = [c \in Calls |->
                              IF call[c] = "running" THEN "cut" ELSE call[c]]
                 /\ tracePc' = [c \in Calls |->
                        IF tracePc[c] \notin {"idle", "done"} THEN "killed"
                        ELSE tracePc[c]]
<1>1. UNCHANGED <<toolPc, toolResult, recorded>>
    BY DEF Lives, toolVars
<1>2. Lifecycle
    BY DEF Lives
<1>3. CASE ~Up /\ Up' /\ R!StartProcess(Process)
    BY <1>1, <1>2, <1>3, LifeSteps DEF R!StartProcess
<1>4. CASE Up /\ ~Up' /\ R!Crash(Process)
    <2>1. /\ UNCHANGED <<traceResult, log, faults>>
          /\ tracePc' = [c \in Calls |->
                IF tracePc[c] \notin {"idle", "done"} THEN "killed" ELSE tracePc[c]]
        BY <1>4 DEF R!Crash, R!Goroutines
    <2> QED
        BY <1>1, <1>2, <1>4, <2>1, LifeSteps
<1>5. CASE Up = Up' /\ UNCHANGED traceVars
    BY <1>1, <1>2, <1>5, LifeSteps DEF traceVars
<1> QED
    BY <1>3, <1>4, <1>5 DEF Lives

(* A step of one call leaves the labels of the others alone.               *)
Alone(c) ==
    /\ Up' = Up /\ UNCHANGED file
    /\ \A d \in Calls \ {c} :
          /\ call'[d] = call[d] /\ toolPc'[d] = toolPc[d] /\ tracePc'[d] = tracePc[d]
          /\ toolResult'[d] = toolResult[d] /\ traceResult'[d] = traceResult[d]
          /\ recorded'[d] = recorded[d]

LEMMA ArriveEffect ==
    ASSUME Shapes, recorded \in [Calls -> BOOLEAN], NEW c \in Calls, Arrive(c)
    PROVE  /\ Alone(c) /\ Up
           /\ call[c] = "new" /\ call'[c] = "running"
           /\ tracePc[c] = "idle" /\ tracePc'[c] = "inner"
           /\ recorded' = [recorded EXCEPT ![c] = file[Process]]
           /\ UNCHANGED <<toolPc, toolResult, traceResult, log, faults>>
<1>1. Up /\ Up' = Up /\ call[c] = "new" /\ call' = [call EXCEPT ![c] = "running"]
    BY DEF Arrive, Accept, CallMoves, Up
<1>2. /\ tracePc[c] = "idle" /\ tracePc' = [tracePc EXCEPT ![c] = "inner"]
      /\ UNCHANGED <<traceResult, log, faults, file>>
    BY DEF Arrive, R!CallTool, R!Goto
<1>3. UNCHANGED <<toolPc, toolResult>> /\ recorded' = [recorded EXCEPT ![c] = file[Process]]
    BY DEF Arrive, toolVars
<1> QED
    BY <1>1, <1>2, <1>3 DEF Alone, Shapes

LEMMA HandlerEffect ==
    ASSUME Shapes, NEW c \in Calls, HandlerStep(c)
    PROVE  /\ Alone(c) /\ tracePc[c] = "inner" /\ toolPc[c] # "done"
           /\ UNCHANGED <<call, tracePc, traceResult, log, recorded, faults>>
<1>1. /\ UNCHANGED <<call, main, tracePc, traceResult, file, log, recorded, faults>>
      /\ tracePc[c] = "inner"
    BY DEF HandlerStep, serverVars, traceVars
<1>2. CASE T!Handle(c)
    BY <1>1, <1>2 DEF T!Handle, T!Goto, T!Return, Alone, Shapes, Up
<1>3. CASE T!CallStep(c)
    BY <1>1, <1>3 DEF T!CallStep, T!Request, T!SendRequest, T!Receive, T!Unanswered,
       T!GiveUp, T!Outcome, T!Goto, T!Return, Alone, Shapes, Up
<1> QED
    BY <1>2, <1>3 DEF HandlerStep

LEMMA ReturnEffect ==
    ASSUME Shapes, NEW c \in Calls, HandlerReturns(c)
    PROVE  /\ Alone(c) /\ tracePc[c] = "inner" /\ toolPc[c] = "done"
           /\ tracePc'[c] = IF enabled[Process] THEN "check" ELSE "done"
           /\ traceResult'[c] = HandlerResult(c)
           /\ UNCHANGED <<call, toolPc, toolResult, log, recorded, faults>>
<1>1. /\ UNCHANGED <<call, main, toolPc, toolResult, recorded>>
      /\ toolPc[c] = "done"
    BY DEF HandlerReturns, serverVars, toolVars
<1>2. /\ tracePc[c] = "inner"
      /\ tracePc' = [tracePc EXCEPT ![c] = IF enabled[Process] THEN "check" ELSE "done"]
      /\ UNCHANGED <<log, file, faults>>
      /\ \E r : traceResult' = [traceResult EXCEPT ![c] = r]
      /\ traceResult'[c] = HandlerResult(c)
    BY DEF HandlerReturns, R!InnerReturns, R!Goto, R!Recorder
<1> QED
    BY <1>1, <1>2 DEF Alone, Shapes, Up

(* c appends to the log.                                                   *)
Appends(c, kind) ==
    log' = Append(log, [kind |-> kind, call |-> c,
                        success |-> traceResult[c] = "success"])

LEMMA RecordEffect ==
    ASSUME Shapes, NEW c \in Calls, RecordStep(c)
    PROVE  /\ Alone(c) /\ UNCHANGED <<call, toolPc, toolResult, traceResult, recorded>>
           /\ \/ /\ tracePc[c] \in {"check", "lock"} /\ tracePc'[c] \in {"lock", "data"}
                 /\ UNCHANGED <<log, faults>>
              \/ /\ tracePc[c] \in {"check", "data"} /\ tracePc'[c] = "done"
                 /\ ~file[Process] /\ UNCHANGED <<log, faults>>
              \/ /\ tracePc[c] \in {"data", "newline"} /\ tracePc'[c] = "done"
                 /\ faults' = faults + 1 /\ (Appends(c, "torn") \/ log' = log)
              \/ /\ tracePc[c] = "data" /\ tracePc'[c] = "newline"
                 /\ Appends(c, "event") /\ faults' = faults
              \/ /\ tracePc[c] = "newline" /\ tracePc'[c] = "done"
                 /\ Appends(c, "newline") /\ faults' = faults
<1> USE DEF R!Goto, R!Recorder, Appends
<1>1. UNCHANGED <<call, main, toolPc, toolResult, recorded>>
    BY DEF RecordStep, serverVars, toolVars
<1>2. CASE R!CheckFile(c)
    BY <1>1, <1>2 DEF R!CheckFile, Alone, Shapes, Up
<1>3. CASE R!LockRecord(c)
    BY <1>1, <1>3 DEF R!LockRecord, R!LockRecorder, Alone, Shapes, Up
<1>4. CASE R!WriteEvent(c)
    <2>1. /\ tracePc[c] = "data" /\ UNCHANGED <<file, traceResult>>
          /\ \/ tracePc' = [tracePc EXCEPT ![c] = "newline"] /\ Appends(c, "event")
                /\ faults' = faults
             \/ /\ tracePc' = [tracePc EXCEPT ![c] = "done"] /\ faults' = faults + 1
                /\ Appends(c, "torn") \/ log' = log
             \/ tracePc' = [tracePc EXCEPT ![c] = "done"] /\ ~file[Process]
                /\ UNCHANGED <<log, faults>>
        BY <1>4 DEF R!WriteEvent, R!Write, R!Success
    <2> HIDE DEF Appends
    <2> QED
        BY <1>1, <2>1 DEF Alone, Shapes, Up
<1>5. CASE R!WriteNewline(c)
    <2>1. /\ tracePc[c] = "newline" /\ tracePc' = [tracePc EXCEPT ![c] = "done"]
          /\ UNCHANGED <<file, traceResult>>
          /\ \/ Appends(c, "newline") /\ faults' = faults
             \/ faults' = faults + 1 /\ log' = log
        BY <1>5 DEF R!WriteNewline, R!Write, R!Success
    <2> HIDE DEF Appends
    <2> QED
        BY <1>1, <2>1 DEF Alone, Shapes, Up
<1> QED
    BY <1>2, <1>3, <1>4, <1>5 DEF RecordStep

LEMMA DeliverEffect ==
    ASSUME Shapes, NEW c \in Calls, Deliver(c)
    PROVE  /\ Alone(c) /\ tracePc[c] = "done"
           /\ call[c] = "running" /\ call'[c] \in {"answered", "lost"}
           /\ UNCHANGED <<toolPc, toolResult, tracePc, traceResult, log, recorded, faults>>
<1>1. /\ tracePc[c] = "done"
      /\ UNCHANGED <<toolPc, toolResult, tracePc, traceResult, log, recorded, faults, file>>
    BY DEF Deliver, WrapReturned, toolVars, traceVars
<1>2. /\ call[c] = "running" /\ UNCHANGED main
      /\ \/ call' = [call EXCEPT ![c] = "answered"]
         \/ call' = [call EXCEPT ![c] = "lost"]
    BY DEF Deliver, Answer, CallMoves
<1> QED
    BY <1>1, <1>2 DEF Alone, Shapes, Up

LEMMA GatewayEffect ==
    ASSUME NEW c \in Calls, GatewayStep(c)
    PROVE  /\ Up' = Up
           /\ UNCHANGED <<call, toolPc, toolResult, tracePc, traceResult, log, recorded,
                          faults, file>>
BY DEF GatewayStep, T!Serve, T!Reject, T!Lose, serverVars, traceVars, Up

-----------------------------------------------------------------------------
(* The components go on agreeing.                                          *)
LEMMA AgreeAlone ==
    ASSUME NEW c \in Calls, Alone(c), NEW d \in Calls, d # c, Agree(d)
    PROVE  Agree(d)'
BY DEF Alone, Agree, HandlerResult

(* No step makes the components disagree on a call.                        *)
LEMMA AgreeNext ==
    ASSUME Shapes, \A c \in Calls : Agree(c), recorded \in [Calls -> BOOLEAN],
           [BridgeNext]_bridgeVars, NEW d \in Calls
    PROVE  Agree(d)'
<1>1. CASE Lives(Lifecycle)
    <2>1. UNCHANGED <<toolPc, toolResult, traceResult>> /\ Agree(d)
        BY <1>1, LivesEffect
    <2>2. CASE Up' = Up /\ UNCHANGED <<call, tracePc>>
        BY <2>1, <2>2 DEF Agree, HandlerResult
    <2>3. CASE ~Up /\ call' = call /\ tracePc' = tracePc
        BY <2>1, <2>3 DEF Agree, HandlerResult
    <2>4. CASE /\ call' = [c \in Calls |-> IF call[c] = "running" THEN "cut" ELSE call[c]]
               /\ tracePc' = [c \in Calls |-> IF tracePc[c] \notin {"idle", "done"}
                                              THEN "killed" ELSE tracePc[c]]
        BY <2>1, <2>4 DEF Agree, HandlerResult
    <2> QED
        BY <1>1, <2>2, <2>3, <2>4, LivesEffect
<1>2. ASSUME NEW c \in Calls, Arrive(c) PROVE Alone(c) /\ Agree(c)'
    BY <1>2, ArriveEffect DEF Agree, HandlerResult, Alone
<1>3. ASSUME NEW c \in Calls, HandlerStep(c) PROVE Alone(c) /\ Agree(c)'
    BY <1>3, HandlerEffect DEF Agree, Alone
<1>4. ASSUME NEW c \in Calls, HandlerReturns(c) PROVE Alone(c) /\ Agree(c)'
    BY <1>4, ReturnEffect DEF Agree, HandlerResult, Alone
<1>5. ASSUME NEW c \in Calls, RecordStep(c) PROVE Alone(c) /\ Agree(c)'
    <2>1. /\ Alone(c) /\ UNCHANGED <<call, toolPc, toolResult, traceResult>>
          /\ tracePc[c] \in {"check", "lock", "data", "newline"}
          /\ tracePc'[c] \in {"lock", "data", "newline", "done"}
        BY <1>5, RecordEffect
    <2> QED
        BY <2>1 DEF Agree, HandlerResult, Alone
<1>6. ASSUME NEW c \in Calls, Deliver(c) PROVE Alone(c) /\ Agree(c)'
    BY <1>6, DeliverEffect DEF Agree, HandlerResult, Alone
<1>7. ASSUME NEW c \in Calls, Alone(c) /\ Agree(c)' PROVE Agree(d)'
    BY <1>7, AgreeAlone
<1>8. ASSUME NEW c \in Calls, GatewayStep(c) PROVE Agree(d)'
    BY <1>8, GatewayEffect DEF Agree, HandlerResult
<1>9. CASE UNCHANGED bridgeVars
    BY <1>9 DEF bridgeVars, serverVars, toolVars, traceVars, Up, Agree, HandlerResult
<1> QED
    BY <1>1, <1>2, <1>3, <1>4, <1>5, <1>6, <1>7, <1>8, <1>9 DEF BridgeNext, CallProgress

-----------------------------------------------------------------------------
(* The log. *)

(* Each step writes nothing, or one token of a call that runs.             *)
LEMMA LogEffect ==
    ASSUME Shapes, recorded \in [Calls -> BOOLEAN], [BridgeNext]_bridgeVars
    PROVE  \/ log' = log
           \/ \E c \in Calls, kind \in {"event", "torn", "newline"} :
                 /\ Appends(c, kind)
                 /\ Alone(c) /\ tracePc[c] \in {"data", "newline"}
                 /\ tracePc'[c] \in {"newline", "done"}
                 /\ kind = "event" <=> tracePc'[c] = "newline"
                 /\ kind = "newline" => tracePc[c] = "newline"
                 /\ traceResult' = traceResult
<1>1. CASE Lives(Lifecycle)
    BY <1>1, LivesEffect
<1>2. ASSUME NEW c \in Calls, RecordStep(c)
      PROVE  \/ log' = log
             \/ \E kind \in {"event", "torn", "newline"} :
                   /\ Appends(c, kind)
                   /\ Alone(c) /\ tracePc[c] \in {"data", "newline"}
                   /\ tracePc'[c] \in {"newline", "done"}
                   /\ kind = "event" <=> tracePc'[c] = "newline"
                   /\ kind = "newline" => tracePc[c] = "newline"
                   /\ traceResult' = traceResult
    BY <1>2, RecordEffect
<1>3. ASSUME NEW c \in Calls,
             Arrive(c) \/ HandlerStep(c) \/ HandlerReturns(c) \/ Deliver(c) \/ GatewayStep(c)
      PROVE  log' = log
    BY <1>3, ArriveEffect, HandlerEffect, ReturnEffect, DeliverEffect, GatewayEffect
<1>4. CASE UNCHANGED bridgeVars
    BY <1>4 DEF bridgeVars, traceVars
<1> QED
    BY <1>1, <1>2, <1>3, <1>4 DEF BridgeNext, CallProgress

(* The tokens in the log are of calls that have written.                   *)
LEMMA LogShape ==
    ASSUME Components
    PROVE  \A i \in DOMAIN log :
              /\ log[i].call \in Calls
              /\ tracePc[log[i].call] \in {"newline", "done", "killed"}
BY RP!LogTokens, RecorderAssumption, StartsAssumption
   DEF Components, RP!RecorderInv, RP!Logged

(* What it is to append a token.                                           *)
LEMMA AppendEffect ==
    ASSUME Components, NEW c \in Calls, NEW kind \in {"event", "torn", "newline"},
           Appends(c, kind)
    PROVE  /\ Len(log) \in Nat /\ Len(log') = Len(log) + 1
           /\ DOMAIN log = 1..Len(log) /\ DOMAIN log' = 1..(Len(log) + 1)
           /\ \A i \in DOMAIN log : log'[i] = log[i]
           /\ log'[Len(log) + 1].kind = kind /\ log'[Len(log) + 1].call = c
<1>1. log \in Seq(RP!Token)
    BY DEF Components, RP!RecorderInv, RP!Typing, RP!Types
<1> QED
    BY <1>1 DEF Appends

(* The log only grows, so a line that is there stays.                      *)
LEMMA LineStays ==
    ASSUME Components, log' = log \/ (\E c \in Calls, kind \in {"event", "torn", "newline"} :
                                         Appends(c, kind)),
           NEW d \in Calls, HasLine(d)
    PROVE  HasLine(d)'
<1>1. CASE log' = log
    BY <1>1 DEF HasLine
<1>2. ASSUME NEW c \in Calls, NEW kind \in {"event", "torn", "newline"}, Appends(c, kind)
      PROVE  HasLine(d)'
    <2>1. PICK i \in 1..(Len(log) - 1) :
              /\ log[i].kind = "event" /\ log[i].call = d
              /\ log[i + 1].kind = "newline" /\ log[i + 1].call = d
        BY DEF HasLine
    <2>2. /\ i \in 1..(Len(log') - 1) /\ i \in DOMAIN log /\ i + 1 \in DOMAIN log
          /\ log'[i] = log[i] /\ log'[i + 1] = log[i + 1]
        BY <1>2, AppendEffect
    <2> QED
        BY <2>1, <2>2 DEF HasLine
<1> QED
    BY <1>1, <1>2

(* How far the line of a recorded call is.                                 *)
EventIsLast(c) ==
    Len(log) > 0 /\ log[Len(log)].kind = "event" /\ log[Len(log)].call = c

Line(c) ==
    recorded[c] =>
       /\ tracePc[c] \in {"inner", "check", "lock", "data", "newline"} => file[Process]
       /\ tracePc[c] = "newline" => EventIsLast(c)
       /\ faults = 0 /\ tracePc[c] = "done" => HasLine(c)

(* What the recorder's invariant says where there is one process and       *)
(* nobody closes its file.                                                 *)
LEMMA OneRecorder ==
    ASSUME Components
    PROVE  /\ \A c \in Calls : tracePc[c] \notin {"idle", "done", "killed"} => Up
           /\ file[Process] => Up /\ enabled[Process]
           /\ \A c, d \in Calls :
                 tracePc[c] \in {"data", "newline"} /\ tracePc[d] \in {"data", "newline"}
                    => c = d
<1>1. RP!Alive /\ RP!Mutex
    BY DEF Components, RP!RecorderInv
<1>2. /\ \A c \in Calls : tracePc[c] \notin {"idle", "done", "killed"} => Up
      /\ file[Process] => Up /\ enabled[Process]
    BY <1>1 DEF RP!Alive, RP!Goroutines
<1>3. \A c \in Calls : mu[Process] = c <=> tracePc[c] \in {"data", "newline", "close"}
    BY <1>1 DEF RP!Mutex, RP!Goroutines, RP!Critical
<1> QED
    BY <1>2, <1>3

(* A step of one call keeps the lines of the others: nobody writes while   *)
(* another call is between its event and its newline.                      *)
LEMMA LineAlone ==
    ASSUME Components, NEW c \in Calls, Alone(c), NEW d \in Calls, d # c, Line(d),
           faults' = 0 => faults = 0,
           \/ log' = log
           \/ /\ tracePc[c] \in {"data", "newline"}
              /\ \E kind \in {"event", "torn", "newline"} : Appends(c, kind)
    PROVE  Line(d)'
<1>1. HasLine(d) => HasLine(d)'
    BY LineStays
<1>2. tracePc[d] = "newline" => log' = log
    BY OneRecorder
<1> QED
    BY <1>1, <1>2 DEF Line, EventIsLast, Alone

(* Unless a write fails, Record leaves with the line in the log.           *)
LEMMA LineRecorded ==
    ASSUME Components, Shapes, NEW c \in Calls, RecordStep(c), Line(c)
    PROVE  Line(c)'
<1> SUFFICES ASSUME recorded'[c]
             PROVE  /\ tracePc'[c] \in {"inner", "check", "lock", "data", "newline"}
                          => file'[Process]
                    /\ tracePc'[c] = "newline" => EventIsLast(c)'
                    /\ faults' = 0 /\ tracePc'[c] = "done" => HasLine(c)'
    BY DEF Line
<1>1. /\ recorded[c] /\ UNCHANGED file
      /\ tracePc[c] \in {"check", "lock", "data", "newline"}
    BY RecordEffect DEF Alone
<1>2. file[Process] /\ (tracePc[c] = "newline" => EventIsLast(c))
    BY <1>1 DEF Line
<1>3. CASE tracePc'[c] \in {"lock", "data"}
    BY <1>1, <1>2, <1>3
<1>4. CASE faults' = faults + 1 /\ tracePc'[c] = "done"
    BY <1>4 DEF Shapes
<1>5. CASE Appends(c, "event") /\ tracePc'[c] = "newline"
    <2>1. EventIsLast(c)'
        BY <1>5, AppendEffect DEF EventIsLast
    <2> QED
        BY <1>1, <1>2, <1>5, <2>1
<1>6. CASE tracePc[c] = "newline" /\ Appends(c, "newline") /\ tracePc'[c] = "done"
    <2> DEFINE n == Len(log)
    <2>1. EventIsLast(c)
        BY <1>2, <1>6
    <2>2. /\ n \in 1..(Len(log') - 1) /\ n \in DOMAIN log
          /\ log'[n] = log[n]
          /\ log'[n + 1].kind = "newline" /\ log'[n + 1].call = c
        BY <1>6, <2>1, AppendEffect DEF EventIsLast
    <2> QED
        BY <1>6, <2>1, <2>2 DEF EventIsLast, HasLine
<1> QED
    BY <1>2, <1>3, <1>4, <1>5, <1>6, RecordEffect

LEMMA LineNext ==
    ASSUME Components, Shapes, recorded \in [Calls -> BOOLEAN],
           \A c \in Calls : Agree(c) /\ Line(c), [BridgeNext]_bridgeVars, NEW d \in Calls
    PROVE  Line(d)'
<1>1. CASE Lives(Lifecycle)
    <2>1. Line(d) /\ UNCHANGED <<log, recorded, faults>>
        BY <1>1, LivesEffect
    <2>2. HasLine(d)' <=> HasLine(d)
        BY <2>1 DEF HasLine
    <2>3. CASE UNCHANGED <<tracePc, file>>
        BY <2>1, <2>2, <2>3 DEF Line, EventIsLast
    <2>4. CASE ~Up /\ tracePc' = tracePc
        BY <2>1, <2>2, <2>4, OneRecorder DEF Line, EventIsLast
    <2>5. CASE tracePc' = [c \in Calls |-> IF tracePc[c] \notin {"idle", "done"}
                                           THEN "killed" ELSE tracePc[c]]
        BY <2>1, <2>2, <2>5 DEF Line, EventIsLast
    <2> QED
        BY <1>1, <2>3, <2>4, <2>5, LivesEffect
<1>2. ASSUME NEW c \in Calls, Arrive(c) PROVE Line(d)'
    <2>1. Alone(c) /\ UNCHANGED <<log, faults>>
        BY <1>2, ArriveEffect
    <2>2. Line(c)'
        BY <1>2, ArriveEffect DEF Line, Alone
    <2> QED
        BY <2>1, <2>2, LineAlone
<1>3. ASSUME NEW c \in Calls, HandlerStep(c) \/ Deliver(c) PROVE Line(d)'
    <2>1. Alone(c) /\ UNCHANGED <<tracePc, log, recorded, faults>>
        BY <1>3, HandlerEffect, DeliverEffect
    <2> QED
        BY <2>1 DEF Alone, Line, EventIsLast, HasLine
<1>4. ASSUME NEW c \in Calls, HandlerReturns(c) PROVE Line(d)'
    <2>1. /\ Alone(c) /\ UNCHANGED <<log, recorded, faults>>
          /\ tracePc[c] = "inner"
          /\ tracePc'[c] = IF enabled[Process] THEN "check" ELSE "done"
        BY <1>4, ReturnEffect
    <2>2. Line(c)'
        BY <2>1, OneRecorder DEF Line, Alone
    <2> QED
        BY <2>1, <2>2, LineAlone
<1>5. ASSUME NEW c \in Calls, RecordStep(c) PROVE Line(d)'
    <2>1. /\ Alone(c)
          /\ \/ log' = log
             \/ /\ tracePc[c] \in {"data", "newline"}
                /\ \E kind \in {"event", "torn", "newline"} : Appends(c, kind)
        BY <1>5, RecordEffect
    <2>2. faults' = 0 => faults = 0
        BY <1>5, RecordEffect DEF Shapes
    <2> QED
        BY <1>5, <2>1, <2>2, LineAlone, LineRecorded
<1>6. CASE UNCHANGED <<tracePc, log, recorded, faults, file>>
    BY <1>6 DEF Line, EventIsLast, HasLine
<1>7. ASSUME NEW c \in Calls, GatewayStep(c)
      PROVE  UNCHANGED <<tracePc, log, recorded, faults, file>>
    BY <1>7, GatewayEffect
<1> QED
    BY <1>1, <1>2, <1>3, <1>4, <1>5, <1>6, <1>7
    DEF BridgeNext, CallProgress, bridgeVars, traceVars

-----------------------------------------------------------------------------
(* What always holds of the bridge.                                        *)
BridgeInv ==
    /\ Components
    /\ recorded \in [Calls -> BOOLEAN]
    /\ \A c \in Calls : Agree(c) /\ Line(c)
    /\ \A i \in DOMAIN log : traceResult[log[i].call] # "none"

LEMMA BridgeInitInv == BridgeInit => BridgeInv
<1> SUFFICES ASSUME BridgeInit PROVE BridgeInv
    OBVIOUS
<1>1. TP!Init
    BY DEF BridgeInit, T!Init, TP!Init, T!Argument, TP!Argument
<1>2. RP!Init
    BY DEF BridgeInit, R!Init, RP!Init, R!Goroutines, RP!Goroutines
<1>3. Components
    BY <1>1, <1>2, InitInv, ToolsInitInv, TraceInitInv DEF BridgeInit, Components
<1>4. /\ toolPc = [c \in Calls |-> "idle"] /\ tracePc = [c \in Calls |-> "idle"]
      /\ traceResult = [c \in Calls |-> "none"] /\ call = [c \in Calls |-> "new"]
      /\ recorded = [c \in Calls |-> FALSE] /\ log = << >>
    BY DEF BridgeInit, T!Init, R!Init, R!Goroutines, ServerInit
<1> QED
    BY <1>3, <1>4 DEF BridgeInv, Agree, Line

LEMMA BridgeNextInv == BridgeInv /\ [BridgeNext]_bridgeVars => BridgeInv'
<1> SUFFICES ASSUME BridgeInv, [BridgeNext]_bridgeVars PROVE BridgeInv'
    OBVIOUS
<1>1. Components' /\ Shapes
    BY ServerStep, StepInv, ToolsStep, ToolsInv, TraceStep, TraceInv, ShapesOf
    DEF BridgeInv, Components
<1>2. recorded' \in [Calls -> BOOLEAN]
    <2>1. recorded' = recorded \/ \E c \in Calls, b \in BOOLEAN :
             recorded' = [recorded EXCEPT ![c] = b]
        BY <1>1 DEF BridgeNext, bridgeVars, Lives, Arrive, CallProgress, HandlerStep,
              HandlerReturns, RecordStep, Deliver, GatewayStep, Shapes
    <2> QED
        BY <2>1 DEF BridgeInv
<1>3. \A c \in Calls : Agree(c)' /\ Line(c)'
    BY <1>1, AgreeNext, LineNext DEF BridgeInv
<1>4. \A i \in DOMAIN log' : traceResult'[log'[i].call] # "none"
    <2>1. CASE log' = log
        <3>1. ASSUME NEW c \in Calls, tracePc[c] \in {"newline", "done", "killed"},
                     traceResult[c] # "none"
              PROVE  traceResult'[c] # "none"
            <4>1. ASSUME NEW e \in Calls, HandlerReturns(e) PROVE traceResult'[c] # "none"
                BY <1>1, <3>1, <4>1, ReturnEffect DEF Alone
            <4>2. ASSUME NEW e \in Calls,
                         Arrive(e) \/ HandlerStep(e) \/ RecordStep(e) \/ Deliver(e)
                            \/ GatewayStep(e)
                  PROVE  traceResult' = traceResult
                BY <1>1, <4>2, ArriveEffect, HandlerEffect, RecordEffect, DeliverEffect,
                   GatewayEffect DEF BridgeInv
            <4>3. CASE Lives(Lifecycle) \/ UNCHANGED bridgeVars
                BY <1>1, <3>1, <4>3, LivesEffect DEF bridgeVars, traceVars
            <4> QED
                BY <3>1, <4>1, <4>2, <4>3 DEF BridgeNext, CallProgress
        <3> QED
            BY <2>1, <3>1, LogShape DEF BridgeInv
    <2>2. ASSUME NEW c \in Calls, NEW kind \in {"event", "torn", "newline"},
                 Appends(c, kind), tracePc[c] \in {"data", "newline"},
                 traceResult' = traceResult
          PROVE  \A i \in DOMAIN log' : traceResult'[log'[i].call] # "none"
        <3>1. traceResult[c] # "none"
            BY <2>2 DEF BridgeInv, Agree
        <3>2. \A i \in DOMAIN log' : \/ i \in DOMAIN log /\ log'[i] = log[i]
                                     \/ log'[i].call = c
            BY <2>2, AppendEffect DEF BridgeInv
        <3> QED
            BY <2>2, <3>1, <3>2 DEF BridgeInv
    <2> QED
        BY <1>1, <2>1, <2>2, LogEffect DEF BridgeInv
<1> QED
    BY <1>1, <1>2, <1>3, <1>4 DEF BridgeInv

(* The invariant of the composition holds in every reachable state.        *)
THEOREM BridgeInvariance == BridgeSpec => []BridgeInv
BY BridgeInitInv, BridgeNextInv, PTL DEF BridgeSpec

(* What the invariant of ToolCalls says of served calls.                   *)
LEMMA ToolFacts ==
    ASSUME BridgeInv
    PROVE  /\ TP!ServedOnce /\ served \in Seq(Calls)
           /\ \A c \in Calls :
                 /\ TP!Served(c) <=> Served(c)
                 /\ toolPc[c] = "done" <=> toolResult[c] # "none"
                 /\ toolResult[c] = "success" => Served(c)
                 /\ Served(c) => toolPc[c] # "idle" /\ toolResult[c] # "refused"
                 /\ c \in inflight => /\ ~Served(c) /\ toolPc[c] \notin {"idle", "request"}
                                      /\ toolResult[c] \in {"none", "error"}
<1>1. TP!IndInv /\ TP!ServedOnce /\ TP!Types
    BY DEF BridgeInv, Components, TP!IndInv
<1>2. ASSUME NEW c \in Calls
      PROVE  /\ TP!Served(c) <=> Served(c)
             /\ toolPc[c] = "done" <=> toolResult[c] # "none"
             /\ toolResult[c] = "success" => Served(c)
             /\ Served(c) => toolPc[c] # "idle" /\ toolResult[c] # "refused"
             /\ c \in inflight => /\ ~Served(c) /\ toolPc[c] \notin {"idle", "request"}
                                  /\ toolResult[c] \in {"none", "error"}
    <2>1. TP!CallInv(c) /\ (TP!Served(c) <=> Served(c))
        BY <1>1 DEF TP!IndInv, TP!Served, Served
    <2>2. toolResult[c] \in {"none", "success", "error", "refused"}
        BY <1>1 DEF TP!Types
    <2> QED
        BY <2>1, <2>2 DEF TP!CallInv, TP!Untouched
<1> QED
    BY <1>1, <1>2 DEF TP!Types

(* The parts of the system agree on where every call is.                   *)
THEOREM ComponentsAgree == BridgeSpec => []BridgeTypeOK
<1>1. BridgeInv => BridgeTypeOK
    <2> SUFFICES ASSUME BridgeInv PROVE BridgeTypeOK
        OBVIOUS
    <2>1. TP!TypeOK
        BY ToolsAssumption, TP!IndInvImplies
        DEF BridgeInv, Components, T!AllTools, TP!AllTools
    <2>2. T!TypeOK
        BY <2>1
        DEF TP!TypeOK, T!TypeOK, TP!Types, T!Types, TP!Argument, T!Argument, TP!Replies,
            T!Replies, TP!NeedsFirst, T!NeedsFirst, TP!NeedsSecond, T!NeedsSecond
    <2>3. RP!Typing /\ RP!Mutex
        BY DEF BridgeInv, Components, RP!RecorderInv
    <2>4. R!TypeOK
        BY <2>3
        DEF RP!Typing, RP!Mutex, RP!Critical, RP!Types, R!TypeOK, R!Types, RP!Goroutines,
            R!Goroutines, RP!Results, R!Results, RP!Token, R!Token, RP!CallPc, R!CallPc,
            RP!ClosePc, R!ClosePc
    <2> QED
        BY <2>2, <2>4 DEF BridgeInv, Agree, BridgeTypeOK
<1> QED
    BY <1>1, BridgeInvariance, PTL

(* While no write fails, no recorded call is missing from the log.         *)
THEOREM CallsAreAudited == BridgeSpec => []Audited
<1>1. BridgeInv => Audited
    <2> SUFFICES ASSUME BridgeInv, faults = 0, NEW c \in Calls, recorded[c]
                 PROVE  /\ call[c] \in {"answered", "lost"} => HasLine(c)
                        /\ Served(c) => HasLine(c) \/ call[c] \in {"running", "cut"}
        BY DEF Audited
    <2>1. call[c] \in {"answered", "lost"} => HasLine(c)
        BY DEF BridgeInv, Agree, Line
    <2>2. Served(c) => call[c] # "new"
        BY ToolFacts DEF BridgeInv, Agree
    <2>3. call[c] \in CallStates
        BY ShapesOf DEF BridgeInv, Shapes
    <2> QED
        BY <2>1, <2>2, <2>3 DEF CallStates
<1> QED
    BY <1>1, BridgeInvariance, PTL

(* What the log says of a call is what the gateway did.                    *)
THEOREM AuditIsTruthful == BridgeSpec => []TruthfulAudit
<1>1. BridgeInv => TruthfulAudit
    <2> SUFFICES ASSUME BridgeInv, NEW i \in DOMAIN log, log[i].kind = "event",
                        NEW c \in Calls, c = log[i].call
                 PROVE  /\ log[i].success <=> toolResult[c] = "success"
                        /\ log[i].success =>
                              Cardinality({j \in DOMAIN served : served[j] = c}) = 1
        BY LogShape DEF TruthfulAudit, BridgeInv
    <2>1. log[i].success = (traceResult[c] = "success")
        BY DEF BridgeInv, Components, RP!RecorderInv, RP!Logged, RP!TruthfulEvents
    <2>2. traceResult[c] = HandlerResult(c)
        BY DEF BridgeInv, Agree
    <2>3. log[i].success <=> toolResult[c] = "success"
        BY <2>1, <2>2 DEF HandlerResult
    <2>4. ASSUME Served(c) PROVE Cardinality({j \in DOMAIN served : served[j] = c}) = 1
        <3>1. PICK k \in DOMAIN served : served[k] = c
            BY <2>4 DEF Served
        <3>2. {j \in DOMAIN served : served[j] = c} = {k}
            BY <3>1, ToolFacts DEF TP!ServedOnce
        <3> QED
            BY <3>2, FS_Singleton
    <2> QED
        BY <2>3, <2>4, ToolFacts
<1> QED
    BY <1>1, BridgeInvariance, PTL

-----------------------------------------------------------------------------
(* Refinement.  The status of a call, as its client knows it, moves when   *)
(* the handler accepts the arguments and when the result is delivered.     *)
LEMMA StatusMoves ==
    ASSUME NEW c \in Calls, Alone(c)
    PROVE  [d \in Calls |-> ClientStatus(d)]'
             = [[d \in Calls |-> ClientStatus(d)] EXCEPT ![c] = ClientStatus(c)']
BY DEF Alone, ClientStatus

LEMMA StatusStays ==
    ASSUME \A c \in Calls : ClientStatus(c)' = ClientStatus(c), served' = served
    PROVE  UNCHANGED Client!vars
BY DEF Client!vars

LEMMA HandlerRefines ==
    ASSUME BridgeInv, NEW c \in Calls, HandlerStep(c)
    PROVE  Client!Begin(c) \/ UNCHANGED Client!vars
<1>1. Shapes
    BY ShapesOf DEF BridgeInv
<1>2. /\ Alone(c) /\ tracePc[c] = "inner" /\ UNCHANGED call
    BY <1>1, HandlerEffect
<1>3. call[c] # "answered"
    BY <1>2 DEF BridgeInv, Agree
<1>4. /\ served' = served
      /\ \/ toolPc[c] = "idle" /\ toolPc'[c] = "request" /\ toolResult' = toolResult
         \/ toolPc[c] = "idle" /\ toolResult'[c] = "refused"
         \/ /\ toolPc[c] \in {"request", "waiting"} /\ toolPc'[c] # "idle"
            /\ toolResult'[c] # "refused"
    <2>1. toolPc[c] # "done" => toolResult[c] = "none"
        BY ToolFacts
    <2>2. CASE T!Handle(c)
        BY <1>1, <2>2 DEF T!Handle, T!Goto, T!Return, Shapes
    <2>3. CASE T!CallStep(c)
        BY <1>1, <2>1, <2>3
        DEF T!CallStep, T!Request, T!SendRequest, T!Receive, T!Unanswered, T!GiveUp,
            T!Outcome, T!Goto, T!Return, Shapes
    <2> QED
        BY <2>2, <2>3 DEF HandlerStep
<1>5. toolPc[c] # "done" => toolResult[c] = "none"
    BY ToolFacts
<1>6. CASE ClientStatus(c)' = ClientStatus(c)
    <2>1. \A d \in Calls : ClientStatus(d)' = ClientStatus(d)
        BY <1>2, <1>6 DEF Alone, ClientStatus
    <2> QED
        BY <1>4, <2>1, StatusStays
<1>7. CASE ClientStatus(c) = "new" /\ ClientStatus(c)' = "open"
    BY <1>1, <1>2, <1>4, <1>7, StatusMoves DEF Client!Begin, Client!Move
<1> QED
    BY <1>2, <1>3, <1>4, <1>5, <1>6, <1>7 DEF ClientStatus

LEMMA DeliverRefines ==
    ASSUME BridgeInv, NEW c \in Calls, Deliver(c)
    PROVE  Client!Refuse(c) \/ Client!Fail(c) \/ Client!Succeed(c) \/ UNCHANGED Client!vars
<1>1. Shapes
    BY ShapesOf DEF BridgeInv
<1>2. /\ Alone(c) /\ UNCHANGED <<toolPc, toolResult>>
      /\ tracePc[c] = "done" /\ call[c] = "running" /\ call'[c] \in {"answered", "lost"}
    BY <1>1, DeliverEffect
<1>3. served' = served
    BY DEF Deliver, toolVars
<1>4. toolPc[c] = "done" /\ toolResult[c] \in {"success", "error", "refused"}
    BY <1>1, <1>2, ToolFacts DEF BridgeInv, Agree, Shapes
<1>5. CASE call'[c] = "lost"
    <2>1. \A d \in Calls : ClientStatus(d)' = ClientStatus(d)
        BY <1>2, <1>5 DEF Alone, ClientStatus
    <2> QED
        BY <1>3, <2>1, StatusStays
<1>6. CASE call'[c] = "answered"
    <2>1. /\ ClientStatus(c)' = toolResult[c]
          /\ ClientStatus(c) = IF toolResult[c] = "refused" THEN "new" ELSE "open"
        BY <1>2, <1>4, <1>6 DEF ClientStatus
    <2>2. toolResult[c] = "success" => Client!Served(c)
        BY ToolFacts DEF Served, Client!Served
    <2> QED
        BY <1>1, <1>2, <1>3, <1>4, <2>1, <2>2, StatusMoves
        DEF Client!Refuse, Client!Fail, Client!Succeed, Client!Move
<1> QED
    BY <1>2, <1>5, <1>6

LEMMA GatewayRefines ==
    ASSUME BridgeInv, NEW c \in Calls, GatewayStep(c)
    PROVE  Client!Serve(c) \/ UNCHANGED Client!vars
<1>1. UNCHANGED <<call, toolPc, toolResult>>
    BY DEF GatewayStep, T!Serve, T!Reject, T!Lose, serverVars
<1>2. \A d \in Calls : ClientStatus(d)' = ClientStatus(d)
    BY <1>1 DEF ClientStatus
<1>3. CASE T!Serve(c)
    <2>1. c \in inflight /\ served' = Append(served, c)
        BY <1>3 DEF T!Serve
    <2>2. ~Served(c) /\ toolPc[c] \notin {"idle", "request"}
          /\ toolResult[c] \in {"none", "error"}
        BY <2>1, ToolFacts
    <2>3. call[c] = "answered" => toolPc[c] = "done"
        BY DEF BridgeInv, Agree
    <2>4. ClientStatus(c) \in {"open", "error"}
        BY <2>2, <2>3, ToolFacts DEF ClientStatus
    <2> QED
        BY <1>2, <2>1, <2>2, <2>4 DEF Client!Serve, Client!Served, Served
<1>4. CASE T!Reject(c) \/ T!Lose(c)
    <2>1. served' = served
        BY <1>4 DEF T!Reject, T!Lose
    <2> QED
        BY <1>2, <2>1, StatusStays
<1> QED
    BY <1>3, <1>4 DEF GatewayStep

(* Every step of the bridge is one of the promise, or invisible in it.     *)
LEMMA BridgeRefines ==
    ASSUME BridgeInv, [BridgeNext]_bridgeVars
    PROVE  [Client!Next]_(Client!vars)
<1>1. Shapes /\ \A c \in Calls : Agree(c)
    BY ShapesOf DEF BridgeInv
<1>2. CASE Lives(Lifecycle)
    <2>1. UNCHANGED <<toolPc, toolResult, served>>
        BY <1>2 DEF Lives, toolVars
    <2>2. \A c \in Calls : call'[c] = "answered" <=> call[c] = "answered"
        BY <1>1, <1>2, LivesEffect
    <2> QED
        BY <2>1, <2>2, StatusStays DEF ClientStatus
<1>3. ASSUME NEW c \in Calls, Arrive(c) PROVE UNCHANGED Client!vars
    <2>1. Alone(c) /\ call[c] = "new" /\ call'[c] = "running" /\ UNCHANGED <<toolPc, toolResult>>
        BY <1>1, <1>3, ArriveEffect DEF BridgeInv
    <2>2. served' = served
        BY <1>3 DEF Arrive, toolVars
    <2> QED
        BY <2>1, <2>2, StatusStays DEF Alone, ClientStatus
<1>4. ASSUME NEW c \in Calls, HandlerReturns(c) \/ RecordStep(c)
      PROVE  UNCHANGED Client!vars
    BY <1>4, StatusStays
    DEF HandlerReturns, RecordStep, serverVars, toolVars, ClientStatus
<1>5. CASE UNCHANGED bridgeVars
    BY <1>5, StatusStays DEF bridgeVars, serverVars, toolVars, ClientStatus
<1> QED
    BY <1>2, <1>3, <1>4, <1>5, HandlerRefines, DeliverRefines, GatewayRefines
    DEF BridgeNext, CallProgress, Client!Next

(* The bridge keeps to its clients what ToolCalls promises, through the    *)
(* recorder and over any number of signals, kills and restarts.            *)
THEOREM PromiseIsKept == BridgeSpec => PromiseToClient
<1>1. BridgeInit => Client!Init
    BY DEF BridgeInit, ServerInit, T!Init, Client!Init, ClientStatus
<1>2. BridgeInv /\ [BridgeNext]_bridgeVars => [Client!Next]_(Client!vars)
    BY BridgeRefines
<1> QED
    BY <1>1, <1>2, BridgeInvariance, PTL DEF BridgeSpec, PromiseToClient, Client!Spec

(* The bridge is no more than its components at once: whatever it does,    *)
(* each of them does what its own specification allows, or nothing.        *)
THEOREM ComponentsRun == BridgeSpec => ServerSpec /\ TP!Spec /\ RP!Spec
<1>1. BridgeInit => ServerInit /\ TP!Init /\ RP!Init
    BY DEF BridgeInit, T!Init, TP!Init, T!Argument, TP!Argument, R!Init, RP!Init,
           R!Goroutines, RP!Goroutines
<1> QED
    BY <1>1, ServerStep, ToolsStep, TraceStep, PTL
    DEF BridgeSpec, ServerSpec, TP!Spec, RP!Spec

(* So what is proved of a component alone holds of it in the whole system, *)
(* over signals, kills and restarts.  As long as no process ends under a   *)
(* call and no write fails, the log has one event per line                 *)
(* (server.go:67-70, agentrace.go:97-143).                                 *)
THEOREM ComponentsKeepTheirWord ==
    BridgeSpec => /\ []ServerTypeOK /\ EndsForAReason
                  /\ []TP!RealTimeOrder
                  /\ []RP!TruthfulEvents /\ []RP!PairedWrites /\ []RP!NoSilentLoss
                  /\ []((RP!NobodyKilled /\ faults = 0) => RP!OneEventPerLine)
<1>1. ServerSpec => []ServerTypeOK /\ EndsForAReason
    BY PortFollowsRun, NoOtherEnd, PTL
<1>2. TP!Spec => []TP!RealTimeOrder
    BY ToolsAssumption, TP!ServedInOrder DEF T!AllTools, TP!AllTools
<1>3. RP!Spec => []RP!TruthfulEvents
    BY RecorderAssumption, StartsAssumption, RP!EventsAreTruthful
<1>4. RP!Spec => []RP!PairedWrites
    BY RecorderAssumption, StartsAssumption, RP!WritesArePaired
<1>5. RP!Spec => []RP!NoSilentLoss
    BY RecorderAssumption, StartsAssumption, RP!NothingIsLost
<1>6. RP!Spec => []((RP!NobodyKilled /\ faults = 0) => RP!OneEventPerLine)
    <2>1. RP!Spec => []RP!WholeLines
        BY RecorderAssumption, StartsAssumption, RP!LinesOfOneProcess
    <2>2. RP!WholeLines => ((RP!NobodyKilled /\ faults = 0) => RP!OneEventPerLine)
        BY DEF RP!WholeLines, RP!OneProcess
    <2> QED
        BY <2>1, <2>2, PTL
<1> QED
    BY <1>1, <1>2, <1>3, <1>4, <1>5, <1>6, ComponentsRun, PTL
=============================================================================

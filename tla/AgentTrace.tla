----------------------------- MODULE AgentTrace -----------------------------
(***************************************************************************)
(* The telemetry recorder of internal/agentrace/agentrace.go, wrapped      *)
(* around every tool by internal/server/server.go.  Tool calls of several  *)
(* server processes end at any time; each process has a Recorder with a    *)
(* mutex of its own, and all of them append to one log file of the user.   *)
(* An event is two writes, the JSON object and the newline.  A process can *)
(* crash between any two steps and start again, a write can fail, and      *)
(* Close can come while calls run.                                         *)
(***************************************************************************)
EXTENDS Naturals, Sequences

CONSTANTS
    Processes,      \* server processes that share the log file
    Calls,          \* tool calls
    Closers,        \* goroutines that call Recorder.Close
    Free,           \* nobody holds a mutex
    MaxCrashes,     \* bound: crashes of processes
    MaxFaults       \* bound: writes that fail

ASSUME BoundsAssumption == MaxCrashes \in Nat /\ MaxFaults \in Nat
ASSUME NamesAssumption == Free \notin Calls \union Closers /\ Calls \intersect Closers = {}

VARIABLES
    proc,       \* proc[g]: the process goroutine g runs in
    up,         \* up[p]: p runs
    enabled,    \* enabled[p]: Recorder.enabled; FALSE for a nil Recorder too
    file,       \* file[p]: Recorder.f is not nil
    mu,         \* mu[p]: who holds Recorder.mu
    log,        \* the log file, write by write
    pc,         \* where a call or a closer is
    result,     \* result[c]: what the inner handler of c returned
    closeError, \* closeError[k]: Close returned an error
    crashes, faults

vars == <<proc, up, enabled, file, mu, log, pc, result, closeError, crashes, faults>>

Results == {"none", "success", "isError", "goError"}

(* One write: an event, a torn part of one, or a newline, with the call    *)
(* that made it and the event's success field.                             *)
Token == [kind: {"event", "torn", "newline"}, call: Calls, success: BOOLEAN]

CallPc == {"idle", "inner", "check", "lock", "data", "newline", "done", "killed"}
ClosePc == {"idle", "lock", "close", "done", "killed"}
Goroutines == Calls \union Closers

Init ==
    /\ proc \in [Goroutines -> Processes]
    /\ up = [p \in Processes |-> FALSE]
    /\ enabled = [p \in Processes |-> FALSE]
    /\ file = [p \in Processes |-> FALSE]
    /\ mu = [p \in Processes |-> Free]
    /\ log = << >>
    /\ pc = [g \in Goroutines |-> "idle"]
    /\ result = [c \in Calls |-> "none"]
    /\ closeError = [k \in Closers |-> FALSE]
    /\ crashes = 0
    /\ faults = 0

Goto(g, label) == pc' = [pc EXCEPT ![g] = label]
Recorder(g) == proc[g]
Lock(g) == mu[Recorder(g)] = Free /\ mu' = [mu EXCEPT ![Recorder(g)] = g]
Unlock(g) == mu' = [mu EXCEPT ![Recorder(g)] = Free]

-----------------------------------------------------------------------------
(* server.New and agentrace.New: disabled, or the file could not be opened *)
(* and there is no Recorder; enabled without a log path; or recording.     *)
StartProcess(p) ==
    /\ ~up[p]
    /\ up' = [up EXCEPT ![p] = TRUE]
    /\ \E e \in BOOLEAN, f \in BOOLEAN :
          /\ f => e
          /\ enabled' = [enabled EXCEPT ![p] = e]
          /\ file' = [file EXCEPT ![p] = f]
    /\ UNCHANGED <<proc, mu, log, pc, result, closeError, crashes, faults>>

(* The process dies: its goroutines, its mutex and its handle are gone.    *)
Crash(p) ==
    /\ up[p] /\ crashes < MaxCrashes
    /\ crashes' = crashes + 1
    /\ up' = [up EXCEPT ![p] = FALSE]
    /\ file' = [file EXCEPT ![p] = FALSE]
    /\ mu' = [mu EXCEPT ![p] = Free]
    /\ pc' = [g \in Goroutines |->
                IF proc[g] = p /\ pc[g] \notin {"idle", "done"} THEN "killed"
                ELSE pc[g]]
    /\ UNCHANGED <<proc, enabled, log, result, closeError, faults>>

(* A tool call arrives; Wrap runs the inner handler.                       *)
CallTool(c) ==
    /\ up[Recorder(c)] /\ pc[c] = "idle" /\ Goto(c, "inner")
    /\ UNCHANGED <<proc, up, enabled, file, mu, log, result, closeError, crashes,
                   faults>>

(* It returns; without a recorder the inner handler is all there is.       *)
InnerReturns(c) ==
    /\ pc[c] = "inner"
    /\ \E r \in Results \ {"none"} : result' = [result EXCEPT ![c] = r]
    /\ Goto(c, IF enabled[Recorder(c)] THEN "check" ELSE "done")
    /\ UNCHANGED <<proc, up, enabled, file, mu, log, closeError, crashes, faults>>

(* Record looks at r.f before it takes the mutex.                          *)
CheckFile(c) ==
    /\ pc[c] = "check"
    /\ Goto(c, IF file[Recorder(c)] THEN "lock" ELSE "done")
    /\ UNCHANGED <<proc, up, enabled, file, mu, log, result, closeError, crashes,
                   faults>>

(* Variant: no mutex.                                                      *)
UnguardedLock(c) == Goto(c, "data") /\ UNCHANGED mu
(* Variant: an event is dropped when the mutex is taken.                   *)
TryLock(c) ==
    \/ Lock(c) /\ Goto(c, "data")
    \/ mu[Recorder(c)] # Free /\ Goto(c, "done") /\ UNCHANGED mu
LockRecorder(c) == Lock(c) /\ Goto(c, "data")
LockRecord(c) ==
    /\ pc[c] = "lock" /\ LockRecorder(c)
    /\ UNCHANGED <<proc, up, enabled, file, log, result, closeError, crashes,
                   faults>>

(* Variant: IsError results count as successes.                            *)
ErrorOnlyGo(c) == result[c] # "goError"
(* Wrap: an IsError result is recorded as a failure too.                   *)
Success(c) == result[c] = "success"

Write(c, kind) ==
    log' = Append(log, [kind |-> kind, call |-> c, success |-> Success(c)])

(* The first write.  A write that fails may leave a part behind; a file    *)
(* closed since CheckFile fails it at once.                                *)
WriteEvent(c) ==
    /\ pc[c] = "data"
    /\ \/ /\ file[Recorder(c)]
          /\ Write(c, "event") /\ Goto(c, "newline") /\ UNCHANGED <<mu, faults>>
       \/ /\ file[Recorder(c)] /\ faults < MaxFaults /\ faults' = faults + 1
          /\ Write(c, "torn") \/ UNCHANGED log
          /\ Unlock(c) /\ Goto(c, "done")
       \/ ~file[Recorder(c)] /\ Unlock(c) /\ Goto(c, "done") /\ UNCHANGED <<log, faults>>
    /\ UNCHANGED <<proc, up, enabled, file, result, closeError, crashes>>

(* Variant: the mutex is not released.                                     *)
KeepLocked(c) == UNCHANGED mu
UnlockRecord(c) == Unlock(c)

(* The second write, and the deferred unlock.                              *)
WriteNewline(c) ==
    /\ pc[c] = "newline"
    /\ \/ Write(c, "newline") /\ UNCHANGED faults
       \/ faults < MaxFaults /\ faults' = faults + 1 /\ UNCHANGED log
    /\ UnlockRecord(c) /\ Goto(c, "done")
    /\ UNCHANGED <<proc, up, enabled, file, result, closeError, crashes>>

(* Variant: Close does not look at r.f.                                    *)
UncheckedClose(k) ==
    /\ up[Recorder(k)] /\ pc[k] = "idle" /\ Goto(k, "lock")
    /\ UNCHANGED <<proc, up, enabled, file, mu, log, result, closeError, crashes,
                   faults>>
(* Close looks at r.f before it takes the mutex ...                        *)
CheckClose(k) ==
    /\ up[Recorder(k)] /\ pc[k] = "idle"
    /\ Goto(k, IF file[Recorder(k)] THEN "lock" ELSE "done")
    /\ UNCHANGED <<proc, up, enabled, file, mu, log, result, closeError, crashes,
                   faults>>

LockClose(k) ==
    /\ pc[k] = "lock" /\ Lock(k) /\ Goto(k, "close")
    /\ UNCHANGED <<proc, up, enabled, file, log, result, closeError, crashes,
                   faults>>

(* ... and not again under it: closing a nil file is an error.             *)
CloseFile(k) ==
    /\ pc[k] = "close" /\ Goto(k, "done")
    /\ closeError' = [closeError EXCEPT ![k] = ~file[Recorder(k)]]
    /\ file' = [file EXCEPT ![Recorder(k)] = FALSE]
    /\ Unlock(k)
    /\ UNCHANGED <<proc, up, enabled, log, result, crashes, faults>>

-----------------------------------------------------------------------------
CallStep(c) ==
    \/ InnerReturns(c) \/ CheckFile(c) \/ LockRecord(c) \/ WriteEvent(c)
    \/ WriteNewline(c)

CloseStep(k) == LockClose(k) \/ CloseFile(k)

Next ==
    \/ \E p \in Processes : StartProcess(p) \/ Crash(p)
    \/ \E c \in Calls : CallTool(c) \/ CallStep(c)
    \/ \E k \in Closers : CheckClose(k) \/ CloseStep(k)

Spec == Init /\ [][Next]_vars

(* Handlers return (their requests have timeouts), and the scheduler runs  *)
(* every goroutine; sync.Mutex serves whoever waits.                       *)
Fairness ==
    /\ \A c \in Calls : WF_vars(CallStep(c)) /\ SF_vars(LockRecord(c))
    /\ \A k \in Closers : WF_vars(CloseStep(k)) /\ SF_vars(LockClose(k))

FairSpec == Spec /\ Fairness

-----------------------------------------------------------------------------
Types ==
    /\ proc \in [Goroutines -> Processes]
    /\ up \in [Processes -> BOOLEAN]
    /\ enabled \in [Processes -> BOOLEAN]
    /\ file \in [Processes -> BOOLEAN]
    /\ mu \in [Processes -> Goroutines \union {Free}]
    /\ log \in Seq(Token)
    /\ \A c \in Calls : pc[c] \in CallPc
    /\ \A k \in Closers : pc[k] \in ClosePc
    /\ result \in [Calls -> Results]
    /\ closeError \in [Closers -> BOOLEAN]
    /\ crashes \in 0..MaxCrashes /\ faults \in 0..MaxFaults

(* Every variable has its type, and the mutex of a process is held by      *)
(* exactly the goroutine that is between lock and unlock, if any: no path  *)
(* through the writes or Close leaves it locked (agentrace.go:90-93,       *)
(* 115-123).                                                               *)
TypeOK ==
    /\ Types
    /\ \A g \in Goroutines :
          (mu[proc[g]] = g) <=> (pc[g] \in {"data", "newline", "close"})

(* A call leaves at most one event in the log, with the outcome the client *)
(* saw, and a newline only after it (agentrace.go:137-141).                *)
TruthfulEvents ==
    \A i \in DOMAIN log :
        /\ log[i].kind = "event" => log[i].success = (result[log[i].call] = "success")
        /\ \A j \in DOMAIN log :
              (log[i].kind = log[j].kind /\ log[i].call = log[j].call) => i = j
        /\ log[i].kind = "newline" =>
              \E j \in 1..(i - 1) : log[j].kind = "event" /\ log[j].call = log[i].call

(* Without write errors, nothing another call of the same process writes   *)
(* comes between an event and its newline, unless the process died between *)
(* the two: the mutex covers both writes, and neither a crash, a restart   *)
(* nor a Close undoes that for the others (agentrace.go:115-123).          *)
PairedWrites ==
    faults = 0 =>
        \A i, j \in DOMAIN log :
            (/\ i < j /\ log[i].kind = "event" /\ pc[log[i].call] # "killed"
             /\ proc[log[i].call] = proc[log[j].call]
             /\ \A m \in (i + 1)..(j - 1) : proc[log[m].call] # proc[log[i].call])
                => log[j].kind = "newline" /\ log[j].call = log[i].call

(* As long as the file is open and nothing fails, a call that returned has *)
(* its whole line in the log: it is recorded before the client hears of it *)
(* (agentrace.go:136-141).                                                 *)
NoSilentLoss ==
    (crashes = 0 /\ faults = 0) =>
        \A c \in Calls : (pc[c] = "done" /\ file[proc[c]]) =>
            \E i \in DOMAIN log : log[i].kind = "newline" /\ log[i].call = c

(* Close reports an error only when another Close of the process has       *)
(* closed the file: for a recorder that has none it does nothing           *)
(* (agentrace.go:84-94).                                                   *)
ClosedByOther ==
    \A k \in Closers : closeError[k] =>
        \E j \in Closers \ {k} :
            proc[j] = proc[k] /\ pc[j] = "done" /\ ~closeError[j]

(* Telemetry never holds a call up for good: every call returns unless its *)
(* process dies, whatever happens to the log file (agentrace.go:97-124).   *)
CallsReturn ==
    \A c \in Calls : pc[c] = "inner" ~> pc[c] \in {"done", "killed"}

-----------------------------------------------------------------------------
(* What a comment of the code says and the code does not do. *)

(* agentrace.go:22, "appends one NDJSON event per tool call": a line, once *)
(* ended, holds one event and nothing else.                                *)
OneEventPerLine ==
    \A i \in DOMAIN log : log[i].kind = "newline" =>
        /\ i > 1 /\ log[i - 1].kind = "event"
        /\ i > 2 => log[i - 2].kind = "newline"
=============================================================================

-------------------------- MODULE AgentTraceProofs --------------------------
(***************************************************************************)
(* Proofs about AgentTrace, for any processes, calls and closers and any   *)
(* number of crashes and failed writes.                                    *)
(***************************************************************************)
EXTENDS AgentTrace, TLAPS, SequenceTheorems

(* The types of everything but the log and the program counters' labels.   *)
StateTypes ==
    /\ proc \in [Goroutines -> Processes]
    /\ up \in [Processes -> BOOLEAN]
    /\ enabled \in [Processes -> BOOLEAN]
    /\ file \in [Processes -> BOOLEAN]
    /\ mu \in [Processes -> Goroutines \union {Free}]
    /\ result \in [Calls -> Results]
    /\ closeError \in [Closers -> BOOLEAN]
    /\ crashes \in Nat /\ faults \in Nat
    /\ DOMAIN pc = Goroutines

Typing == Types /\ DOMAIN pc = Goroutines

LEMMA StateTyping == Typing => StateTypes
BY BoundsAssumption DEF Typing, Types, StateTypes

-----------------------------------------------------------------------------
(* Types. *)

LEMMA TypingInit == Init => Typing
BY BoundsAssumption DEF Init, Typing, Types, Goroutines, CallPc, ClosePc, Results

LEMMA ProcessTyping ==
    ASSUME Typing, NEW p \in Processes, StartProcess(p) \/ Crash(p)
    PROVE  Typing'
<1>1. CASE StartProcess(p)
    BY <1>1 DEF StartProcess, Typing, Types
<1>2. CASE Crash(p)
    <2>1. crashes' \in 0..MaxCrashes
        BY <1>2, BoundsAssumption DEF Crash, Typing, Types
    <2>2. /\ \A c \in Calls : pc'[c] \in CallPc
          /\ \A k \in Closers : pc'[k] \in ClosePc
          /\ DOMAIN pc' = Goroutines
        BY <1>2 DEF Crash, Typing, Types, Goroutines, CallPc, ClosePc
    <2> QED
        BY <1>2, <2>1, <2>2 DEF Crash, Typing, Types
<1> QED
    BY <1>1, <1>2

LEMMA WriteTyping ==
    ASSUME Typing, NEW c \in Calls, NEW kind \in {"event", "torn", "newline"},
           Write(c, kind)
    PROVE  log' \in Seq(Token)
BY DEF Typing, Types, Write, Success, Token

LEMMA CallTyping ==
    ASSUME Typing, NEW c \in Calls, CallTool(c) \/ CallStep(c)
    PROVE  Typing'
<1> USE DEF Typing
<1>1. c \in Goroutines /\ proc[c] \in Processes
    BY DEF Goroutines, Types
<1>2. \E l \in CallPc : pc' = [pc EXCEPT ![c] = l]
    <2>1. CASE CallTool(c)
        BY <2>1 DEF CallTool, Goto, CallPc
    <2>2. CASE InnerReturns(c)
        BY <2>2 DEF InnerReturns, Goto, CallPc
    <2>3. CASE CheckFile(c)
        BY <2>3 DEF CheckFile, Goto, CallPc
    <2>4. CASE LockRecord(c)
        BY <2>4 DEF LockRecord, LockRecorder, Goto, CallPc
    <2>5. CASE WriteEvent(c)
        BY <2>5 DEF WriteEvent, Goto, CallPc
    <2>6. CASE WriteNewline(c)
        BY <2>6 DEF WriteNewline, Goto, CallPc
    <2> QED
        BY <2>1, <2>2, <2>3, <2>4, <2>5, <2>6 DEF CallStep
<1>3. /\ \A d \in Calls : pc'[d] \in CallPc
      /\ \A k \in Closers : pc'[k] \in ClosePc
      /\ DOMAIN pc' = Goroutines
    BY <1>1, <1>2, NamesAssumption DEF Types
<1>4. log' \in Seq(Token)
    <2>1. CASE UNCHANGED log
        BY <2>1 DEF Types
    <2>2. CASE \E kind \in {"event", "torn", "newline"} : Write(c, kind)
        BY <2>2, WriteTyping
    <2> QED
        BY <2>1, <2>2
        DEF CallTool, CallStep, InnerReturns, CheckFile, LockRecord, WriteEvent,
            WriteNewline
<1>5. faults' \in 0..MaxFaults
    BY BoundsAssumption
    DEF CallTool, CallStep, InnerReturns, CheckFile, LockRecord, WriteEvent,
        WriteNewline, Types
<1>6. result' \in [Calls -> Results]
    BY DEF CallTool, CallStep, InnerReturns, CheckFile, LockRecord, WriteEvent,
           WriteNewline, Types
<1>7. mu' \in [Processes -> Goroutines \union {Free}]
    BY <1>1
    DEF CallTool, CallStep, InnerReturns, CheckFile, LockRecord, LockRecorder,
        WriteEvent, WriteNewline, UnlockRecord, Lock, Unlock, Recorder, Types
<1>8. UNCHANGED <<proc, up, enabled, file, closeError, crashes>>
    BY DEF CallTool, CallStep, InnerReturns, CheckFile, LockRecord, WriteEvent,
           WriteNewline
<1> QED
    BY <1>3, <1>4, <1>5, <1>6, <1>7, <1>8 DEF Types

LEMMA CloseTyping ==
    ASSUME Typing, NEW k \in Closers, CheckClose(k) \/ CloseStep(k)
    PROVE  Typing'
<1> USE DEF Typing
<1>1. k \in Goroutines /\ proc[k] \in Processes
    BY DEF Goroutines, Types
<1>2. \E l \in ClosePc : pc' = [pc EXCEPT ![k] = l]
    BY DEF CheckClose, CloseStep, LockClose, CloseFile, Goto, ClosePc
<1>3. /\ \A d \in Calls : pc'[d] \in CallPc
      /\ \A j \in Closers : pc'[j] \in ClosePc
      /\ DOMAIN pc' = Goroutines
    BY <1>1, <1>2, NamesAssumption DEF Types
<1>4. mu' \in [Processes -> Goroutines \union {Free}]
    BY <1>1 DEF CheckClose, CloseStep, LockClose, CloseFile, Lock, Unlock, Recorder,
                Types
<1>5. file' \in [Processes -> BOOLEAN] /\ closeError' \in [Closers -> BOOLEAN]
    BY <1>1 DEF CheckClose, CloseStep, LockClose, CloseFile, Recorder, Types
<1>6. UNCHANGED <<proc, up, enabled, log, result, crashes, faults>>
    BY DEF CheckClose, CloseStep, LockClose, CloseFile
<1> QED
    BY <1>3, <1>4, <1>5, <1>6 DEF Types

LEMMA TypingNext == Typing /\ [Next]_vars => Typing'
<1>1. Typing /\ UNCHANGED vars => Typing'
    BY DEF Typing, Types, vars
<1> QED
    BY <1>1, ProcessTyping, CallTyping, CloseTyping DEF Next

-----------------------------------------------------------------------------
(* The mutex. *)

Critical == {"data", "newline", "close"}

Mutex == \A g \in Goroutines : (mu[proc[g]] = g) <=> (pc[g] \in Critical)

(* Nothing of a process that is down runs, and it has no open file; a file *)
(* is open only for a recorder.                                            *)
Alive ==
    /\ \A g \in Goroutines : pc[g] \notin {"idle", "done", "killed"} => up[proc[g]]
    /\ \A p \in Processes : file[p] => up[p] /\ enabled[p]

(* What a step of goroutine g does to its label and to its mutex.          *)
Moves(g) ==
    /\ UNCHANGED <<proc, up>>
    /\ \A h \in Goroutines \ {g} : pc'[h] = pc[h]
    /\ \A p \in Processes \ {proc[g]} : mu'[p] = mu[p]
    /\ \/ mu' = mu /\ (pc[g] \in Critical <=> pc'[g] \in Critical)
       \/ /\ mu[proc[g]] = Free /\ mu'[proc[g]] = g /\ pc'[g] \in Critical
       \/ /\ pc[g] \in Critical /\ mu'[proc[g]] = Free /\ pc'[g] \notin Critical

LEMMA CallMoves ==
    ASSUME StateTypes, NEW c \in Calls, CallTool(c) \/ CallStep(c)
    PROVE  Moves(c)
<1> USE DEF StateTypes, Moves, Critical, Goto
<1>1. c \in Goroutines /\ proc[c] \in Processes
    BY DEF Goroutines
<1>2. CASE CallTool(c)
    BY <1>1, <1>2 DEF CallTool
<1>3. CASE InnerReturns(c)
    BY <1>1, <1>3 DEF InnerReturns
<1>4. CASE CheckFile(c)
    BY <1>1, <1>4 DEF CheckFile
<1>5. CASE LockRecord(c)
    BY <1>1, <1>5 DEF LockRecord, LockRecorder, Lock, Recorder
<1>6. CASE WriteEvent(c)
    BY <1>1, <1>6 DEF WriteEvent, Unlock, Recorder
<1>7. CASE WriteNewline(c)
    BY <1>1, <1>7 DEF WriteNewline, UnlockRecord, Unlock, Recorder
<1> QED
    BY <1>2, <1>3, <1>4, <1>5, <1>6, <1>7 DEF CallStep

LEMMA CloseMoves ==
    ASSUME StateTypes, NEW k \in Closers, CheckClose(k) \/ CloseStep(k)
    PROVE  Moves(k)
<1>1. k \in Goroutines /\ proc[k] \in Processes
    BY DEF StateTypes, Goroutines
<1> QED
    BY <1>1
    DEF StateTypes, Moves, Critical, Goto, CheckClose, CloseStep, LockClose,
        CloseFile, Lock, Unlock, Recorder

(* Whoever moves, the mutex stays with the goroutine between its lock and  *)
(* its unlock.                                                             *)
LEMMA MutexKept ==
    ASSUME StateTypes, Mutex, NEW g \in Goroutines, Moves(g)
    PROVE  Mutex'
<1> SUFFICES ASSUME NEW h \in Goroutines
             PROVE  (mu'[proc[h]] = h) <=> (pc'[h] \in Critical)
    BY DEF Mutex, Moves
<1>1. proc[g] \in Processes /\ proc[h] \in Processes
    BY DEF StateTypes
<1>2. /\ (mu[proc[g]] = g) <=> (pc[g] \in Critical)
      /\ (mu[proc[h]] = h) <=> (pc[h] \in Critical)
    BY DEF Mutex
<1>3. Free \notin Goroutines
    BY NamesAssumption DEF Goroutines
<1>4. CASE h = g
    BY <1>1, <1>2, <1>3, <1>4 DEF Moves
<1>5. CASE h # g
    BY <1>1, <1>2, <1>3, <1>5 DEF Moves
<1> QED
    BY <1>4, <1>5

LEMMA MutexNext ==
    ASSUME StateTypes, Mutex, [Next]_vars
    PROVE  Mutex'
<1>1. ASSUME NEW p \in Processes, StartProcess(p) PROVE Mutex'
    BY <1>1 DEF StartProcess, Mutex
<1>2. ASSUME NEW p \in Processes, Crash(p) PROVE Mutex'
    <2> SUFFICES ASSUME NEW h \in Goroutines
                 PROVE  (mu'[proc[h]] = h) <=> (pc'[h] \in Critical)
        BY <1>2 DEF Mutex, Crash
    <2>1. mu'[p] = Free /\ \A q \in Processes \ {p} : mu'[q] = mu[q]
        BY <1>2 DEF Crash, StateTypes
    <2>2. pc'[h] = IF proc[h] = p /\ pc[h] \notin {"idle", "done"} THEN "killed"
                   ELSE pc[h]
        BY <1>2 DEF Crash
    <2>3. Free # h /\ proc[h] \in Processes
        BY NamesAssumption DEF Goroutines, StateTypes
    <2> QED
        BY <2>1, <2>2, <2>3 DEF Mutex, Critical
<1>3. ASSUME NEW c \in Calls, CallTool(c) \/ CallStep(c) PROVE Mutex'
    BY <1>3, CallMoves, MutexKept DEF Goroutines
<1>4. ASSUME NEW k \in Closers, CheckClose(k) \/ CloseStep(k) PROVE Mutex'
    BY <1>4, CloseMoves, MutexKept DEF Goroutines
<1>5. CASE UNCHANGED vars
    BY <1>5 DEF vars, Mutex
<1> QED
    BY <1>1, <1>2, <1>3, <1>4, <1>5 DEF Next

LEMMA AliveNext ==
    ASSUME StateTypes, Alive, [Next]_vars
    PROVE  Alive'
<1>1. ASSUME NEW p \in Processes, StartProcess(p) PROVE Alive'
    BY <1>1 DEF StartProcess, Alive, StateTypes
<1>2. ASSUME NEW p \in Processes, Crash(p) PROVE Alive'
    BY <1>2 DEF Crash, Alive, StateTypes
<1>3. ASSUME NEW c \in Calls, CallTool(c) \/ CallStep(c) PROVE Alive'
    <2>1. c \in Goroutines /\ Moves(c) /\ UNCHANGED <<file, enabled>>
        BY <1>3, CallMoves
        DEF Goroutines, CallTool, CallStep, InnerReturns, CheckFile, LockRecord,
            WriteEvent, WriteNewline
    <2>2. up[proc[c]]
        BY <1>3, <2>1
        DEF Alive, CallTool, CallStep, InnerReturns, CheckFile, LockRecord,
            WriteEvent, WriteNewline, Recorder
    <2> QED
        BY <2>1, <2>2 DEF Alive, Moves
<1>4. ASSUME NEW k \in Closers, CheckClose(k) \/ CloseStep(k) PROVE Alive'
    <2>1. k \in Goroutines /\ Moves(k) /\ UNCHANGED enabled
        BY <1>4, CloseMoves DEF Goroutines, CheckClose, CloseStep, LockClose, CloseFile
    <2>2. up[proc[k]]
        BY <1>4, <2>1 DEF Alive, CheckClose, CloseStep, LockClose, CloseFile, Recorder
    <2>3. \A p \in Processes : file'[p] => file[p]
        BY <1>4 DEF CheckClose, CloseStep, LockClose, CloseFile, Recorder, StateTypes
    <2> QED
        BY <2>1, <2>2, <2>3 DEF Alive, Moves
<1>5. CASE UNCHANGED vars
    BY <1>5 DEF vars, Alive
<1> QED
    BY <1>1, <1>2, <1>3, <1>4, <1>5 DEF Next

-----------------------------------------------------------------------------
(* The log. *)

(* A call has written only if it is about to write its newline, and then   *)
(* an event and nothing else, or is over.                                  *)
Logged ==
    /\ \A i \in DOMAIN log :
          /\ pc[log[i].call] \in {"newline", "done", "killed"}
          /\ pc[log[i].call] = "newline" => log[i].kind = "event"
    /\ \A c \in Calls : pc[c] = "newline" =>
          \E i \in DOMAIN log : log[i].kind = "event" /\ log[i].call = c
    /\ TruthfulEvents

(* c writes a token: nothing but the end of the log changes, and nobody    *)
(* else moves.                                                             *)
Writes(c, kind) ==
    /\ Write(c, kind)
    /\ UNCHANGED <<proc, file, result, crashes>>
    /\ \A d \in Calls \ {c} : pc'[d] = pc[d]

LEMMA LogTokens ==
    ASSUME Typing
    PROVE  \A i \in DOMAIN log : log[i] \in Token /\ log[i].call \in Calls
<1>1. log \in Seq(Token)
    BY DEF Typing, Types
<1>2. \A i \in DOMAIN log : log[i] \in Token
    BY <1>1
<1> QED
    BY <1>2 DEF Token

LEMMA WriteEffect ==
    ASSUME Typing, NEW c \in Calls, NEW kind \in {"event", "torn", "newline"},
           Write(c, kind)
    PROVE  /\ Len(log) \in Nat /\ Len(log') = Len(log) + 1
           /\ DOMAIN log = 1..Len(log) /\ DOMAIN log' = 1..(Len(log) + 1)
           /\ \A i \in DOMAIN log :
                 /\ log'[i] = log[i] /\ log[i] \in Token
                 /\ i \in Nat /\ i < Len(log) + 1
           /\ log'[Len(log) + 1] =
                 [kind |-> kind, call |-> c, success |-> Success(c)]
<1>1. log \in Seq(Token) /\ [kind |-> kind, call |-> c, success |-> Success(c)] \in Token
    BY DEF Typing, Types, Token, Success
<1>2. \A i \in DOMAIN log : log[i] \in Token
    BY <1>1
<1> QED
    BY <1>1, <1>2 DEF Write

(* Each step of the system is one of these: it writes nothing ...          *)
Quiet ==
    /\ log' = log
    /\ \A d \in Calls : pc[d] \in {"newline", "done", "killed"} =>
          /\ pc'[d] \in {"newline", "done", "killed"}
          /\ result'[d] = result[d]
    /\ \A d \in Calls : pc'[d] = "newline" => pc[d] = "newline"

(* ... or the first or the second write of a call.                         *)
First(c) ==
    /\ pc[c] = "data"
    /\ \/ Writes(c, "event") /\ pc'[c] = "newline"
       \/ Writes(c, "torn") /\ pc'[c] = "done" /\ faults' = faults + 1

Second(c) == pc[c] = "newline" /\ pc'[c] = "done" /\ Writes(c, "newline")

LEMMA LogSteps ==
    ASSUME Typing, [Next]_vars
    PROVE  Quiet \/ \E c \in Calls : First(c) \/ Second(c)
<1> StateTypes
    BY StateTyping
<1> USE DEF StateTypes, Goroutines, Quiet, Goto
<1>1. ASSUME NEW p \in Processes, StartProcess(p) PROVE Quiet
    BY <1>1 DEF StartProcess
<1>2. ASSUME NEW p \in Processes, Crash(p) PROVE Quiet
    BY <1>2 DEF Crash
<1>3. ASSUME NEW k \in Closers, CheckClose(k) \/ CloseStep(k) PROVE Quiet
    <2>1. UNCHANGED <<log, result>> /\ \A d \in Calls : pc'[d] = pc[d]
        BY <1>3, NamesAssumption DEF CheckClose, CloseStep, LockClose, CloseFile
    <2> QED
        BY <2>1
<1>4. ASSUME NEW c \in Calls, CallTool(c) \/ CheckFile(c) \/ LockRecord(c)
      PROVE  Quiet
    BY <1>4 DEF CallTool, CheckFile, LockRecord, LockRecorder
<1>5. ASSUME NEW c \in Calls, InnerReturns(c) PROVE Quiet
    BY <1>5 DEF InnerReturns
<1>6. ASSUME NEW c \in Calls, WriteEvent(c) PROVE Quiet \/ First(c)
    <2>1. /\ pc[c] = "data" /\ UNCHANGED <<proc, file, result, crashes>>
          /\ \A d \in Calls \ {c} : pc'[d] = pc[d]
        BY <1>6 DEF WriteEvent
    <2>2. \/ Write(c, "event") /\ pc'[c] = "newline"
          \/ Write(c, "torn") /\ pc'[c] = "done" /\ faults' = faults + 1
          \/ log' = log /\ pc'[c] = "done"
        BY <1>6 DEF WriteEvent
    <2> QED
        BY <2>1, <2>2 DEF First, Writes
<1>7. ASSUME NEW c \in Calls, WriteNewline(c) PROVE Quiet \/ Second(c)
    <2>1. /\ pc[c] = "newline" /\ UNCHANGED <<proc, file, result, crashes>>
          /\ \A d \in Calls \ {c} : pc'[d] = pc[d]
          /\ pc'[c] = "done"
        BY <1>7 DEF WriteNewline
    <2>2. Write(c, "newline") \/ log' = log
        BY <1>7 DEF WriteNewline
    <2> QED
        BY <2>1, <2>2 DEF Second, Writes
<1>8. CASE UNCHANGED vars
    BY <1>8 DEF vars
<1> QED
    BY <1>1, <1>2, <1>3, <1>4, <1>5, <1>6, <1>7, <1>8 DEF Next, CallStep

LEMMA QuietLogged ==
    ASSUME Typing, Logged, Quiet
    PROVE  Logged'
<1>1. \A i \in DOMAIN log : log[i].call \in Calls
    BY LogTokens
<1>2. TruthfulEvents'
    BY <1>1 DEF Logged, TruthfulEvents, Quiet
<1>3. \A i \in DOMAIN log' :
          /\ pc'[log'[i].call] \in {"newline", "done", "killed"}
          /\ pc'[log'[i].call] = "newline" => log'[i].kind = "event"
    BY <1>1 DEF Logged, Quiet
<1>4. \A c \in Calls : pc'[c] = "newline" =>
          \E i \in DOMAIN log' : log'[i].kind = "event" /\ log'[i].call = c
    BY DEF Logged, Quiet
<1> QED
    BY <1>2, <1>3, <1>4 DEF Logged

LEMMA WriteLogged ==
    ASSUME Typing, Logged, NEW c \in Calls, First(c) \/ Second(c)
    PROVE  Logged'
<1>1. PICK kind \in {"event", "torn", "newline"} :
          /\ Writes(c, kind)
          /\ \/ /\ pc[c] = "data" /\ kind # "newline"
                /\ pc'[c] \in {"newline", "done"}
                /\ pc'[c] = "newline" <=> kind = "event"
             \/ pc[c] = "newline" /\ kind = "newline" /\ pc'[c] = "done"
    BY DEF First, Second
<1> DEFINE n == Len(log) + 1
<1>2. /\ n \in Nat \ {0} /\ DOMAIN log = 1..Len(log) /\ Len(log) \in Nat
      /\ DOMAIN log' = (DOMAIN log) \union {n}
      /\ \A i \in DOMAIN log :
            /\ log'[i] = log[i] /\ log[i].call \in Calls /\ i < n /\ i # n
      /\ log'[n].kind = kind /\ log'[n].call = c
      /\ log'[n].success = Success(c)
    <2>1. Write(c, kind)
        BY <1>1 DEF Writes
    <2>2. /\ Len(log) \in Nat /\ DOMAIN log = 1..Len(log) /\ DOMAIN log' = 1..n
          /\ \A i \in DOMAIN log : log'[i] = log[i]
          /\ log'[n] = [kind |-> kind, call |-> c, success |-> Success(c)]
        BY <2>1, WriteEffect
    <2> HIDE DEF n
    <2>3. n = Len(log) + 1
        BY DEF n
    <2> QED
        BY <2>2, <2>3, LogTokens
<1>3. \A d \in Calls : result'[d] = result[d] /\ (d # c => pc'[d] = pc[d])
    BY <1>1 DEF Writes
<1> HIDE DEF n
<1>4. \A i \in DOMAIN log : log[i].call = c =>
          pc[c] = "newline" /\ log[i].kind = "event"
    BY <1>1 DEF Logged
<1>5. pc[c] = "newline" =>
          \E i \in DOMAIN log : log[i].kind = "event" /\ log[i].call = c
    BY DEF Logged
<1>6. \A i \in DOMAIN log' :
          /\ pc'[log'[i].call] \in {"newline", "done", "killed"}
          /\ pc'[log'[i].call] = "newline" => log'[i].kind = "event"
    BY <1>1, <1>2, <1>3, <1>4 DEF Logged
<1>7. \A d \in Calls : pc'[d] = "newline" =>
          \E i \in DOMAIN log' : log'[i].kind = "event" /\ log'[i].call = d
    BY <1>1, <1>2, <1>3 DEF Logged
<1>8. ASSUME NEW i \in DOMAIN log'
      PROVE  log'[i].kind = "event" =>
                log'[i].success = (result'[log'[i].call] = "success")
    BY <1>2, <1>3 DEF Logged, TruthfulEvents, Success
<1>9. ASSUME NEW i \in DOMAIN log', NEW j \in DOMAIN log',
             log'[i].kind = log'[j].kind, log'[i].call = log'[j].call
      PROVE  i = j
    <2>1. CASE i \in DOMAIN log /\ j \in DOMAIN log
        BY <1>2, <1>9, <2>1 DEF Logged, TruthfulEvents
    <2>2. CASE i = n /\ j \in DOMAIN log
        BY <1>1, <1>2, <1>4, <1>9, <2>2
    <2>3. CASE i \in DOMAIN log /\ j = n
        BY <1>1, <1>2, <1>4, <1>9, <2>3
    <2> QED
        BY <1>2, <2>1, <2>2, <2>3
<1>10. ASSUME NEW i \in DOMAIN log', log'[i].kind = "newline"
       PROVE  \E j \in 1..(i - 1) :
                 log'[j].kind = "event" /\ log'[j].call = log'[i].call
    <2>1. CASE i \in DOMAIN log
        <3>1. PICK j \in 1..(i - 1) : log[j].kind = "event" /\ log[j].call = log[i].call
            BY <1>2, <1>10, <2>1 DEF Logged, TruthfulEvents
        <3>2. j \in DOMAIN log
            BY <1>2, <2>1, <3>1
        <3> QED
            BY <1>2, <2>1, <3>1, <3>2
    <2>2. CASE i = n
        <3>1. pc[c] = "newline"
            BY <1>1, <1>2, <1>10, <2>2
        <3>2. PICK j \in DOMAIN log : log[j].kind = "event" /\ log[j].call = c
            BY <1>5, <3>1
        <3>3. j \in 1..(n - 1)
            BY <1>2, <3>2 DEF n
        <3> QED
            BY <1>2, <2>2, <3>2, <3>3
    <2> QED
        BY <1>2, <2>1, <2>2
<1>11. TruthfulEvents'
    BY <1>8, <1>9, <1>10 DEF TruthfulEvents
<1> QED
    BY <1>6, <1>7, <1>11 DEF Logged

LEMMA LoggedNext ==
    ASSUME Typing, Logged, [Next]_vars
    PROVE  Logged'
BY LogSteps, QuietLogged, WriteLogged

-----------------------------------------------------------------------------
(* Nothing is lost. *)

(* While nothing fails, a process runs once, so a call that is over ended  *)
(* in the process that runs, with the file that is open.                   *)
Lossless ==
    /\ crashes = 0 => \A g \in Goroutines : pc[g] # "idle" => up[proc[g]]
    /\ NoSilentLoss

LEMMA LosslessKept ==
    ASSUME Lossless, UNCHANGED <<proc, up>>, crashes' >= crashes, faults' >= faults,
           crashes \in Nat, faults \in Nat,
           \A g \in Goroutines : pc'[g] # "idle" => pc[g] # "idle" \/ up[proc[g]],
           \A c \in Calls : pc'[c] = "done" =>
              \/ pc[c] = "done" \/ ~file'[proc[c]]
              \/ \E i \in DOMAIN log' : log'[i].kind = "newline" /\ log'[i].call = c,
           \A c \in Calls : file'[proc[c]] => file[proc[c]],
           \A i \in DOMAIN log : i \in DOMAIN log' /\ log'[i] = log[i]
    PROVE  Lossless'
<1>1. crashes' = 0 => \A g \in Goroutines : pc'[g] # "idle" => up'[proc'[g]]
    BY DEF Lossless
<1>2. ASSUME crashes' = 0, faults' = 0, NEW c \in Calls, pc'[c] = "done",
             file'[proc'[c]]
      PROVE  \E i \in DOMAIN log' : log'[i].kind = "newline" /\ log'[i].call = c
    <2>1. CASE pc[c] = "done"
        <3>1. \E i \in DOMAIN log : log[i].kind = "newline" /\ log[i].call = c
            BY <1>2, <2>1 DEF Lossless, NoSilentLoss
        <3> QED
            BY <3>1
    <2> QED
        BY <1>2, <2>1
<1> QED
    BY <1>1, <1>2 DEF Lossless, NoSilentLoss

LEMMA LosslessNext ==
    ASSUME Typing, Alive, Lossless, [Next]_vars
    PROVE  Lossless'
<1> StateTypes
    BY StateTyping
<1>1. ASSUME NEW p \in Processes, StartProcess(p) PROVE Lossless'
    <2>1. crashes = 0 => \A g \in Goroutines : proc[g] = p => pc[g] = "idle"
        BY <1>1 DEF StartProcess, Lossless
    <2> QED
        BY <1>1, <2>1 DEF StartProcess, Lossless, NoSilentLoss, StateTypes, Goroutines
<1>2. ASSUME NEW p \in Processes, Crash(p) PROVE Lossless'
    BY <1>2 DEF Crash, Lossless, NoSilentLoss, StateTypes
<1>3. ASSUME NEW k \in Closers, CheckClose(k) \/ CloseStep(k) PROVE Lossless'
    <2>1. k \in Goroutines
        BY DEF Goroutines
    <2>2. UNCHANGED <<proc, up, log, crashes, faults>>
        BY <1>3 DEF CheckClose, CloseStep, LockClose, CloseFile
    <2>3. \A d \in Goroutines \ {k} : pc'[d] = pc[d]
        BY <1>3 DEF CheckClose, CloseStep, LockClose, CloseFile, Goto, StateTypes
    <2>4. \A d \in Calls : file'[proc[d]] => file[proc[d]]
        BY <1>3 DEF CheckClose, CloseStep, LockClose, CloseFile, Recorder, StateTypes,
                    Goroutines
    <2>5. \A d \in Calls : pc'[d] = pc[d]
        BY <2>3, NamesAssumption DEF Goroutines
    <2>6. pc[k] # "idle" \/ up[proc[k]]
        BY <1>3 DEF CheckClose, CloseStep, LockClose, CloseFile, Recorder
    <2> QED
        BY <2>2, <2>3, <2>4, <2>5, <2>6, LosslessKept DEF StateTypes
<1>4. ASSUME NEW c \in Calls, CallTool(c) \/ CallStep(c) PROVE Lossless'
    <2> c \in Goroutines
        BY DEF Goroutines
    <2>1. UNCHANGED <<proc, up, file, crashes>>
        BY <1>4 DEF CallTool, CallStep, InnerReturns, CheckFile, LockRecord,
                    WriteEvent, WriteNewline
    <2>2. \A d \in Goroutines \ {c} : pc'[d] = pc[d]
        BY <1>4, CallMoves DEF Moves
    <2>3. pc[c] # "idle" \/ up[proc[c]]
        BY <1>4 DEF CallTool, CallStep, InnerReturns, CheckFile, LockRecord,
                    WriteEvent, WriteNewline, Recorder
    <2>4. faults' >= faults
        BY <1>4 DEF CallTool, CallStep, InnerReturns, CheckFile, LockRecord,
                    WriteEvent, WriteNewline, StateTypes
    <2>5. /\ \A i \in DOMAIN log : i \in DOMAIN log' /\ log'[i] = log[i]
          /\ Write(c, "newline") =>
                \E i \in DOMAIN log' : log'[i].kind = "newline" /\ log'[i].call = c
        <3>1. ASSUME NEW kind \in {"event", "torn", "newline"}, Write(c, kind)
              PROVE  /\ \A i \in DOMAIN log : i \in DOMAIN log' /\ log'[i] = log[i]
                     /\ \E i \in DOMAIN log' : log'[i].kind = kind /\ log'[i].call = c
            <4> DEFINE n == Len(log) + 1
            <4>1. /\ Len(log) \in Nat /\ DOMAIN log = 1..Len(log) /\ DOMAIN log' = 1..n
                  /\ \A i \in DOMAIN log : log'[i] = log[i]
                  /\ log'[n] = [kind |-> kind, call |-> c, success |-> Success(c)]
                BY <3>1, WriteEffect
            <4>2. n \in DOMAIN log' /\ \A i \in DOMAIN log : i \in DOMAIN log'
                BY <4>1
            <4> HIDE DEF n
            <4> QED
                BY <4>1, <4>2
        <3>2. CASE log' = log /\ ~Write(c, "newline")
            BY <3>2
        <3>3. Write(c, "newline") => log' # log
            <4>1. Write(c, "newline") => Len(log') = Len(log) + 1 /\ Len(log) \in Nat
                BY WriteEffect
            <4> QED
                BY <4>1
        <3>4. log' = log \/ Write(c, "event") \/ Write(c, "torn") \/ Write(c, "newline")
            BY <1>4 DEF CallTool, CallStep, InnerReturns, CheckFile, LockRecord,
                        WriteEvent, WriteNewline
        <3> QED
            BY <3>1, <3>2, <3>3, <3>4
    <2>6. CASE pc'[c] # "done" \/ ~file'[proc[c]]
        BY <2>1, <2>2, <2>3, <2>4, <2>5, <2>6, LosslessKept DEF Goroutines, StateTypes
    <2>7. CASE pc'[c] = "done" /\ file[proc[c]]
        <3>1. enabled[proc[c]] /\ proc[c] \in Processes
            BY <2>7 DEF Alive, StateTypes
        <3>2. \/ WriteEvent(c) /\ faults' = faults + 1
              \/ WriteNewline(c)
            BY <1>4, <2>7, <3>1
            DEF CallTool, CallStep, InnerReturns, CheckFile, LockRecord, LockRecorder,
                WriteEvent, Recorder, Goto, StateTypes
        <3>3. CASE Write(c, "newline")
            BY <2>1, <2>2, <2>3, <2>4, <2>5, <3>3, LosslessKept
            DEF Goroutines, StateTypes
        <3>4. CASE faults' = faults + 1
            BY <2>1, <2>2, <2>3, <3>4 DEF Lossless, NoSilentLoss, StateTypes
        <3> QED
            BY <3>2, <3>3, <3>4 DEF WriteNewline
    <2> QED
        BY <2>1, <2>6, <2>7
<1>5. CASE UNCHANGED vars
    BY <1>5 DEF vars, Lossless, NoSilentLoss
<1> QED
    BY <1>1, <1>2, <1>3, <1>4, <1>5 DEF Next

-----------------------------------------------------------------------------
(* Close. *)

ClosedBefore(k) ==
    \E j \in Closers \ {k} : proc[j] = proc[k] /\ pc[j] = "done" /\ ~closeError[j]

(* A closer on its way finds the file open, or another one closed it.      *)
Closing ==
    /\ \A k \in Closers : pc[k] \in {"lock", "close"} =>
          file[proc[k]] \/ ClosedBefore(k)
    /\ ClosedByOther

LEMMA ClosingNext ==
    ASSUME Typing, Alive, Closing, [Next]_vars
    PROVE  Closing'
<1> StateTypes
    BY StateTyping
<1> USE DEF Closing, ClosedByOther, ClosedBefore
<1>1. ASSUME NEW p \in Processes, StartProcess(p) PROVE Closing'
    <2>1. \A k \in Closers : pc[k] \in {"lock", "close"} => proc[k] # p
        BY <1>1 DEF StartProcess, Alive, Goroutines
    <2> QED
        BY <1>1, <2>1 DEF StartProcess, StateTypes, Goroutines
<1>2. ASSUME NEW p \in Processes, Crash(p) PROVE Closing'
    <2>1. /\ UNCHANGED <<proc, closeError>>
          /\ \A k \in Closers : pc[k] = "done" => pc'[k] = "done"
          /\ \A k \in Closers : pc'[k] \in {"lock", "close"} =>
                pc[k] = pc'[k] /\ file'[proc[k]] = file[proc[k]]
        BY <1>2 DEF Crash, StateTypes, Goroutines
    <2> QED
        BY <2>1
<1>3. ASSUME UNCHANGED <<proc, file, closeError>>, \A k \in Closers : pc'[k] = pc[k]
      PROVE  Closing'
    BY <1>3
<1>4. ASSUME NEW c \in Calls, CallTool(c) \/ CallStep(c) PROVE Closing'
    <2>1. UNCHANGED <<proc, file, closeError>>
        BY <1>4 DEF CallTool, CallStep, InnerReturns, CheckFile, LockRecord,
                    WriteEvent, WriteNewline
    <2>2. \A k \in Closers : pc'[k] = pc[k]
        BY <1>4, CallMoves, NamesAssumption DEF Moves, Goroutines
    <2> QED
        BY <1>3, <2>1, <2>2
<1>5. ASSUME NEW k \in Closers, CheckClose(k) \/ LockClose(k) PROVE Closing'
    <2>1. /\ UNCHANGED <<proc, file, closeError>>
          /\ pc[k] # "done"
          /\ pc'[k] \in {"lock", "close"} => file[proc[k]] \/ pc[k] = "lock"
          /\ \A j \in Closers \ {k} : pc'[j] = pc[j]
        BY <1>5 DEF CheckClose, LockClose, Goto, Recorder, StateTypes, Goroutines
    <2> QED
        BY <2>1
<1>6. ASSUME NEW k \in Closers, CloseFile(k) PROVE Closing'
    <2>1. /\ UNCHANGED proc
          /\ pc[k] = "close" /\ pc'[k] = "done"
          /\ \A j \in Closers \ {k} : pc'[j] = pc[j] /\ closeError'[j] = closeError[j]
          /\ closeError'[k] = ~file[proc[k]]
          /\ \A p \in Processes \ {proc[k]} : file'[p] = file[p]
          /\ \A j \in Closers : proc[j] \in Processes
        BY <1>6 DEF CloseFile, Goto, Recorder, StateTypes, Goroutines
    <2>2. \A j \in Closers : ClosedBefore(j) => ClosedBefore(j)'
        BY <2>1
    <2>3. CASE file[proc[k]]
        <3>1. \A j \in Closers \ {k} : proc[j] = proc[k] => ClosedBefore(j)'
            BY <2>1, <2>3
        <3>2. \A j \in Closers : closeError'[j] => ClosedBefore(j)'
            BY <2>1, <2>2, <2>3
        <3>3. \A j \in Closers : pc'[j] \in {"lock", "close"} =>
                  file'[proc'[j]] \/ ClosedBefore(j)'
            BY <2>1, <2>2, <3>1
        <3> QED
            BY <2>1, <3>2, <3>3
    <2>4. CASE ~file[proc[k]]
        <3>1. PICK w \in Closers \ {k} :
                  proc[w] = proc[k] /\ pc[w] = "done" /\ ~closeError[w]
            BY <2>1, <2>4
        <3>2. \A j \in Closers : proc[j] = proc[k] /\ j # w => ClosedBefore(j)'
            BY <2>1, <3>1
        <3>3. \A j \in Closers : closeError'[j] => ClosedBefore(j)'
            BY <2>1, <2>2, <3>1, <3>2
        <3>4. \A j \in Closers : pc'[j] \in {"lock", "close"} =>
                  file'[proc'[j]] \/ ClosedBefore(j)'
            BY <2>1, <2>2, <3>1, <3>2
        <3> QED
            BY <2>1, <3>3, <3>4
    <2> QED
        BY <2>3, <2>4
<1>7. CASE UNCHANGED vars
    BY <1>3, <1>7 DEF vars
<1> QED
    BY <1>1, <1>2, <1>4, <1>5, <1>6, <1>7 DEF Next, CloseStep

-----------------------------------------------------------------------------
(* Pairs of writes. *)

(* The event at i is the last thing its process wrote.                     *)
LastWrite(i) ==
    /\ log[i].kind = "event"
    /\ \A m \in (i + 1)..Len(log) : proc[log[m].call] # proc[log[i].call]

(* While no write fails, such an event still waits for its newline, or its *)
(* process died before it.                                                 *)
Pairing ==
    /\ faults = 0 =>
          \A i \in DOMAIN log : LastWrite(i) => pc[log[i].call] \in {"newline", "killed"}
    /\ PairedWrites

(* A call that waits to write its newline does so unless its process dies  *)
(* or the write fails, and a call that was killed does nothing.            *)
LEMMA NewlineComes ==
    ASSUME Typing, [Next]_vars, faults' = 0
    PROVE  /\ UNCHANGED proc /\ faults = 0
           /\ \A d \in Calls :
                 /\ pc[d] = "newline" => pc'[d] \in {"newline", "killed"} \/ Second(d)
                 /\ pc[d] = "killed" => pc'[d] = "killed"
<1> StateTypes
    BY StateTyping
<1> USE DEF StateTypes, Goroutines, Goto
<1>1. ASSUME NEW p \in Processes, StartProcess(p) \/ Crash(p)
      PROVE  /\ UNCHANGED <<proc, faults>>
             /\ \A d \in Calls : pc'[d] \in {pc[d], "killed"}
    BY <1>1 DEF StartProcess, Crash
<1>2. ASSUME NEW g \in Goroutines,
             \/ g \in Calls /\ (CallTool(g) \/ CallStep(g))
             \/ g \in Closers /\ (CheckClose(g) \/ CloseStep(g))
      PROVE  /\ UNCHANGED proc
             /\ faults' \in {faults, faults + 1}
             /\ \A d \in Calls \ {g} : pc'[d] = pc[d]
             /\ g \in Calls => pc[g] # "killed"
             /\ g \in Calls /\ pc[g] = "newline" => WriteNewline(g)
    <2>1. CASE g \in Calls /\ (CallTool(g) \/ CallStep(g))
        <3>1. UNCHANGED proc /\ faults' \in {faults, faults + 1} /\ pc[g] # "killed"
            BY <2>1 DEF CallTool, CallStep, InnerReturns, CheckFile, LockRecord,
                        WriteEvent, WriteNewline
        <3>2. \A d \in Calls \ {g} : pc'[d] = pc[d]
            BY <2>1, CallMoves DEF Moves
        <3>3. pc[g] = "newline" => WriteNewline(g)
            BY <2>1 DEF CallTool, CallStep, InnerReturns, CheckFile, LockRecord,
                        WriteEvent
        <3> QED
            BY <3>1, <3>2, <3>3
    <2>2. CASE g \in Closers /\ (CheckClose(g) \/ CloseStep(g))
        <3>1. UNCHANGED <<proc, faults>>
            BY <2>2 DEF CheckClose, CloseStep, LockClose, CloseFile
        <3>2. \A d \in Calls \ {g} : pc'[d] = pc[d]
            BY <2>2, CloseMoves DEF Moves
        <3> QED
            BY <2>2, <3>1, <3>2, NamesAssumption
    <2> QED
        BY <1>2, <2>1, <2>2
<1>3. ASSUME NEW d \in Calls, WriteNewline(d), faults = 0 PROVE Second(d)
    <2>1. Write(d, "newline")
        BY <1>3 DEF WriteNewline
    <2> QED
        BY <1>3, <2>1 DEF WriteNewline, Second, Writes
<1>4. CASE UNCHANGED vars
    BY <1>4 DEF vars
<1>5. CASE \E p \in Processes : StartProcess(p) \/ Crash(p)
    BY <1>1, <1>5
<1>6. CASE \E g \in Goroutines :
              \/ g \in Calls /\ (CallTool(g) \/ CallStep(g))
              \/ g \in Closers /\ (CheckClose(g) \/ CloseStep(g))
    <2>1. PICK g \in Goroutines :
              \/ g \in Calls /\ (CallTool(g) \/ CallStep(g))
              \/ g \in Closers /\ (CheckClose(g) \/ CloseStep(g))
        BY <1>6
    <2>2. UNCHANGED proc /\ faults = 0
        BY <1>2, <2>1
    <2>3. /\ \A d \in Calls \ {g} : pc'[d] = pc[d]
          /\ g \in Calls => pc[g] # "killed"
          /\ g \in Calls /\ pc[g] = "newline" => WriteNewline(g)
        BY <1>2, <2>1
    <2> QED
        BY <1>3, <2>2, <2>3
<1> QED
    BY <1>4, <1>5, <1>6 DEF Next

LEMMA QuietPairing ==
    ASSUME Typing, Pairing, [Next]_vars, Quiet
    PROVE  Pairing'
<1> SUFFICES ASSUME faults' = 0 PROVE Pairing'
    BY DEF Pairing, PairedWrites
<1>1. /\ UNCHANGED <<proc, log>> /\ faults = 0
      /\ \A d \in Calls :
            /\ pc[d] = "newline" => pc'[d] \in {"newline", "killed"} \/ Second(d)
            /\ pc[d] = "killed" => pc'[d] = "killed"
    BY NewlineComes DEF Quiet
<1>2. \A d \in Calls : ~Second(d)
    <2> SUFFICES ASSUME NEW d \in Calls, Second(d) PROVE FALSE
        OBVIOUS
    <2>1. Len(log') = Len(log) + 1 /\ Len(log) \in Nat
        BY WriteEffect DEF Second, Writes
    <2> QED
        BY <1>1, <2>1
<1>3. \A i \in DOMAIN log' : LastWrite(i)' => pc'[log'[i].call] \in {"newline", "killed"}
    BY <1>1, <1>2, LogTokens DEF Pairing, LastWrite
<1>4. PairedWrites'
    BY <1>1, LogTokens DEF Pairing, PairedWrites
<1> QED
    BY <1>3, <1>4 DEF Pairing

LEMMA WritePairing ==
    ASSUME Typing, Mutex, Pairing, [Next]_vars, NEW c \in Calls, First(c) \/ Second(c)
    PROVE  Pairing'
<1> SUFFICES ASSUME faults' = 0 PROVE Pairing'
    BY DEF Pairing, PairedWrites
<1>1. UNCHANGED proc /\ faults = 0
    BY NewlineComes
<1>2. PICK kind \in {"event", "newline"} :
          /\ Writes(c, kind)
          /\ kind = "event" => pc[c] = "data" /\ pc'[c] = "newline"
          /\ kind = "newline" => pc[c] = "newline" /\ pc'[c] = "done"
    BY <1>1 DEF First, Second
<1> DEFINE n == Len(log) + 1
<1>3. /\ Len(log) \in Nat /\ DOMAIN log = 1..Len(log) /\ DOMAIN log' = 1..n
      /\ Len(log') = n
      /\ \A i \in DOMAIN log : log'[i] = log[i]
      /\ log'[n] = [kind |-> kind, call |-> c, success |-> Success(c)]
    BY <1>2, WriteEffect DEF Writes
<1>4. n = Len(log) + 1
    OBVIOUS
<1> HIDE DEF n
<1>5. /\ n \in Nat /\ n \in DOMAIN log' /\ DOMAIN log' = (DOMAIN log) \union {n}
      /\ \A i \in DOMAIN log : i \in Nat /\ i < n /\ log[i].call \in Calls
      /\ log'[n].kind = kind /\ log'[n].call = c
    BY <1>3, <1>4, LogTokens
<1>6. \A d \in Calls \ {c} : pc'[d] = pc[d]
    BY <1>2 DEF Writes
<1>7. \A i \in DOMAIN log :
          LastWrite(i) /\ proc[log[i].call] = proc[c] /\ pc[log[i].call] # "killed" =>
             log[i].call = c /\ kind = "newline"
    <2> SUFFICES ASSUME NEW i \in DOMAIN log, LastWrite(i), proc[log[i].call] = proc[c],
                        pc[log[i].call] # "killed"
                 PROVE  log[i].call = c /\ kind = "newline"
        OBVIOUS
    <2>1. pc[log[i].call] = "newline" /\ log[i].call \in Calls
        BY <1>1, <1>5 DEF Pairing
    <2>2. mu[proc[c]] = c /\ mu[proc[c]] = log[i].call
        BY <1>2, <2>1 DEF Mutex, Critical, Goroutines
    <2> QED
        BY <1>2, <2>1, <2>2
<1>8. \A i \in DOMAIN log' : LastWrite(i)' => pc'[log'[i].call] \in {"newline", "killed"}
    <2> SUFFICES ASSUME NEW i \in DOMAIN log', LastWrite(i)'
                 PROVE  pc'[log'[i].call] \in {"newline", "killed"}
        OBVIOUS
    <2>1. CASE i = n
        BY <1>2, <1>5, <2>1 DEF LastWrite
    <2>2. CASE i \in DOMAIN log
        <3>1. /\ log'[i] = log[i] /\ log[i].call \in Calls /\ n \in (i + 1)..Len(log')
              /\ \A m \in (i + 1)..Len(log) : m \in (i + 1)..Len(log') /\ log'[m] = log[m]
            BY <1>3, <1>4, <1>5, <2>2
        <3>2. proc[c] # proc[log[i].call]
            BY <1>1, <1>5, <3>1 DEF LastWrite
        <3>3. LastWrite(i)
            BY <1>1, <3>1 DEF LastWrite
        <3> QED
            BY <1>1, <1>6, <2>2, <3>1, <3>2, <3>3 DEF Pairing
    <2> QED
        BY <1>5, <2>1, <2>2
<1>9. ASSUME NEW i \in DOMAIN log', NEW j \in DOMAIN log',
             i < j, log'[i].kind = "event", pc'[log'[i].call] # "killed",
             proc'[log'[i].call] = proc'[log'[j].call],
             \A m \in (i + 1)..(j - 1) : proc'[log'[m].call] # proc'[log'[i].call]
      PROVE  log'[j].kind = "newline" /\ log'[j].call = log'[i].call
    <2>1. i \in DOMAIN log /\ pc[log[i].call] # "killed"
        <3>1. i \in DOMAIN log
            BY <1>3, <1>4, <1>5, <1>9
        <3> QED
            BY <1>2, <1>3, <1>6, <1>5, <1>9, <3>1
    <2>2. CASE j \in DOMAIN log
        <3>1. \A m \in (i + 1)..(j - 1) : log'[m] = log[m]
            BY <1>3, <2>1, <2>2
        <3>2. \A m \in (i + 1)..(j - 1) : proc[log[m].call] # proc[log[i].call]
            BY <1>1, <1>3, <1>9, <2>1, <3>1
        <3> QED
            BY <1>1, <1>3, <1>9, <2>1, <2>2, <3>2 DEF Pairing, PairedWrites
    <2>3. CASE j = n
        <3>1. \A m \in (i + 1)..Len(log) : m \in (i + 1)..(j - 1) /\ log'[m] = log[m]
            BY <1>3, <1>4, <2>1, <2>3
        <3>2. LastWrite(i)
            BY <1>1, <1>3, <1>9, <2>1, <3>1 DEF LastWrite
        <3>3. proc[log[i].call] = proc[c]
            BY <1>1, <1>3, <1>5, <1>9, <2>1, <2>3
        <3> QED
            BY <1>3, <1>5, <1>7, <2>1, <2>3, <3>2, <3>3
    <2> QED
        BY <1>5, <2>2, <2>3
<1>10. PairedWrites'
    BY <1>9 DEF PairedWrites
<1> QED
    BY <1>8, <1>10 DEF Pairing

-----------------------------------------------------------------------------
(* What always holds of a recorder.                                        *)
RecorderInv ==
    /\ Typing /\ Mutex /\ Alive /\ Logged /\ Lossless /\ Closing /\ Pairing

LEMMA RecorderInit == Init => RecorderInv
<1> SUFFICES ASSUME Init PROVE RecorderInv
    OBVIOUS
<1>1. Typing
    BY TypingInit
<1>2. log = << >> /\ DOMAIN log = {}
    BY DEF Init
<1>3. \A g \in Goroutines : pc[g] = "idle" /\ mu[proc[g]] = Free /\ g # Free
    BY NamesAssumption DEF Init, Goroutines
<1>4. Mutex /\ Alive
    BY <1>3 DEF Init, Mutex, Alive, Critical
<1>5. Logged
    BY <1>2, <1>3 DEF Logged, TruthfulEvents, Goroutines
<1>6. Lossless
    BY <1>3 DEF Lossless, NoSilentLoss, Goroutines
<1>7. Closing
    BY <1>3 DEF Init, Closing, ClosedByOther, Goroutines
<1>8. Pairing
    BY <1>2 DEF Pairing, PairedWrites
<1> QED
    BY <1>1, <1>4, <1>5, <1>6, <1>7, <1>8 DEF RecorderInv

LEMMA RecorderNext == RecorderInv /\ [Next]_vars => RecorderInv'
<1> SUFFICES ASSUME RecorderInv, [Next]_vars PROVE RecorderInv'
    OBVIOUS
<1> USE DEF RecorderInv
<1>1. Typing' /\ Mutex' /\ Alive' /\ Logged'
    BY TypingNext, StateTyping, MutexNext, AliveNext, LoggedNext
<1>2. Lossless' /\ Closing'
    BY LosslessNext, ClosingNext
<1>3. Pairing'
    BY LogSteps, QuietPairing, WritePairing
<1> QED
    BY <1>1, <1>2, <1>3

(* The recorder's invariant holds in every reachable state.                *)
THEOREM Invariance == Spec => []RecorderInv
BY RecorderInit, RecorderNext, PTL DEF Spec

(* The mutex of a recorder is held exactly between lock and unlock.        *)
THEOREM MutexIsReleased == Spec => []TypeOK
<1>1. RecorderInv => TypeOK
    BY DEF RecorderInv, Typing, Mutex, Critical, TypeOK
<1> QED
    BY <1>1, Invariance, PTL

(* A call leaves one event at most, and what it says is what the client    *)
(* was told, over crashes, torn writes and closes.                         *)
THEOREM EventsAreTruthful == Spec => []TruthfulEvents
<1>1. RecorderInv => TruthfulEvents
    BY DEF RecorderInv, Logged
<1> QED
    BY <1>1, Invariance, PTL

(* While nothing fails, the two writes of an event stay together.          *)
THEOREM WritesArePaired == Spec => []PairedWrites
<1>1. RecorderInv => PairedWrites
    BY DEF RecorderInv, Pairing
<1> QED
    BY <1>1, Invariance, PTL

(* While nothing fails, a call that is over has its line.                  *)
THEOREM NothingIsLost == Spec => []NoSilentLoss
<1>1. RecorderInv => NoSilentLoss
    BY DEF RecorderInv, Lossless
<1> QED
    BY <1>1, Invariance, PTL

(* The only error of Close is that another Close came between its two      *)
(* looks at the file.                                                      *)
THEOREM CloseRacesOnlyClose == Spec => []ClosedByOther
<1>1. RecorderInv => ClosedByOther
    BY DEF RecorderInv, Closing
<1> QED
    BY <1>1, Invariance, PTL

-----------------------------------------------------------------------------
(* Lines.  Two processes share the log in MCAgentTraceTwoProcesses, where  *)
(* lines get mixed; it takes two, or a call that is killed, or a write     *)
(* that fails.                                                             *)
OneProcess == \A c, d \in Calls : proc[c] = proc[d]

NobodyKilled == \A c \in Calls : pc[c] # "killed"

WholeLines == (OneProcess /\ NobodyKilled /\ faults = 0) => OneEventPerLine

NoTornEvents ==
    faults = 0 => \A i \in DOMAIN log : log[i].kind # "torn"

LEMMA NoTornEventsNext ==
    ASSUME Typing, NoTornEvents, [Next]_vars
    PROVE  NoTornEvents'
<1> SUFFICES ASSUME faults' = 0
             PROVE  \A i \in DOMAIN log' : log'[i].kind # "torn"
    BY DEF NoTornEvents
<1>1. \A i \in DOMAIN log : log[i].kind # "torn"
    BY NewlineComes DEF NoTornEvents
<1>2. CASE Quiet
    BY <1>1, <1>2 DEF Quiet
<1>3. ASSUME NEW c \in Calls, NEW kind \in {"event", "newline"}, Writes(c, kind)
      PROVE  \A i \in DOMAIN log' : log'[i].kind # "torn"
    <2>1. /\ Len(log) \in Nat /\ DOMAIN log = 1..Len(log)
          /\ DOMAIN log' = 1..(Len(log) + 1)
          /\ \A i \in DOMAIN log : log'[i] = log[i]
          /\ log'[Len(log) + 1] = [kind |-> kind, call |-> c, success |-> Success(c)]
        BY <1>3, WriteEffect DEF Writes
    <2>2. \A i \in DOMAIN log' : i \in DOMAIN log \/ i = Len(log) + 1
        BY <2>1
    <2>3. log'[Len(log) + 1].kind # "torn"
        BY <2>1
    <2> QED
        BY <1>1, <2>1, <2>2, <2>3
<1>4. ASSUME NEW c \in Calls, First(c) PROVE Writes(c, "event")
    BY <1>4, NewlineComes DEF First
<1>5. ASSUME NEW c \in Calls, Second(c) PROVE Writes(c, "newline")
    BY <1>5 DEF Second
<1> QED
    BY <1>2, <1>3, <1>4, <1>5, LogSteps

(* What a newline ends in such a log is one event, alone on its line.      *)
LEMMA LinesAreWhole ==
    ASSUME RecorderInv, NoTornEvents
    PROVE  WholeLines
<1> SUFFICES ASSUME OneProcess, NobodyKilled, faults = 0
             PROVE  OneEventPerLine
    BY DEF WholeLines
<1>1. /\ \A i \in DOMAIN log : log[i].kind \in {"event", "newline"} /\ log[i].call \in Calls
      /\ Len(log) \in Nat /\ DOMAIN log = 1..Len(log)
    BY LogTokens DEF RecorderInv, Typing, Types, NoTornEvents, Token
<1>2. ASSUME NEW i \in DOMAIN log, i + 1 \in DOMAIN log, log[i].kind = "event"
      PROVE  log[i + 1].kind = "newline" /\ log[i + 1].call = log[i].call
    <2>1. i < i + 1 /\ (i + 1)..((i + 1) - 1) = {}
        BY <1>1
    <2>2. proc[log[i].call] = proc[log[i + 1].call]
        BY <1>1, <1>2 DEF OneProcess
    <2> QED
        BY <1>1, <1>2, <2>1, <2>2 DEF RecorderInv, Pairing, PairedWrites, NobodyKilled
<1>3. ASSUME NEW i \in DOMAIN log, log[i].kind = "newline"
      PROVE  /\ i > 1 /\ log[i - 1].kind = "event"
             /\ i > 2 => log[i - 2].kind = "newline"
    <2>1. PICK j \in 1..(i - 1) : log[j].kind = "event" /\ log[j].call = log[i].call
        BY <1>3 DEF RecorderInv, Logged, TruthfulEvents
    <2>2. j \in DOMAIN log /\ j + 1 \in DOMAIN log
        BY <1>1, <1>3, <2>1
    <2>3. log[j + 1].kind = log[i].kind /\ log[j + 1].call = log[i].call
        BY <1>2, <1>3, <2>1, <2>2
    <2>4. j + 1 = i
        BY <2>2, <2>3 DEF RecorderInv, Logged, TruthfulEvents
    <2>5. i > 1 /\ i - 1 = j
        BY <1>1, <2>1, <2>2, <2>4
    <2>6. i > 2 => log[i - 2].kind = "newline"
        <3> SUFFICES ASSUME i > 2, log[i - 2].kind = "event" PROVE FALSE
            BY <1>1, <2>5
        <3>1. i - 2 \in DOMAIN log /\ (i - 2) + 1 = i - 1
            BY <1>1
        <3>2. log[i - 1].kind = "newline"
            BY <1>1, <1>2, <2>2, <2>5, <3>1
        <3> QED
            BY <2>1, <2>5, <3>2
    <2> QED
        BY <2>1, <2>5, <2>6
<1> QED
    BY <1>3 DEF OneEventPerLine

(* As long as all calls are in one process, no write fails and no call is  *)
(* killed, the log is what agentrace.go:22 says: one event per line, for   *)
(* any number of calls, closes and restarts in any order.                  *)
THEOREM LinesOfOneProcess == Spec => []WholeLines
<1>1. Init => NoTornEvents
    BY DEF Init, NoTornEvents
<1>2. RecorderInv /\ NoTornEvents /\ [Next]_vars => NoTornEvents'
    BY NoTornEventsNext DEF RecorderInv
<1>3. RecorderInv /\ NoTornEvents => WholeLines
    BY LinesAreWhole
<1> QED
    BY <1>1, <1>2, <1>3, Invariance, PTL DEF Spec
=============================================================================

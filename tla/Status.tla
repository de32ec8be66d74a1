------------------------------- MODULE Status -------------------------------
(***************************************************************************)
(* The tools that put one result together from several requests, made one  *)
(* after the other while the things they ask about change:                 *)
(* helixon_agent_status and helixon_stack_status (client.go:425-446,       *)
(* 473-500) and helixon_get_metrics (get_metrics.go, prometheus.go).  Any  *)
(* of the requests can fail, and the parts can be of different moments.    *)
(***************************************************************************)
EXTENDS Naturals, FiniteSets

CONSTANTS
    Calls,          \* tool calls
    Kinds,          \* bound: which of the tools they use
    Metrics,        \* the names of the default Prometheus queries
    CustomQuery,    \* the query an MCP client can pass instead
    Jobs,           \* the jobs the gateway can know
    MaxChanges      \* bound: changes of the world

AllKinds == {"agent_status", "stack_status", "get_metrics", "custom_query"}
ClientSources == {"health", "gateway", "jobs", "router"}
Sources == ClientSources \union Metrics \union {CustomQuery}

ASSUME KindsAssumption == Kinds \subseteq AllKinds
ASSUME SourcesAssumption ==
    /\ CustomQuery \notin Metrics
    /\ ClientSources \intersect (Metrics \union {CustomQuery}) = {}
ASSUME BoundsAssumption == MaxChanges \in Nat /\ IsFiniteSet(Jobs)

VARIABLES
    (* the world *)
    version,    \* version[s]: what source s answers, jobs aside
    job,        \* job[j]: the state the gateway lists job j in
    changes,    \* changes so far
    (* the calls *)
    kind, pc, cancelled,
    todo,       \* todo[c]: the sources c has not asked yet
    got,        \* got[c][s]: the answer c has from s, as a set of one or none
    errs,       \* errs[c]: the failures that get_metrics reports
    moments     \* history variable: moments[c][s], what s could have
                \* answered at some moment since c began

worldVars == <<version, job, changes>>
vars == <<worldVars, kind, pc, cancelled, todo, got, errs, moments>>

JobStates == {"unlisted", "pending", "running", "in_progress", "completed"}

(* What s answers now.                                                     *)
Answer(s) == IF s = "jobs" THEN job ELSE version[s]
Answers(s) ==
    IF s = "jobs" THEN [Jobs -> JobStates] ELSE 0..MaxChanges

Types ==
    /\ version \in [Sources \ {"jobs"} -> 0..MaxChanges]
    /\ job \in [Jobs -> JobStates]
    /\ changes \in 0..MaxChanges
    /\ kind \in [Calls -> Kinds]
    /\ pc \in [Calls -> {"idle", "asking", "done", "failed"}]
    /\ cancelled \in [Calls -> BOOLEAN]
    /\ todo \in [Calls -> SUBSET Sources]
    /\ DOMAIN got = Calls /\ DOMAIN moments = Calls
    /\ \A c \in Calls : /\ DOMAIN got[c] = Sources /\ DOMAIN moments[c] = Sources
                        /\ \A s \in Sources : /\ got[c][s] \subseteq Answers(s)
                                              /\ Cardinality(got[c][s]) <= 1
                                              /\ moments[c][s] \subseteq Answers(s)
    /\ errs \in [Calls -> SUBSET Sources]

-----------------------------------------------------------------------------
(* What a tool asks for.  The router URL is never empty                    *)
(* (stack_status.go:19-25).                                                *)
Plan(k) ==
    CASE k = "agent_status" -> {"health", "gateway", "jobs"}
      [] k = "stack_status" -> {"router", "gateway"}
      [] k = "get_metrics"  -> Metrics
      [] k = "custom_query" -> {CustomQuery}

(* The order of the requests of the two status tools; get_metrics takes    *)
(* its queries in the order of a Go map, which is any.                     *)
Stage(s) ==
    CASE s = "gateway" -> 2
      [] s = "jobs"    -> 3
      [] OTHER         -> 1
Turn(c) == {s \in todo[c] : \A r \in todo[c] : Stage(s) <= Stage(r)}

(* A failure of the first request of AgentStatus and of a custom query     *)
(* fails the tool; the others leave a gap.                                 *)
Mandatory(c, s) ==
    \/ kind[c] = "agent_status" /\ s = "health"
    \/ kind[c] = "custom_query"

(* The fields of the AgentStatusResponse.                                  *)
ReportedStatus(c) == IF got[c]["gateway"] # {} THEN got[c]["gateway"] ELSE got[c]["health"]
IsActive(state) == state \in {"running", "in_progress"}
CountsOf(states) ==
    [active |-> Cardinality({j \in Jobs : IsActive(states[j])}),
     total  |-> Cardinality({j \in Jobs : states[j] # "unlisted"})]
ReportedCounts(c) ==
    IF got[c]["jobs"] # {} THEN CountsOf(CHOOSE states \in got[c]["jobs"] : TRUE)
    ELSE [active |-> 0, total |-> 0]

-----------------------------------------------------------------------------
Init ==
    /\ version = [s \in Sources \ {"jobs"} |-> 0]
    /\ job \in [Jobs -> {"unlisted", "running"}]
    /\ changes = 0
    /\ kind \in [Calls -> Kinds]
    /\ pc = [c \in Calls |-> "idle"]
    /\ cancelled = [c \in Calls |-> FALSE]
    /\ todo = [c \in Calls |-> {}]
    /\ got = [c \in Calls |-> [s \in Sources |-> {}]]
    /\ errs = [c \in Calls |-> {}]
    /\ moments = [c \in Calls |-> [s \in Sources |-> {}]]

Begin(c) ==
    /\ pc[c] = "idle"
    /\ pc' = [pc EXCEPT ![c] = "asking"]
    /\ todo' = [todo EXCEPT ![c] = Plan(kind[c])]
    /\ moments' = [moments EXCEPT ![c] = [s \in Sources |->
                      IF s \in Plan(kind[c]) THEN {Answer(s)} ELSE {}]]
    /\ UNCHANGED <<worldVars, kind, cancelled, got, errs>>

(* The request for s is over; so is the call when it was the last.         *)
Asked(c, s) ==
    /\ todo' = [todo EXCEPT ![c] = @ \ {s}]
    /\ pc' = [pc EXCEPT ![c] = IF todo[c] = {s} THEN "done" ELSE "asking"]

(* Variant: an answer to another call is reused.                           *)
FromAnyCall(c, s) ==
    IF \E d \in Calls : got[d][s] # {} THEN UNION {got[d][s] : d \in Calls}
    ELSE {Answer(s)}
Received(c, s) == {Answer(s)}

(* The answer is the one of the moment the request is served.              *)
Answered(c, s) ==
    /\ pc[c] = "asking" /\ s \in Turn(c) /\ ~cancelled[c]
    /\ got' = [got EXCEPT ![c][s] = Received(c, s)]
    /\ Asked(c, s)
    /\ UNCHANGED <<worldVars, kind, cancelled, errs, moments>>

(* Variant: a failing query is not reported.                               *)
SkipSilently(c, s) == Asked(c, s) /\ UNCHANGED errs
(* continue: the next request.                                             *)
Proceed(c, s) ==
    /\ Asked(c, s)
    /\ errs' = IF s \in Metrics THEN [errs EXCEPT ![c] = @ \union {s}] ELSE errs

(* Variant: no failure ends the tool.                                      *)
AlwaysProceed(c, s) == Proceed(c, s)
EndInError(c, s) ==
    /\ pc' = [pc EXCEPT ![c] = "failed"]
    /\ todo' = [todo EXCEPT ![c] = {}]
    /\ UNCHANGED errs
(* A failing request ends AgentStatus and a custom query, is named in the  *)
(* result of get_metrics, and leaves the status tools with a gap.          *)
AfterFailure(c, s) ==
    \/ Mandatory(c, s) /\ EndInError(c, s)
    \/ ~Mandatory(c, s) /\ Proceed(c, s)

Failed(c, s) ==
    /\ pc[c] = "asking" /\ s \in Turn(c)
    /\ AfterFailure(c, s)
    /\ UNCHANGED <<worldVars, kind, cancelled, got, moments>>

Cancel(c) ==
    /\ pc[c] = "asking" /\ ~cancelled[c]
    /\ cancelled' = [cancelled EXCEPT ![c] = TRUE]
    /\ UNCHANGED <<worldVars, kind, pc, todo, got, errs, moments>>

-----------------------------------------------------------------------------
(* The gateway, the router and Prometheus, external to the repository.     *)
(* Everything a running call could be told from now on.                    *)
Observe ==
    moments' = [c \in Calls |-> [s \in Sources |->
        IF s \in todo[c] THEN moments[c][s] \union {Answer(s)'} ELSE moments[c][s]]]

Change(s) ==
    /\ s # "jobs" /\ changes < MaxChanges /\ changes' = changes + 1
    /\ version' = [version EXCEPT ![s] = @ + 1]
    /\ UNCHANGED <<job, kind, pc, cancelled, todo, got, errs>>
    /\ Observe

JobMoves(j) ==
    /\ changes < MaxChanges /\ changes' = changes + 1
    /\ \E state \in JobStates \ {"unlisted", job[j]} : job' = [job EXCEPT ![j] = state]
    /\ UNCHANGED <<version, kind, pc, cancelled, todo, got, errs>>
    /\ Observe

-----------------------------------------------------------------------------
Next ==
    \/ \E c \in Calls : Begin(c) \/ Cancel(c)
    \/ \E c \in Calls, s \in Sources : Answered(c, s) \/ Failed(c, s)
    \/ \E s \in Sources : Change(s)
    \/ \E j \in Jobs : JobMoves(j)

Spec == Init /\ [][Next]_vars

(* Variant: queries to Prometheus ignore the context.                      *)
ClientBounded(c, s) == s \in ClientSources
(* A request that has to come back: those of the client have a timeout,    *)
(* those to Prometheus end with the context only (prometheus.go:22, 30).   *)
Bounded(c, s) == s \in ClientSources \/ cancelled[c]

Fairness ==
    \A c \in Calls, s \in Sources : WF_vars(Bounded(c, s) /\ Failed(c, s))

FairSpec == Spec /\ Fairness

-----------------------------------------------------------------------------
(* Every variable has its type; a call that ended has nothing left to ask, *)
(* and a tool that failed lacks a part it cannot do without                *)
(* (client.go:478-481, get_metrics.go:46-50).                              *)
TypeOK ==
    /\ Types
    /\ \A c \in Calls :
          /\ pc[c] \in {"idle", "done", "failed"} => todo[c] = {}
          /\ pc[c] = "failed" =>
                \E s \in Plan(kind[c]) : Mandatory(c, s) /\ got[c][s] = {}

(* Every part of a result was true at a moment of the call it belongs to:  *)
(* nothing is left over from another call, and the job counts belong to    *)
(* one moment, unless the request for the jobs failed (client.go:476-499,  *)
(* get_metrics.go:54-63).                                                  *)
FreshParts ==
    \A c \in Calls :
        /\ \A s \in Sources : got[c][s] \subseteq moments[c][s]
        /\ (kind[c] = "agent_status" /\ pc[c] = "done" /\ got[c]["jobs"] # {}) =>
              \E states \in moments[c]["jobs"] : ReportedCounts(c) = CountsOf(states)

(* get_metrics accounts for each of its queries: it is among the metrics   *)
(* or among the errors, and not in both (get_metrics.go:54-68).            *)
EveryMetric ==
    \A c \in Calls : (kind[c] = "get_metrics" /\ pc[c] = "done") =>
        \A m \in Metrics : (got[c][m] = {}) <=> (m \in errs[c])

(* An agent status that is reported has a status: the gateway's or, for    *)
(* want of it, that of the health check (client.go:478-487).               *)
StatusIsKnown ==
    \A c \in Calls : (kind[c] = "agent_status" /\ pc[c] = "done") =>
        ReportedStatus(c) # {}

(* The status tools return whatever happens, get_metrics once its context  *)
(* is done (client.go:35-44, prometheus.go:30).                            *)
ToolsReturn ==
    \A c \in Calls :
        /\ (pc[c] = "asking" /\ kind[c] \in {"agent_status", "stack_status"})
               ~> pc[c] \in {"done", "failed"}
        /\ (pc[c] = "asking" /\ cancelled[c]) ~> pc[c] \in {"done", "failed"}
=============================================================================

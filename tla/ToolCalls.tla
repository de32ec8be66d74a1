----------------------------- MODULE ToolCalls ------------------------------
(***************************************************************************)
(* The tools of internal/tools that make one request to the gateway: a     *)
(* handler checks its arguments, a method of internal/helixon/client.go    *)
(* sends one HTTP request with Client.do, and the handler turns what comes *)
(* back into a tool result.  Calls run at once (SSE sessions, or several   *)
(* stdio servers in front of one gateway).  The request or the reply can   *)
(* be lost, the gateway can answer after the call gave up, and it can act  *)
(* on a request without the call ever hearing of it.                       *)
(***************************************************************************)
EXTENDS Naturals, Sequences

CONSTANTS
    Calls,          \* the tool calls
    Tools,          \* bound: the tools they use
    Texts,          \* the non-empty strings an argument can be
    PositiveTexts   \* those of them that read as a positive integer

AllTools ==
    {"helixon_health", "helixon_list_jobs", "helixon_get_job",
     "helixon_cancel_job", "helixon_search_memory", "memory_search",
     "memory_write", "memory_read", "memory_tree", "helixon_list_routines",
     "helixon_delete_routine", "helixon_list_tools", "helixon_spawn_agent",
     "helixon_send_task"}

ASSUME ToolsAssumption == Tools \subseteq AllTools
ASSUME TextsAssumption ==
    /\ PositiveTexts \subseteq Texts
    /\ {"absent", "notString", "empty"} \intersect Texts = {}

VARIABLES
    tool, first, second,    \* the request of the MCP client: two arguments
    pc,                     \* where the call is
    inflight,               \* calls whose HTTP request may still be served
    served,                 \* the calls the gateway acted on, in order
    reply,                  \* reply[c]: what the gateway answered
    result,                 \* result[c]: what the tool returned
    earlier                 \* history variable: calls that had succeeded
                            \* when c began

requestVars == <<tool, first, second>>
vars == <<requestVars, pc, inflight, served, reply, result, earlier>>

(* An argument as it comes in: CallToolRequest.Params.Arguments.           *)
Argument == Texts \union {"absent", "notString", "empty"}

(* A body is decoded unless out is nil; cut says that it cannot be.        *)
Replies == {"ok", "cut", "status400"}

Types ==
    /\ tool \in [Calls -> Tools]
    /\ first \in [Calls -> Argument] /\ second \in [Calls -> Argument]
    /\ pc \in [Calls -> {"idle", "request", "waiting", "done"}]
    /\ inflight \subseteq Calls
    /\ served \in Seq(Calls)
    /\ reply \in [Calls -> Replies \union {"none"}]
    /\ result \in [Calls -> {"none", "success", "error", "refused"}]
    /\ earlier \in [Calls -> SUBSET Calls]

-----------------------------------------------------------------------------
(* Arguments. *)

(* Variant: empty strings pass.                                            *)
AnyString(v) == v \in Texts \union {"empty"}
(* requiredString: present, a string, and not empty.                       *)
RequiredString(v) == v \in Texts

(* optionalString: whatever is not a string counts as absent.              *)
OptionalString(v) == IF v \in Texts THEN v ELSE "empty"

(* What the handlers insist on.                                            *)
NeedsFirst ==
    {"helixon_get_job", "helixon_cancel_job", "helixon_search_memory",
     "memory_search", "memory_write", "memory_read",
     "helixon_delete_routine", "helixon_spawn_agent", "helixon_send_task"}
NeedsSecond == {"memory_write"}

(* memory_search refuses a limit that helixon_search_memory passes over.   *)
LimitAccepted(v) == OptionalString(v) \in PositiveTexts \union {"empty"}

(* The handler goes on to the client.                                      *)
Accepts(c) ==
    /\ tool[c] \in NeedsFirst => RequiredString(first[c])
    /\ tool[c] \in NeedsSecond => RequiredString(second[c])
    /\ tool[c] = "memory_search" => LimitAccepted(second[c])

(* CancelJob and DeleteRoutine pass a nil out to Client.do.                *)
NoBody == {"helixon_cancel_job", "helixon_delete_routine"}

(* What the schemas say that MCP clients get (the optional arguments of    *)
(* spawn_agent count as one).  They are not what the handlers insist on,   *)
(* and nothing compares a call with them before its handler does.          *)
Schema(name, one, two) == [tool |-> name, first |-> one, second |-> two]

JobSchemas == {Schema("helixon_list_jobs", "none", "none"),
               Schema("helixon_get_job", "required", "none"),
               Schema("helixon_cancel_job", "required", "none")}
RoutineSchemas == {Schema("helixon_list_routines", "none", "none"),
                   Schema("helixon_delete_routine", "required", "none")}
MemorySchemas == {Schema("helixon_search_memory", "required", "optional")}
WorkspaceMemorySchemas == {Schema("memory_search", "required", "optional"),
                           Schema("memory_write", "required", "required"),
                           Schema("memory_read", "required", "none"),
                           Schema("memory_tree", "optional", "none")}
SpawnSchemas == {Schema("helixon_spawn_agent", "required", "optional")}
TaskSchemas == {Schema("helixon_send_task", "required", "optional")}
HealthSchemas == {Schema("helixon_health", "none", "none")}
ToolsSchemas == {Schema("helixon_list_tools", "none", "none")}

Schemas == JobSchemas \union RoutineSchemas \union MemorySchemas
             \union WorkspaceMemorySchemas \union SpawnSchemas \union TaskSchemas
             \union HealthSchemas \union ToolsSchemas

(* What a schema admits: mcp.Required() asks for presence and WithString   *)
(* for a string, which may be empty; what it does not name is free.        *)
Admitted == [required |-> Texts \union {"empty"},
             optional |-> Argument \ {"notString"},
             none     |-> Argument]
MeetsSchema(c) ==
    \A s \in Schemas : s.tool = tool[c] =>
        first[c] \in Admitted[s.first] /\ second[c] \in Admitted[s.second]

-----------------------------------------------------------------------------
Init ==
    /\ tool \in [Calls -> Tools]
    /\ first \in [Calls -> Argument] /\ second \in [Calls -> Argument]
    /\ pc = [c \in Calls |-> "idle"]
    /\ inflight = {}
    /\ served = << >>
    /\ reply = [c \in Calls |-> "none"]
    /\ result = [c \in Calls |-> "none"]
    /\ earlier = [c \in Calls |-> {}]

Goto(c, label) == pc' = [pc EXCEPT ![c] = label]
Return(c, r) == Goto(c, "done") /\ result' = [result EXCEPT ![c] = r]

(* A handler begins: what it does before it calls the client.              *)
Handle(c) ==
    /\ pc[c] = "idle"
    /\ earlier' = [earlier EXCEPT ![c] = {d \in Calls : result[d] = "success"}]
    /\ \/ Accepts(c) /\ Goto(c, "request") /\ UNCHANGED result
       \/ ~Accepts(c) /\ Return(c, "refused")
    /\ UNCHANGED <<requestVars, inflight, served, reply>>

(* Variant: without a body there is nothing to wait for.                   *)
FireAndForget(c) ==
    /\ inflight' = inflight \union {c}
    /\ IF tool[c] \in NoBody THEN Return(c, "success")
       ELSE Goto(c, "waiting") /\ UNCHANGED result
SendRequest(c) ==
    /\ inflight' = inflight \union {c} /\ Goto(c, "waiting") /\ UNCHANGED result
(* Client.get, post and delete, up to httpClient.Do: the request leaves,   *)
(* or it cannot be built, the context is done, nobody listens.             *)
Request(c) ==
    /\ pc[c] = "request"
    /\ \/ SendRequest(c)
       \/ Return(c, "error") /\ UNCHANGED inflight
    /\ UNCHANGED <<requestVars, served, reply, earlier>>

(* Client.do once there is a response: a status of 400 or more is an       *)
(* error, a nil out ends the call, an undecodable body is an error.        *)
Outcome(c) ==
    IF reply[c] = "status400" \/ (reply[c] = "cut" /\ tool[c] \notin NoBody)
    THEN "error" ELSE "success"
Receive(c) ==
    /\ pc[c] = "waiting" /\ reply[c] # "none"
    /\ Return(c, Outcome(c))
    /\ UNCHANGED <<requestVars, inflight, served, reply, earlier>>

(* Variant: the request is sent again.                                     *)
RetryOnTimeout(c) == Goto(c, "request") /\ UNCHANGED result
(* Variant: the HTTP client has no timeout.                                *)
NoTimeout(c) == FALSE
(* httpClient.Do fails: the timeout of the http.Client, a context that is  *)
(* done, a broken connection.  It is not known what the gateway did.       *)
GiveUp(c) == Return(c, "error")
Unanswered(c) ==
    /\ pc[c] = "waiting" /\ GiveUp(c)
    /\ UNCHANGED <<requestVars, inflight, served, reply, earlier>>

-----------------------------------------------------------------------------
(* The gateway and the network, external to the repository. *)

(* It acts on a request, at any time after it was sent.  net/http may      *)
(* repeat a GET on a broken connection: a read, so both count as one.      *)
Serve(c) ==
    /\ c \in inflight /\ inflight' = inflight \ {c}
    /\ served' = Append(served, c)
    /\ \E r \in Replies : reply' = [reply EXCEPT ![c] = r]
    /\ UNCHANGED <<requestVars, pc, result, earlier>>

(* It turns a request down.                                                *)
Reject(c) ==
    /\ c \in inflight /\ inflight' = inflight \ {c}
    /\ reply' = [reply EXCEPT ![c] = "status400"]
    /\ UNCHANGED <<requestVars, pc, served, result, earlier>>

(* A request never arrives.                                                *)
Lose(c) ==
    /\ c \in inflight /\ inflight' = inflight \ {c}
    /\ UNCHANGED <<requestVars, pc, served, reply, result, earlier>>

-----------------------------------------------------------------------------
CallStep(c) == Request(c) \/ Receive(c) \/ Unanswered(c)

Next == \E c \in Calls :
    Handle(c) \/ CallStep(c) \/ Serve(c) \/ Reject(c) \/ Lose(c)

Spec == Init /\ [][Next]_vars

(* http.Client has a timeout (client.go:35-44): every request comes back.  *)
Fairness == \A c \in Calls : WF_vars(CallStep(c))

FairSpec == Spec /\ Fairness

-----------------------------------------------------------------------------
(* Every variable has its type, and no request leaves the bridge without   *)
(* its required arguments: with an empty id, DELETE /api/routines/<id> and *)
(* the like would name the whole collection (interfaces.go:38-52).         *)
TypeOK ==
    /\ Types
    /\ \A c \in Calls : c \in inflight \/ reply[c] # "none" =>
          /\ tool[c] \in NeedsFirst => first[c] \in Texts
          /\ tool[c] \in NeedsSecond => second[c] \in Texts

(* Calls are served in the order their clients saw: a call that succeeded  *)
(* before another began was served before it, and is never served again    *)
(* after it (client.go:548-574: do returns only with the response).        *)
RealTimeOrder ==
    \A c \in Calls : \A d \in earlier[c] :
        /\ \E i \in DOMAIN served : served[i] = d
        /\ \A i, j \in DOMAIN served : (served[i] = d /\ served[j] = c) => i < j

(* The status of a call as AtMostOnce names it.                            *)
Status(c) ==
    IF pc[c] = "idle" THEN "new"
    ELSE IF pc[c] = "done" THEN result[c] ELSE "open"

Promise == INSTANCE AtMostOnce WITH
    status <- [c \in Calls |-> Status(c)], log <- served

(* The bridge keeps the promise of AtMostOnce: success means served once   *)
(* while the call was open, refused means never served, and no call is     *)
(* served twice (client.go:302-423, 449-574, and the handlers).            *)
KeepsPromise == Promise!Spec

(* Every call returns, even when the gateway never answers                 *)
(* (client.go:35-44).                                                      *)
CallsReturn == \A c \in Calls : pc[c] = "request" ~> pc[c] = "done"
=============================================================================

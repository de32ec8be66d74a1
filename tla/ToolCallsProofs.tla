--------------------------- MODULE ToolCallsProofs --------------------------
(***************************************************************************)
(* ToolCalls implements AtMostOnce, and its safety properties, for any     *)
(* number of calls, any tools and any arguments.                           *)
(***************************************************************************)
EXTENDS ToolCalls, TLAPS

(* The gateway has acted on the request of c.                              *)
Served(c) == \E i \in DOMAIN served : served[i] = c

(* Nothing of c has left the bridge.                                       *)
Untouched(c) == c \notin inflight /\ reply[c] = "none" /\ ~Served(c)

(* The required arguments of c are there.                                  *)
HasRequired(c) ==
    /\ tool[c] \in NeedsFirst => first[c] \in Texts
    /\ tool[c] \in NeedsSecond => second[c] \in Texts

CallInv(c) ==
    /\ pc[c] \in {"idle", "request"} => Untouched(c)
    /\ pc[c] = "done" <=> result[c] # "none"
    /\ result[c] = "refused" => Untouched(c)
    /\ c \in inflight => reply[c] = "none" /\ ~Served(c)
    /\ reply[c] \in {"ok", "cut"} => Served(c)
    /\ result[c] = "success" => Served(c)
    /\ \A d \in earlier[c] : result[d] = "success"
    /\ (pc[c] = "request" \/ c \in inflight \/ reply[c] # "none") => HasRequired(c)

ServedOnce == \A i, j \in DOMAIN served : served[i] = served[j] => i = j

(* The strengthening of TypeOK and RealTimeOrder that every step keeps.    *)
IndInv ==
    /\ Types
    /\ \A c \in Calls : CallInv(c)
    /\ ServedOnce
    /\ RealTimeOrder

-----------------------------------------------------------------------------
(* The invariant gives the properties that the runs check.                 *)
LEMMA IndInvImplies == IndInv => TypeOK /\ RealTimeOrder
  BY DEF IndInv, TypeOK, CallInv, HasRequired

(* Initially no call has begun.                                            *)
LEMMA IndInvInit == Init => IndInv
  <1> SUFFICES ASSUME Init PROVE IndInv
    OBVIOUS
  <1>1. Types
    BY ToolsAssumption DEF Init, Types, Argument
  <1>2. ASSUME NEW c \in Calls PROVE CallInv(c)
    BY DEF Init, CallInv, Untouched, Served
  <1>3. ServedOnce /\ RealTimeOrder
    BY DEF Init, ServedOnce, RealTimeOrder
  <1> QED BY <1>1, <1>2, <1>3 DEF IndInv

(* Handle leaves the gateway and the network alone.                        *)
LEMMA HandleInv == ASSUME IndInv, NEW c \in Calls, Handle(c) PROVE IndInv'
  <1>1. Types'
    BY DEF IndInv, Types, Handle, Goto, Return, requestVars
  <1>2. Untouched(c) /\ c \notin earlier[c] /\ pc[c] = "idle" /\ result[c] = "none"
    BY DEF IndInv, Handle, CallInv, Untouched, Types
  <1>3. ASSUME NEW d \in Calls PROVE CallInv(d)'
    <2>1. /\ d # c => /\ pc'[d] = pc[d] /\ result'[d] = result[d]
                      /\ earlier'[d] = earlier[d]
          /\ \A e \in Calls : result[e] = "success" => result'[e] = "success"
          /\ Served(d)' <=> Served(d)
          /\ Untouched(d)' <=> Untouched(d)
          /\ HasRequired(d)' <=> HasRequired(d)
      BY <1>2 DEF IndInv, Types, Handle, Goto, Return, Served, Untouched,
           HasRequired, requestVars
    <2>2. CASE d # c
      <3>1. CallInv(d) /\ earlier[d] \subseteq Calls
        BY DEF IndInv, Types
      <3>2. UNCHANGED <<inflight, reply>>
        BY DEF Handle
      <3> QED BY <2>1, <2>2, <3>1, <3>2 DEF CallInv
    <2>3. CASE d = c
      <3>1. earlier'[c] = {e \in Calls : result[e] = "success"}
        BY DEF IndInv, Types, Handle
      <3>2. \/ pc'[c] = "request" /\ result'[c] = "none" /\ Accepts(c)
            \/ pc'[c] = "done" /\ result'[c] = "refused"
        BY <1>2 DEF IndInv, Types, Handle, Goto, Return
      <3>3. Accepts(c) => HasRequired(c)
        BY DEF Accepts, HasRequired, RequiredString
      <3>4. c \notin inflight' /\ reply'[c] = "none" /\ ~Served(c)'
        BY <1>2, <2>1, <2>3 DEF Handle, Untouched
      <3> QED BY <1>2, <2>1, <2>3, <3>1, <3>2, <3>3, <3>4 DEF CallInv
    <2> QED BY <2>2, <2>3
  <1>4. ServedOnce'
    BY DEF IndInv, ServedOnce, Handle
  <1>5. RealTimeOrder'
    <2> SUFFICES ASSUME NEW d \in Calls, NEW e \in earlier'[d]
                 PROVE  /\ \E i \in DOMAIN served : served[i] = e
                        /\ \A i, j \in DOMAIN served :
                              (served[i] = e /\ served[j] = d) => i < j
      BY DEF RealTimeOrder, Handle
    <2>1. CASE d = c
      <3>1. e \in Calls /\ result[e] = "success"
        BY <2>1 DEF IndInv, Types, Handle
      <3> QED BY <1>2, <2>1, <3>1 DEF IndInv, CallInv, Untouched, Served
    <2>2. CASE d # c
      BY <2>2 DEF IndInv, Types, Handle, RealTimeOrder
    <2> QED BY <2>1, <2>2
  <1> QED BY <1>1, <1>3, <1>4, <1>5 DEF IndInv

(* The steps of a call after Handle: they end it or put it in flight.      *)
LEMMA CallStepInv == ASSUME IndInv, NEW c \in Calls, CallStep(c) PROVE IndInv'
  <1>1. /\ UNCHANGED <<requestVars, served, reply, earlier>>
        /\ pc[c] \in {"request", "waiting"}
        /\ \/ /\ pc[c] = "request" /\ inflight' = inflight \union {c}
              /\ pc' = [pc EXCEPT ![c] = "waiting"] /\ UNCHANGED result
           \/ /\ UNCHANGED inflight
              /\ pc' = [pc EXCEPT ![c] = "done"]
              /\ \/ result' = [result EXCEPT ![c] = "error"]
                 \/ /\ result' = [result EXCEPT ![c] = "success"]
                    /\ pc[c] = "waiting"
                    /\ reply[c] \notin {"none", "status400"}
    BY DEF CallStep, Request, SendRequest, Receive, Outcome, Unanswered, GiveUp,
           Return, Goto
  <1>2. Types /\ CallInv(c) /\ result[c] = "none"
    BY <1>1 DEF IndInv, CallInv, Types
  <1>3. Types'
    BY <1>1, <1>2 DEF Types, requestVars
  <1>4. \A d \in Calls : result[d] = "success" => result'[d] = "success"
    BY <1>1, <1>2 DEF Types
  <1>5. ASSUME NEW d \in Calls PROVE CallInv(d)'
    <2>1. /\ Served(d)' <=> Served(d)
          /\ HasRequired(d)' <=> HasRequired(d)
          /\ reply'[d] = reply[d] /\ earlier'[d] = earlier[d]
      BY <1>1 DEF Served, HasRequired, requestVars
    <2>2. \A e \in earlier'[d] : result'[e] = "success"
      BY <1>2, <1>4, <2>1 DEF IndInv, CallInv, Types
    <2>3. CASE d # c
      <3>1. /\ pc'[d] = pc[d] /\ result'[d] = result[d]
            /\ d \in inflight' <=> d \in inflight
        BY <1>1, <1>2, <2>3 DEF Types
      <3>2. CallInv(d)
        BY DEF IndInv
      <3> QED BY <2>1, <2>2, <3>1, <3>2 DEF CallInv, Untouched
    <2>4. CASE d = c
      <3>1. CASE pc[c] = "request" /\ pc'[c] = "waiting" /\ result'[c] = "none"
        BY <1>1, <1>2, <2>1, <2>2, <2>4, <3>1 DEF CallInv, Untouched
      <3>2. CASE inflight' = inflight /\ pc'[c] = "done" /\ result'[c] = "error"
        BY <1>1, <1>2, <2>1, <2>2, <2>4, <3>2 DEF CallInv, Untouched
      <3>3. CASE /\ inflight' = inflight /\ pc'[c] = "done"
                 /\ result'[c] = "success" /\ reply[c] \notin {"none", "status400"}
        <4>1. reply[c] \in {"ok", "cut"}
          BY <1>2, <3>3 DEF Types, Replies
        <4> QED BY <1>1, <1>2, <2>1, <2>2, <2>4, <3>3, <4>1 DEF CallInv, Untouched
      <3> QED BY <1>1, <1>2, <3>1, <3>2, <3>3 DEF Types
    <2> QED BY <2>3, <2>4
  <1>6. ServedOnce' /\ RealTimeOrder'
    BY <1>1 DEF IndInv, ServedOnce, RealTimeOrder
  <1> QED BY <1>3, <1>5, <1>6 DEF IndInv

(* The gateway acts on a request: its call comes last in the log.          *)
LEMMA ServeInv == ASSUME IndInv, NEW c \in Calls, Serve(c) PROVE IndInv'
  <1>1. Types /\ c \in inflight /\ ~Served(c) /\ HasRequired(c)
    BY DEF IndInv, CallInv, Serve
  <1>2. /\ served' = Append(served, c) /\ inflight' = inflight \ {c}
        /\ \E r \in Replies : reply' = [reply EXCEPT ![c] = r]
        /\ UNCHANGED <<requestVars, pc, result, earlier>>
    BY DEF Serve
  <1>3. /\ DOMAIN served = 1..Len(served) /\ Len(served) \in Nat
        /\ DOMAIN served' = 1..(Len(served) + 1)
        /\ \A i \in DOMAIN served : i # Len(served) + 1 /\ served'[i] = served[i]
        /\ served'[Len(served) + 1] = c
    BY <1>1, <1>2 DEF Types
  <1>4. Types'
    BY <1>1, <1>2 DEF Types, requestVars
  <1>5. \A d \in Calls : Served(d)' <=> (Served(d) \/ d = c)
    BY <1>3 DEF Served
  <1>6. ASSUME NEW d \in Calls PROVE CallInv(d)'
    <2>1. CallInv(d) /\ CallInv(c)
      BY DEF IndInv
    <2>2. HasRequired(d)' <=> HasRequired(d)
      BY <1>2 DEF HasRequired, requestVars
    <2>3. CASE d # c
      <3>1. reply'[d] = reply[d]
        BY <1>1, <1>2, <2>3 DEF Types
      <3> QED BY <1>2, <1>5, <2>1, <2>2, <2>3, <3>1 DEF CallInv, Untouched
    <2>4. CASE d = c
      <3>1. Served(c)'
        BY <1>5
      <3>2. pc[c] \notin {"idle", "request"} /\ result[c] # "refused"
        BY <1>1, <2>1 DEF CallInv, Untouched
      <3> QED BY <1>1, <1>2, <2>1, <2>2, <2>4, <3>1, <3>2 DEF CallInv
    <2> QED BY <2>3, <2>4
  <1>7. ServedOnce'
    <2> SUFFICES ASSUME NEW i \in DOMAIN served', NEW j \in DOMAIN served',
                        served'[i] = served'[j]
                 PROVE  i = j
      BY DEF ServedOnce
    <2>1. \A k \in DOMAIN served : served[k] # c
      BY <1>1 DEF Served
    <2>2. CASE i \in DOMAIN served /\ j \in DOMAIN served
      BY <1>3, <2>2 DEF IndInv, ServedOnce
    <2> QED BY <1>3, <2>1, <2>2
  <1>8. RealTimeOrder'
    <2> SUFFICES ASSUME NEW d \in Calls, NEW e \in earlier[d]
                 PROVE  /\ \E i \in DOMAIN served' : served'[i] = e
                        /\ \A i, j \in DOMAIN served' :
                              (served'[i] = e /\ served'[j] = d) => i < j
      BY <1>2 DEF RealTimeOrder
    <2>1. /\ \E i \in DOMAIN served : served[i] = e
          /\ \A i, j \in DOMAIN served :
                (served[i] = e /\ served[j] = d) => i < j
      BY DEF IndInv, RealTimeOrder
    <2>2. e # c
      BY <1>1, <2>1 DEF Served
    <2> QED BY <1>3, <2>1, <2>2
  <1> QED BY <1>4, <1>6, <1>7, <1>8 DEF IndInv

(* A request that is turned down or lost leaves the log alone.             *)
LEMMA DropInv ==
  ASSUME IndInv, NEW c \in Calls, Reject(c) \/ Lose(c) PROVE IndInv'
  <1>1. Types /\ c \in inflight /\ reply[c] = "none"
    BY DEF IndInv, CallInv, Reject, Lose
  <1>2. /\ inflight' = inflight \ {c}
        /\ reply' = [reply EXCEPT ![c] = "status400"] \/ UNCHANGED reply
        /\ UNCHANGED <<requestVars, pc, served, result, earlier>>
    BY DEF Reject, Lose
  <1>3. Types'
    BY <1>1, <1>2 DEF Types, requestVars, Replies
  <1>4. ASSUME NEW d \in Calls PROVE CallInv(d)'
    <2>1. CallInv(d) /\ CallInv(c)
      BY DEF IndInv
    <2>2. (HasRequired(d)' <=> HasRequired(d)) /\ (Served(d)' <=> Served(d))
      BY <1>2 DEF HasRequired, Served, requestVars
    <2>3. CASE d # c
      <3>1. reply'[d] = reply[d]
        BY <1>1, <1>2, <2>3 DEF Types
      <3> QED BY <1>2, <2>1, <2>2, <2>3, <3>1 DEF CallInv, Untouched
    <2>4. CASE d = c
      <3>1. reply'[c] \in {"none", "status400"}
        BY <1>1, <1>2 DEF Types
      <3>2. pc[c] \notin {"idle", "request"} /\ result[c] # "refused"
        BY <1>1, <2>1 DEF CallInv, Untouched
      <3> QED BY <1>1, <1>2, <2>1, <2>2, <2>4, <3>1, <3>2 DEF CallInv
    <2> QED BY <2>3, <2>4
  <1>5. ServedOnce' /\ RealTimeOrder'
    BY <1>2 DEF IndInv, ServedOnce, RealTimeOrder
  <1> QED BY <1>3, <1>4, <1>5 DEF IndInv

(* Every step keeps the invariant.                                         *)
LEMMA IndInvNext == IndInv /\ [Next]_vars => IndInv'
  <1> SUFFICES ASSUME IndInv, [Next]_vars PROVE IndInv'
    OBVIOUS
  <1>1. CASE UNCHANGED vars
    BY <1>1 DEF IndInv, Types, CallInv, Untouched, Served, HasRequired, ServedOnce,
                RealTimeOrder, vars, requestVars
  <1>2. ASSUME NEW c \in Calls,
               Handle(c) \/ CallStep(c) \/ Serve(c) \/ Reject(c) \/ Lose(c)
        PROVE  IndInv'
    BY <1>2, HandleInv, CallStepInv, ServeInv, DropInv
  <1> QED BY <1>1, <1>2 DEF Next

(* The inductive invariant holds in every reachable state.                 *)
THEOREM Invariance == Spec => []IndInv
  BY IndInvInit, IndInvNext, PTL DEF Spec

(* Types, and no request without its required arguments.                   *)
THEOREM TypeCorrectness == Spec => []TypeOK
  BY Invariance, IndInvImplies, PTL

(* The gateway serves calls in the order their clients saw.                *)
THEOREM ServedInOrder == Spec => []RealTimeOrder
  BY Invariance, IndInvImplies, PTL

-----------------------------------------------------------------------------
(* What the schemas say, tool by tool: they require what the handlers      *)
(* insist on, and only memory_search has a limit that can be refused.      *)
Describes(s) ==
  /\ s.first \in {"required", "optional", "none"}
  /\ s.second \in {"required", "optional", "none"}
  /\ s.first = "required" <=> s.tool \in NeedsFirst
  /\ s.second = "required" <=> s.tool \in NeedsSecond
  /\ s.tool = "memory_search" => s.second = "optional"

LEMMA SchemasOfTools == \A s \in Schemas : Describes(s)
  <1> USE DEF Schema, NeedsFirst, NeedsSecond, Describes
  <1>1. \A s \in JobSchemas : Describes(s)
    BY DEF JobSchemas
  <1>2. \A s \in RoutineSchemas \union MemorySchemas : Describes(s)
    BY DEF RoutineSchemas, MemorySchemas
  <1>3. \A s \in WorkspaceMemorySchemas : Describes(s)
    BY DEF WorkspaceMemorySchemas
  <1>4. \A s \in SpawnSchemas \union TaskSchemas : Describes(s)
    BY DEF SpawnSchemas, TaskSchemas
  <1>5. \A s \in HealthSchemas \union ToolsSchemas : Describes(s)
    BY DEF HealthSchemas, ToolsSchemas
  <1> HIDE DEF Describes
  <1> QED BY <1>1, <1>2, <1>3, <1>4, <1>5 DEF Schemas

LEMMA OneSchemaPerTool ==
  \A s, u \in Schemas : s.tool = u.tool => s = u
  BY DEF Schemas, Schema, JobSchemas, RoutineSchemas, MemorySchemas, WorkspaceMemorySchemas,
         SpawnSchemas, TaskSchemas, HealthSchemas, ToolsSchemas

(* A call that has begun was refused exactly if it was not acceptable.     *)
Refusals == \A c \in Calls : pc[c] # "idle" => (result[c] = "refused" <=> ~Accepts(c))

LEMMA RefusalsNext ==
  ASSUME IndInv, Refusals, [Next]_vars PROVE Refusals'
  <1>1. ASSUME NEW c \in Calls, Handle(c) PROVE Refusals'
    <2>1. /\ UNCHANGED requestVars
          /\ \A d \in Calls \ {c} : pc'[d] = pc[d] /\ result'[d] = result[d]
          /\ result'[c] = "refused" <=> ~Accepts(c)
      BY <1>1 DEF Handle, Goto, Return, IndInv, Types, CallInv
    <2> QED BY <2>1 DEF Refusals, Accepts, requestVars
  <1>2. ASSUME NEW c \in Calls, CallStep(c) PROVE Refusals'
    <2>1. /\ UNCHANGED requestVars /\ pc[c] \in {"request", "waiting"}
          /\ \A d \in Calls \ {c} : pc'[d] = pc[d] /\ result'[d] = result[d]
          /\ result'[c] \in {result[c], "error", "success"}
      BY <1>2 DEF CallStep, Request, SendRequest, Receive, Outcome, Unanswered,
                  GiveUp, Return, Goto, IndInv, Types
    <2>2. result[c] = "none"
      BY <2>1 DEF IndInv, CallInv
    <2>3. Accepts(c)
      BY <2>1, <2>2 DEF Refusals
    <2> QED BY <2>1, <2>2, <2>3 DEF Refusals, Accepts, requestVars
  <1>3. CASE UNCHANGED <<requestVars, pc, result>>
    BY <1>3 DEF Refusals, Accepts, requestVars
  <1> QED BY <1>1, <1>2, <1>3 DEF Next, Serve, Reject, Lose, vars

(* Where the handlers and the schemas part, which a client that goes by    *)
(* the schemas cannot know.                                                *)
StricterThanSchema(c) ==
  \/ tool[c] \in NeedsFirst /\ first[c] = "empty"
  \/ tool[c] \in NeedsSecond /\ second[c] = "empty"
  \/ tool[c] = "memory_search" /\ second[c] \in Texts \ PositiveTexts

LaxerThanSchema(c) ==
  \E s \in Schemas : /\ s.tool = tool[c]
                     /\ \/ s.first = "optional" /\ first[c] = "notString"
                        \/ s.second = "optional" /\ second[c] = "notString"

(* A call that meets its schema is refused exactly for an empty string in  *)
(* a required argument or for a limit of memory_search that is no positive *)
(* number; a call that does not is let through only if what is wrong is an *)
(* optional argument that is no string (interfaces.go:38-62).              *)
THEOREM RefusalsAgainstSchemas ==
  Spec => [](\A c \in Calls : pc[c] # "idle" =>
               /\ MeetsSchema(c) => (result[c] = "refused" <=> StricterThanSchema(c))
               /\ ~MeetsSchema(c) /\ result[c] # "refused" => LaxerThanSchema(c))
  <1> DEFINE Gap(c) == pc[c] # "idle" =>
               /\ MeetsSchema(c) => (result[c] = "refused" <=> StricterThanSchema(c))
               /\ ~MeetsSchema(c) /\ result[c] # "refused" => LaxerThanSchema(c)
  <1>1. Init => Refusals
    BY DEF Init, Refusals
  <1>2. IndInv /\ Refusals => \A c \in Calls : Gap(c)
    <2> SUFFICES ASSUME IndInv, Refusals, NEW c \in Calls, pc[c] # "idle"
                 PROVE  Gap(c)
      OBVIOUS
    <2>1. first[c] \in Argument /\ second[c] \in Argument /\ tool[c] \in AllTools
      BY ToolsAssumption DEF IndInv, Types
    <2>2. PICK s \in Schemas : s.tool = tool[c]
      BY <2>1 DEF AllTools, Schemas, Schema, JobSchemas, RoutineSchemas, MemorySchemas,
                  WorkspaceMemorySchemas, SpawnSchemas, TaskSchemas, HealthSchemas, ToolsSchemas
    <2>3. MeetsSchema(c) <=>
             first[c] \in Admitted[s.first] /\ second[c] \in Admitted[s.second]
      BY <2>2, OneSchemaPerTool DEF MeetsSchema
    <2>4. Describes(s)
      BY SchemasOfTools
    <2>5. LimitAccepted(second[c]) <=> second[c] \notin Texts \ PositiveTexts
      BY TextsAssumption DEF LimitAccepted, OptionalString
    <2>6. Accepts(c) <=>
            /\ s.first = "required" => first[c] \in Texts
            /\ s.second = "required" => second[c] \in Texts
            /\ s.tool = "memory_search" => second[c] \notin Texts \ PositiveTexts
      BY <2>2, <2>4, <2>5 DEF Describes, Accepts, RequiredString
    <2>7. result[c] = "refused" <=> ~Accepts(c)
      BY DEF Refusals
    <2>8. MeetsSchema(c) => (~Accepts(c) <=> StricterThanSchema(c))
      BY <2>1, <2>2, <2>3, <2>4, <2>6, TextsAssumption
      DEF Describes, Admitted, Argument, StricterThanSchema
    <2>9. ~MeetsSchema(c) /\ Accepts(c) => LaxerThanSchema(c)
      BY <2>1, <2>2, <2>3, <2>4, <2>6, TextsAssumption
      DEF Describes, Admitted, Argument, LaxerThanSchema
    <2> QED BY <2>7, <2>8, <2>9
  <1>3. IndInv /\ Refusals /\ [Next]_vars => Refusals'
    BY RefusalsNext
  <1> QED BY <1>1, <1>2, <1>3, Invariance, PTL DEF Spec

-----------------------------------------------------------------------------
(* Refinement.  The abstract status of a call moves with its pc and result.*)
LEMMA StatusOf ==
  ASSUME IndInv, IndInv',
         NEW c \in Calls,
         \A d \in Calls \ {c} : pc'[d] = pc[d] /\ result'[d] = result[d]
  PROVE  [d \in Calls |-> Status(d)]'
            = [[d \in Calls |-> Status(d)] EXCEPT ![c] = Status(c)']
  BY DEF Status

(* A step of the bridge, the network or the gateway is a step of the       *)
(* promise, or changes nothing that the promise is about.                  *)
LEMMA StepRefines ==
  ASSUME IndInv, IndInv', [Next]_vars PROVE [Promise!Next]_(Promise!vars)
  <1> DEFINE S == [d \in Calls |-> Status(d)]
  <1>1. CASE UNCHANGED vars
    BY <1>1 DEF vars, Promise!vars, Status
  <1>2. ASSUME NEW c \in Calls, Handle(c)
        PROVE  Promise!Begin(c) \/ Promise!Refuse(c)
    <2>1. /\ pc[c] = "idle" /\ UNCHANGED served
          /\ \A d \in Calls \ {c} : pc'[d] = pc[d] /\ result'[d] = result[d]
          /\ \/ pc'[c] = "request"
             \/ pc'[c] = "done" /\ result'[c] = "refused"
      BY <1>2 DEF Handle, Goto, Return, IndInv, Types
    <2>2. S' = [S EXCEPT ![c] = Status(c)']
      BY <2>1, StatusOf
    <2>3. S[c] = "new" /\ Status(c)' \in {"open", "refused"}
      BY <2>1 DEF Status
    <2> QED BY <2>1, <2>2, <2>3 DEF Promise!Begin, Promise!Refuse, Promise!Move
  <1>3. ASSUME NEW c \in Calls, CallStep(c)
        PROVE  Promise!Fail(c) \/ Promise!Succeed(c) \/ UNCHANGED Promise!vars
    <2>1. /\ pc[c] \in {"request", "waiting"} /\ UNCHANGED served
          /\ \A d \in Calls \ {c} : pc'[d] = pc[d] /\ result'[d] = result[d]
          /\ \/ pc'[c] = "waiting"
             \/ pc'[c] = "done" /\ result'[c] \in {"error", "success"}
      BY <1>3 DEF CallStep, Request, SendRequest, Receive, Outcome, Unanswered,
                  GiveUp, Return, Goto, IndInv, Types
    <2>2. S' = [S EXCEPT ![c] = Status(c)']
      BY <2>1, StatusOf
    <2>3. S[c] = "open" /\ Status(c)' \in {"open", "error", "success"}
      BY <2>1 DEF Status
    <2>4. Status(c)' = "success" => Served(c)
      <3>1. Status(c)' = "success" => result'[c] = "success"
        BY <2>1 DEF Status
      <3>2. result'[c] = "success" => Served(c)'
        BY DEF IndInv, CallInv
      <3> QED BY <2>1, <3>1, <3>2 DEF Served
    <2>5. CASE Status(c)' = "open"
      <3>1. S' = S
        BY <2>2, <2>3, <2>5
      <3> QED BY <2>1, <3>1 DEF Promise!vars
    <2>6. CASE Status(c)' = "error"
      BY <2>1, <2>2, <2>3, <2>6 DEF Promise!Fail, Promise!Move
    <2>7. CASE Status(c)' = "success"
      BY <2>1, <2>2, <2>3, <2>4, <2>7
         DEF Promise!Succeed, Promise!Move, Promise!Served, Served
    <2> QED BY <2>3, <2>5, <2>6, <2>7
  <1>4. ASSUME NEW c \in Calls, Serve(c) PROVE Promise!Serve(c)
    <2>1. served' = Append(served, c) /\ UNCHANGED <<pc, result>> /\ ~Served(c)
      BY <1>4 DEF Serve, IndInv, CallInv
    <2>2. /\ pc[c] \notin {"idle", "request"} /\ result[c] # "refused"
          /\ pc[c] = "done" <=> result[c] # "none"
      BY <1>4 DEF Serve, IndInv, CallInv, Untouched
    <2>3. result[c] # "success"
      BY <2>1 DEF IndInv, CallInv
    <2>4. S[c] \in {"open", "error"}
      BY <2>2, <2>3 DEF Status, IndInv, Types
    <2>5. S' = S
      BY <2>1 DEF Status
    <2> QED BY <2>1, <2>4, <2>5 DEF Promise!Serve, Promise!Served, Served
  <1>5. ASSUME NEW c \in Calls, Reject(c) \/ Lose(c) PROVE UNCHANGED Promise!vars
    BY <1>5 DEF Reject, Lose, Promise!vars, Status
  <1> QED BY <1>1, <1>2, <1>3, <1>4, <1>5 DEF Next, Promise!Next

(* The bridge implements AtMostOnce: success means served once while the   *)
(* call was open, a refused call is never served, none is served twice.    *)
THEOREM Refinement == Spec => KeepsPromise
  <1>1. Init => Promise!Init
    BY DEF Init, Promise!Init, Status
  <1>2. IndInv /\ IndInv' /\ [Next]_vars => [Promise!Next]_(Promise!vars)
    BY StepRefines
  <1> QED BY <1>1, <1>2, Invariance, PTL DEF Spec, KeepsPromise, Promise!Spec
=============================================================================

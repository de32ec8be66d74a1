-------------------------------- MODULE Chat --------------------------------
(***************************************************************************)
(* Client.Chat of internal/helixon/client.go: any number of chat calls run *)
(* at once against one Helixon gateway.  A call resolves a thread, reads   *)
(* its history, posts its message and polls the history until a turn that  *)
(* matches the message has an answer.  The gateway, which is not part of   *)
(* the repository, opens the turn of an accepted message some time later,  *)
(* and other clients write to the same threads.                            *)
(*                                                                         *)
(* Here and in the other modules, an operator marked as a variant is what  *)
(* the code does NOT do: a slip in the definition below it, which some     *)
(* property must exclude.                                                  *)
(***************************************************************************)
EXTENDS Naturals, Sequences

CONSTANTS
    Calls,          \* the invocations of Client.Chat
    Threads,        \* the ids the gateway can give to threads
    Messages,       \* the texts a user can send
    HistoryLimit,   \* turns asked for before sending (100 in the code)
    PollSlack,      \* turns a poll asks for beyond the initial ones (10)
    MaxTurns,       \* bound: turns a thread can hold
    MaxFaults,      \* bound: requests that fail while the context is live
    Updates,        \* bound: what can become of an open turn
    NoThread,       \* the empty thread id
    Other           \* the author of turns no call has asked for

ASSUME LimitsAssumption == HistoryLimit \in Nat \ {0} /\ PollSlack \in Nat
ASSUME BoundsAssumption == MaxTurns \in Nat /\ MaxFaults \in Nat
ASSUME NamesAssumption == NoThread \notin Threads /\ Other \notin Calls

VARIABLES
    (* the gateway *)
    turns,      \* turns[t]: the turns of thread t, oldest first
    inbox,      \* calls whose message reached the gateway and has no turn yet
    listed,     \* the threads that exist
    assistant,  \* the assistant thread, or NoThread
    active,     \* the active thread, or NoThread
    creator,    \* creator[t]: the call that created t, or Other
    faults,     \* requests that failed so far although the context was live
    (* the calls *)
    message, session,   \* the ChatRequest
    pc,                 \* where the call is
    ctxDone,            \* the context the call now uses is done
    thread,             \* threadID
    initialTurnCount,   \* len(initialHistory.Turns)
    before,             \* history variable: the length of the thread then
    outcome,            \* what the call returned
    answeredAt          \* the turn whose response it returned, or 0

(* Failed stands for Cancelled too: the code never tells them apart.       *)
TurnStates == {"Processing", "Completed", "Failed"}

(* What can become of an open turn: it ends, or stays open with a part of  *)
(* its response, and has a response or none, whatever its state.           *)
AllUpdates == [state: TurnStates, response: BOOLEAN]

ASSUME UpdatesAssumption == Updates \subseteq AllUpdates

gatewayVars == <<turns, inbox, listed, assistant, active, creator>>
requestVars == <<message, session>>
vars == <<gatewayVars, requestVars, faults, pc, ctxDone, thread,
          initialTurnCount, before, outcome, answeredAt>>

(* historyTurn: response says whether a non-empty response is present; by, *)
(* the author, is known to the gateway only.                               *)
Turn == [input: Messages, by: Calls \union {Other}, state: TurnStates,
         response: BOOLEAN]

Running == {"list", "create", "load", "send", "poll", "wait"}

(* The labels at which a call uses its thread id.                          *)
InThread == {"load", "send", "poll", "wait"}

Types ==
    /\ turns \in [Threads -> Seq(Turn)]
    /\ inbox \subseteq Calls
    /\ listed \subseteq Threads
    /\ assistant \in Threads \union {NoThread}
    /\ active \in Threads \union {NoThread}
    /\ creator \in [Threads -> Calls \union {Other}]
    /\ faults \in 0..MaxFaults
    /\ message \in [Calls -> Messages]
    /\ session \in [Calls -> Threads \union {NoThread}]
    /\ pc \in [Calls -> Running \union {"idle", "done"}]
    /\ ctxDone \in [Calls -> BOOLEAN]
    /\ thread \in [Calls -> Threads \union {NoThread}]
    /\ initialTurnCount \in [Calls -> Nat]
    /\ before \in [Calls -> Nat]
    /\ outcome \in [Calls -> {"none", "answer", "error"}]
    /\ answeredAt \in [Calls -> Nat]

(* Every variable has its type, and no request for a thread is made with   *)
(* the empty id, which the gateway would take for its default thread       *)
(* (client.go:576-614).                                                    *)
TypeOK == Types /\ \A c \in Calls : pc[c] \in InThread => thread[c] # NoThread

-----------------------------------------------------------------------------
(* What the code computes from a history. *)

(* The gateway's reply to GET /api/chat/history: the newest limit turns.   *)
RecentTurns(ts, limit) ==
    IF Len(ts) <= limit THEN ts ELSE SubSeq(ts, Len(ts) - limit + 1, Len(ts))

(* terminalTurnError, as findMatchingTurnResponse reaches it.              *)
IsTerminalError(turn) == turn.state = "Failed"

(* Variant: old turns count too.                                           *)
AnyDecisiveTurn(ts, count, msg) ==
    {i \in DOMAIN ts : ts[i].input = msg /\ (ts[i].response \/ IsTerminalError(ts[i]))}
(* Variant: the text is not compared.                                      *)
AnyNewDecisiveTurn(ts, count, msg) ==
    {i \in DOMAIN ts : i > count /\ (ts[i].response \/ IsTerminalError(ts[i]))}
(* Variant: one turn too many is old.                                      *)
LaterDecisiveTurns(ts, count, msg) ==
    {i \in AnyDecisiveTurn(ts, count, msg) : i > count + 1}
(* The turns of the reply that end the scan: the others are passed over.   *)
DecisiveTurns(ts, count, msg) ==
    {i \in DOMAIN ts : /\ i > count
                       /\ ts[i].input = msg
                       /\ ts[i].response \/ IsTerminalError(ts[i])}

(* Variant: the scan begins at the oldest turn.                            *)
FindOldestTurn(ts, count, msg) ==
    {i \in DecisiveTurns(ts, count, msg) :
        \A j \in DecisiveTurns(ts, count, msg) : i <= j}
(* findMatchingTurnResponse: the position of the turn the scan, from the   *)
(* newest turn down, stops at; empty when it finds none.                   *)
FindMatchingTurn(ts, count, msg) ==
    {i \in DecisiveTurns(ts, count, msg) :
        \A j \in DecisiveTurns(ts, count, msg) : j <= i}

-----------------------------------------------------------------------------
Init ==
    /\ turns = [t \in Threads |-> << >>]
    /\ inbox = {}
    /\ listed \in SUBSET Threads
    /\ assistant \in listed \union {NoThread}
    /\ active \in listed \union {NoThread}
    /\ creator = [t \in Threads |-> Other]
    /\ faults = 0
    /\ message \in [Calls -> Messages]
    /\ session \in [Calls -> Threads \union {NoThread}]
    /\ pc = [c \in Calls |-> "idle"]
    /\ ctxDone = [c \in Calls |-> FALSE]
    /\ thread = [c \in Calls |-> NoThread]
    /\ initialTurnCount = [c \in Calls |-> 0]
    /\ before = [c \in Calls |-> 0]
    /\ outcome = [c \in Calls |-> "none"]
    /\ answeredAt = [c \in Calls |-> 0]

Goto(c, label) == pc' = [pc EXCEPT ![c] = label]

Fail(c) == Goto(c, "done") /\ outcome' = [outcome EXCEPT ![c] = "error"]

(* A request made under a live context gets its reply ...                  *)
RequestSucceeds(c) == ~ctxDone[c] /\ UNCHANGED faults

(* ... or fails: at once when the context is done, else for a reason of    *)
(* the network or the gateway (refusal, status >= 400, undecodable body).  *)
RequestFails(c) ==
    \/ ctxDone[c] /\ UNCHANGED faults
    \/ ~ctxDone[c] /\ faults < MaxFaults /\ faults' = faults + 1

-----------------------------------------------------------------------------
(* The steps of a call. *)

(* The tool call arrives; a session id is the thread id.                   *)
Start(c) ==
    /\ pc[c] = "idle"
    /\ thread' = [thread EXCEPT ![c] = session[c]]
    /\ Goto(c, IF session[c] # NoThread THEN "load" ELSE "list")
    /\ UNCHANGED <<gatewayVars, requestVars, faults, ctxDone, initialTurnCount,
                   before, outcome, answeredAt>>

(* Variant: the assistant thread and the list are forgotten.               *)
OnlyActiveThread == IF active # NoThread THEN {active} ELSE {}
(* The thread ids pickExistingThreadID may select from the thread list.    *)
ExistingThreads ==
    IF assistant # NoThread THEN {assistant}
    ELSE IF active # NoThread THEN {active}
    ELSE listed

(* pickExistingThreadID: a failed list request counts as an empty list.    *)
ListThreads(c) ==
    /\ pc[c] = "list"
    /\ \/ /\ RequestSucceeds(c)
          /\ \/ \E t \in ExistingThreads :
                   thread' = [thread EXCEPT ![c] = t] /\ Goto(c, "load")
             \/ ExistingThreads = {} /\ Goto(c, "create") /\ UNCHANGED thread
       \/ RequestFails(c) /\ Goto(c, "create") /\ UNCHANGED thread
    /\ UNCHANGED <<gatewayVars, requestVars, ctxDone, initialTurnCount, before,
                   outcome, answeredAt>>

NewThread(c, t) ==
    /\ t \notin listed
    /\ listed' = listed \union {t}
    /\ creator' = [creator EXCEPT ![t] = c]
    /\ active' \in {active, t}
    /\ UNCHANGED <<turns, inbox, assistant>>

(* Variant: an empty id is used.                                           *)
UseAnyId(c, id) ==
    thread' = [thread EXCEPT ![c] = id] /\ Goto(c, "load") /\ UNCHANGED outcome
(* A reply without an id is an error.                                      *)
UseNewThread(c, id) ==
    \/ /\ id # NoThread
       /\ thread' = [thread EXCEPT ![c] = id]
       /\ Goto(c, "load")
       /\ UNCHANGED outcome
    \/ id = NoThread /\ Fail(c) /\ UNCHANGED thread

(* createNewThread: the reply can be lost after the thread was made.  The  *)
(* gateway refuses when it has no thread left to give.                     *)
CreateThread(c) ==
    /\ pc[c] = "create"
    /\ \/ \E t \in Threads, id \in Threads \union {NoThread} :
             /\ id \in {t, NoThread}
             /\ RequestSucceeds(c)
             /\ NewThread(c, t)
             /\ UseNewThread(c, id)
       \/ /\ \/ \E t \in Threads : ~ctxDone[c] /\ NewThread(c, t)
             \/ UNCHANGED gatewayVars
          /\ RequestFails(c) \/ (listed = Threads /\ UNCHANGED faults)
          /\ Fail(c)
          /\ UNCHANGED thread
    /\ UNCHANGED <<requestVars, ctxDone, initialTurnCount, before, answeredAt>>

(* Chat reads the history before it sends, to know which turns are old.    *)
LoadHistory(c) ==
    /\ pc[c] = "load"
    /\ \/ /\ RequestSucceeds(c)
          /\ thread[c] \in listed
          /\ LET ts == turns[thread[c]]
             IN  /\ initialTurnCount' = [initialTurnCount EXCEPT
                          ![c] = Len(RecentTurns(ts, HistoryLimit))]
                 /\ before' = [before EXCEPT ![c] = Len(ts)]
          /\ Goto(c, "send")
          /\ UNCHANGED outcome
       \/ /\ RequestFails(c) \/ (thread[c] \notin listed /\ UNCHANGED faults)
          /\ Fail(c)
          /\ UNCHANGED <<initialTurnCount, before>>
    /\ UNCHANGED <<gatewayVars, requestVars, ctxDone, thread, answeredAt>>

(* Variant: an error of the send is not looked at.                         *)
IgnoreSendError(c) == Goto(c, "poll") /\ UNCHANGED outcome
(* Chat returns the error of a send that failed.                           *)
SendFails(c) == Fail(c)

(* POST /api/chat/send: accepted; or the reply is lost, and the gateway    *)
(* has the message all the same; or it never got there.                    *)
Send(c) ==
    /\ pc[c] = "send"
    /\ \/ /\ RequestSucceeds(c)
          /\ inbox' = inbox \union {c}
          /\ Goto(c, "poll")
          /\ UNCHANGED outcome
       \/ /\ ~ctxDone[c]
          /\ RequestFails(c)
          /\ inbox' = inbox \union {c}
          /\ SendFails(c)
       \/ RequestFails(c) /\ SendFails(c) /\ UNCHANGED inbox
    /\ UNCHANGED <<turns, listed, assistant, active, creator, requestVars,
                   ctxDone, thread, initialTurnCount, before, answeredAt>>

(* Variant: a failed poll sends the message again.                         *)
SendAgain(c) == Goto(c, "send") /\ UNCHANGED <<outcome, answeredAt>>
(* A poll that fails ends the call.                                        *)
PollFails(c) == Fail(c) /\ UNCHANGED answeredAt

(* One round of the loop of waitForChatResponse: a reply is scanned for    *)
(* the answer, and any failing request ends the call.                      *)
Poll(c) ==
    /\ pc[c] = "poll"
    /\ \/ /\ RequestSucceeds(c)
          /\ LET ts    == turns[thread[c]]
                 reply == RecentTurns(ts, initialTurnCount[c] + PollSlack)
                 found == FindMatchingTurn(reply, initialTurnCount[c],
                                           message[c])
             IN  \/ /\ found = {}
                    /\ Goto(c, "wait")
                    /\ UNCHANGED <<outcome, answeredAt>>
                 \/ \E i \in found :
                    /\ reply[i].response
                    /\ Goto(c, "done")
                    /\ outcome' = [outcome EXCEPT ![c] = "answer"]
                    /\ answeredAt' = [answeredAt EXCEPT
                                        ![c] = Len(ts) - Len(reply) + i]
                 \/ \E i \in found : ~reply[i].response /\ PollFails(c)
       \/ RequestFails(c) /\ PollFails(c)
    /\ UNCHANGED <<gatewayVars, requestVars, ctxDone, thread, initialTurnCount,
                   before>>

(* The select of waitForChatResponse: the ticker can win even when the     *)
(* context is done too.                                                    *)
WaitTick(c) ==
    /\ pc[c] = "wait"
    /\ Goto(c, "poll")
    /\ UNCHANGED <<gatewayVars, requestVars, faults, ctxDone, thread,
                   initialTurnCount, before, outcome, answeredAt>>

WaitDone(c) ==
    /\ pc[c] = "wait"
    /\ ctxDone[c]
    /\ Fail(c)
    /\ UNCHANGED <<gatewayVars, requestVars, faults, ctxDone, thread,
                   initialTurnCount, before, answeredAt>>

EndContext(c) ==
    /\ ~ctxDone[c]
    /\ ctxDone' = [ctxDone EXCEPT ![c] = TRUE]
    /\ UNCHANGED <<gatewayVars, requestVars, faults, pc, thread,
                   initialTurnCount, before, outcome, answeredAt>>

(* The MCP client goes away or the server stops.                           *)
Cancel(c) == pc[c] \in Running /\ EndContext(c)

(* Variant: polling has no deadline.                                       *)
NoDeadline(c) == FALSE
(* The deadline of pollCtx, set when waitForChatResponse begins.           *)
Timeout(c) == pc[c] \in {"poll", "wait"} /\ EndContext(c)

-----------------------------------------------------------------------------
(* The gateway, external to the repository. *)

OpenTurn(t, m, author) ==
    /\ Len(turns[t]) < MaxTurns
    /\ turns' = [turns EXCEPT ![t] = Append(@,
            [input |-> m, by |-> author, state |-> "Processing",
             response |-> FALSE])]
    /\ UNCHANGED <<listed, assistant, active, creator, requestVars, faults, pc,
                   ctxDone, thread, initialTurnCount, before, outcome,
                   answeredAt>>

BeginTurn(c) ==
    /\ c \in inbox
    /\ inbox' = inbox \ {c}
    /\ OpenTurn(thread[c], message[c], c)

OtherTurn(t, m) == t \in listed /\ UNCHANGED inbox /\ OpenTurn(t, m, Other)

(* It writes a part of a response, or ends the turn.  What is written of a *)
(* response is not taken back, only added to.                              *)
UpdateTurn(t, i) ==
    /\ turns[t][i].state = "Processing"
    /\ \E e \in Updates :
          /\ turns[t][i].response => e.response
          /\ turns' = [turns EXCEPT ![t][i].state = e.state,
                                    ![t][i].response = e.response]
    /\ UNCHANGED <<inbox, listed, assistant, active, creator, requestVars,
                   faults, pc, ctxDone, thread, initialTurnCount, before,
                   outcome, answeredAt>>

Gateway ==
    \/ \E c \in Calls : BeginTurn(c)
    \/ \E t \in Threads, m \in Messages : OtherTurn(t, m)
    \/ \E t \in Threads : \E i \in DOMAIN turns[t] : UpdateTurn(t, i)

-----------------------------------------------------------------------------
CallStep(c) ==
    \/ ListThreads(c) \/ CreateThread(c) \/ LoadHistory(c)
    \/ Send(c) \/ Poll(c) \/ WaitTick(c) \/ WaitDone(c)

Next ==
    \/ \E c \in Calls : Start(c) \/ CallStep(c) \/ Cancel(c) \/ Timeout(c)
    \/ Gateway

Spec == Init /\ [][Next]_vars

(* Every request returns, since http.Client has a timeout; the ticker      *)
(* ticks; the deadline of pollCtx comes.  The gateway owes nothing.        *)
Fairness == \A c \in Calls : WF_vars(CallStep(c)) /\ WF_vars(Timeout(c))

FairSpec == Spec /\ Fairness

-----------------------------------------------------------------------------
(* Safety. *)

Answered(c) == outcome[c] = "answer"
AnswerOf(c) == turns[thread[c]][answeredAt[c]]

(* Every message is posted at most once, in the thread and with the text   *)
(* of its call, and after the turns the call saw as old: polling, failing  *)
(* and giving up never post it again (client.go:322-333).                  *)
PostedOnce ==
    \A t \in Threads : \A i \in DOMAIN turns[t] :
        LET c == turns[t][i].by
        IN  c # Other =>
               /\ c \notin inbox
               /\ t = thread[c] /\ i > before[c]
               /\ turns[t][i].input = message[c]
               /\ \A u \in Threads : \A j \in DOMAIN turns[u] :
                     turns[u][j].by = c => u = t /\ j = i

(* The response a call returns is the response of a turn with its own text *)
(* in its own thread; and when the whole thread fitted in the history read *)
(* before sending, that turn was opened after this read: never an answer   *)
(* given earlier (client.go:317, 641, 666-673).                            *)
FreshMatch ==
    \A c \in Calls : Answered(c) =>
        /\ answeredAt[c] \in DOMAIN turns[thread[c]]
        /\ AnswerOf(c).input = message[c] /\ AnswerOf(c).response
        /\ before[c] <= HistoryLimit => answeredAt[c] > before[c]

(* A call gets the answer to its own turn unless somebody else sent the    *)
(* same text to the same thread after the call read the history, or the    *)
(* thread was longer than that read.                                       *)
Uncontended(c) ==
    \A i \in DOMAIN turns[thread[c]] :
        (i > before[c] /\ turns[thread[c]][i].input = message[c])
            => turns[thread[c]][i].by = c
OwnAnswer ==
    \A c \in Calls :
        (Answered(c) /\ before[c] <= HistoryLimit /\ Uncontended(c))
            => AnswerOf(c).by = c

(* A thread is created by at most one call and a call creates at most one; *)
(* only calls without a session do, and, when the gateway has an assistant *)
(* thread, only those whose request to list the threads failed             *)
(* (client.go:576-603).                                                    *)
ThreadCreation ==
    \A t \in Threads : LET c == creator[t] IN c # Other =>
        /\ session[c] = NoThread
        /\ assistant # NoThread => faults > 0
        /\ \A u \in Threads : creator[u] = c => u = t

(* A poll that finds nothing misses nothing: a call goes on waiting only   *)
(* if none of the PollSlack newest turns, opened since it read the         *)
(* history, matches and has a response (client.go:641, 646).               *)
NoMissedAnswer ==
    [][\A c \in Calls : (pc[c] = "poll" /\ pc'[c] = "wait") =>
          \A i \in DOMAIN turns[thread[c]] :
             (/\ i > before[c]
              /\ i > Len(turns[thread[c]]) - PollSlack
              /\ turns[thread[c]][i].input = message[c])
                => ~turns[thread[c]][i].response]_vars

(* The same scan bounds what a call can be mistaken about: the turn whose  *)
(* response it returns is the newest with a response to its text, and one  *)
(* of the PollSlack newest turns of all, also in a thread that outgrew the *)
(* history read (client.go:641, 666-673).                                  *)
NewestAnswer ==
    [][\A c \in Calls : (pc[c] = "poll" /\ outcome'[c] = "answer") =>
          LET ts == turns[thread[c]] IN
          /\ answeredAt'[c] > Len(ts) - PollSlack
          /\ \A i \in DOMAIN ts :
                (ts[i].input = message[c] /\ ts[i].response) => i <= answeredAt'[c]]_vars

(* A call as its MCP client sees it.                                       *)
ChatStatus(c) ==
    IF pc[c] = "idle" THEN "new"
    ELSE IF pc[c] # "done" THEN "open"
    ELSE IF outcome[c] = "answer" THEN "answered" ELSE "failed"

Talk == INSTANCE Conversation WITH
    Window <- HistoryLimit, Slack <- PollSlack,
    status <- [c \in Calls |-> ChatStatus(c)],
    place <- thread, mark <- before, answer <- answeredAt, pending <- inbox

(* Chat implements Conversation: lost replies, failed polls and a late     *)
(* gateway make it neither post twice, nor after it has returned, nor      *)
(* answer before it has posted, nor with another response than promised    *)
(* (client.go:311-341, 616-696).                                           *)
ImplementsConversation == Talk!Spec

-----------------------------------------------------------------------------
(* Liveness. *)

(* Every call returns, whatever the gateway does with its message: the     *)
(* deadline of pollCtx ends the polling (client.go:631-634, 653-657).      *)
EveryCallReturns ==
    \A c \in Calls : pc[c] \in Running ~> pc[c] = "done"

-----------------------------------------------------------------------------
(* What comments of the code say and the code does not do. *)

(* client.go:64, "returned once the async Helixon chat turn has completed":*)
(* the turn whose response is returned is in state Completed.              *)
CompletedTurn ==
    [][\A c \in Calls : (pc[c] = "poll" /\ outcome'[c] = "answer") =>
          turns[thread[c]][answeredAt'[c]].state = "Completed"]_vars

(* client.go:310, "sends a message to Helixon, then polls history until a  *)
(* response is available": the response returned is to a turn opened after *)
(* the call read the history, never one given to an earlier message.       *)
AnswerIsNew == \A c \in Calls : Answered(c) => answeredAt[c] > before[c]
=============================================================================

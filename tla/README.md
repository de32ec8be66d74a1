# Verification of helixon-mcp

TLA+ models of the `helixon-mcp` bridge, the TLC runs that check them and TLAPS
proofs of the properties that matter most. Paths are relative to the repository
root; `client.go` is `internal/helixon/client.go`, `agentrace.go` is
`internal/agentrace/agentrace.go`.

## The system

`helixon-mcp` sits between MCP clients (stdio, or HTTP with SSE) and the Helixon
HTTP gateway. An MCP client calls a tool; a handler checks the arguments and calls
`helixon.Client`; the client makes one or more HTTP requests to the gateway; the
handler turns what comes back into a tool result. Tool calls run concurrently, and
several bridge processes can run in front of one gateway.

| Component | State | Operations | Interacts with |
|---|---|---|---|
| `cmd/helixon-mcp` | signal context, metrics goroutine | `run`: flags, configuration, client, server, metrics listener, signals | all below |
| `internal/config` | `Config` | `Load`, `validate` | environment |
| `internal/server` | registered tools, recorder, listener, the goroutine of `runSSE` | `New`, `Run`, `runSSE`, `Close` | mcp-go, `tools`, `agentrace`, other programs' ports |
| `internal/tools` | none | one handler per tool | `helixon.Client`, Prometheus |
| `internal/helixon` | base URL, HTTP client with a timeout | `Chat` and one method per endpoint | gateway, LLM router |
| `internal/agentrace` | file handle, mutex | `New`, `Record`, `Wrap`, `Close` | a log file shared by the user's processes |
| gateway, router, Prometheus, mcp-go | threads, turns, jobs, memory ... | external | |
| `scripts/`, `Makefile`, CI | none | developer tooling | |

What is hard about it:

- **Chat** (`client.go:310-341, 576-696`) is asynchronous. A message is posted, and
  the answer has to be recognised, by its text and its position in a sliding window
  of the history, among turns of other calls and other clients. Requests fail at
  any point; the deadline races with the ticker and with late answers.
- **One-request tools** change gateway state, and the reply can be lost or late.
- **Composite tools** put together answers of different moments, some missing.
- **The recorder** appends two writes per event to a file that other goroutines and
  other processes also write, and `Close` runs beside them.
- **Configuration** has numeric and textual edges, and is read twice.
- **The process** ends by a signal, an error, the end of its input or a kill, while
  calls run: `run`, the goroutine that shuts the server down, the metrics listener
  and the calls share it, and the request of a call that was cut off lives on.

What makes each component right, in short: Chat posts once and returns its own new
answer; a tool's success means that the gateway acted exactly once; a composite
result contains only what was true during the call and admits what is missing; the
log has one truthful line per call and never blocks a call; the server starts
with exactly the documented environments and listens where it says; a process ends
only for a reason and always when it is asked to; and, all together, what a call
made the gateway do is in the log unless its process ended under it.
`PROJECT.json` lists the hazards line by line.

## Modules

| Module | Models | Notes |
|---|---|---|
| `Chat` | `Client.Chat` with thread resolution, history read, send, polling | implements `Conversation`; gateway as an external environment |
| `Conversation` | abstract: what a chat promises its client | no code of its own |
| `ToolCalls` | 14 tools with one request each: argument checks, `Client.do`, network | implements `AtMostOnce` |
| `AtMostOnce` | abstract: what a call promises its client | no code of its own |
| `Status` | `AgentStatus`, `StackStatus`, `get_metrics` | the world changes between requests |
| `AgentTrace` | `Recorder` and its wrapping of every tool | several processes, one file |
| `Config` | `config.Load`, `main.run` up to serving, the addresses of `runSSE` | one start per behaviour |
| `Server` | `main.run` once it is configured, `Server.Run`, `runSSE`, its goroutine, the metrics listener | one process at a time, restarted |
| `Bridge` | a call from its client to the gateway and back | composes `Server`, `AgentTrace` and `ToolCalls`; implements `AtMostOnce` |
| `MC*` | instances for TLC | values, bounds, symmetry |
| `ChatProofs`, `ConversationProofs`, `ToolCallsProofs`, `StatusProofs`, `AgentTraceProofs`, `ConfigProofs`, `ServerProofs`, `BridgeProofs` | theorems | TLAPS |

An operator whose comment begins with *Variant* is not part of a model: it is a
plausible slip in the definition below it, kept to make sure that the properties
notice it.

### Chat

`pc[c]` is the place of call `c` in `Client.Chat`: `list` and `create`
(`resolveThreadID`), `load` (the first `getHistory`), `send`, `poll` and `wait` (the
loop of `waitForChatResponse`). `thread`, `initialTurnCount` are the variables of
the code. A text is a model value; a turn has a text, a state, and whether it has a
response. Positions matter and are kept: `RecentTurns` is the window that the
gateway returns for a limit, and `FindMatchingTurn` the scan of it from the newest
turn down to index `initialTurnCount`. `answeredAt` translates the position in the
window back to the thread; with `before`, `by` and `creator` it exists for the
properties only.

Failures: `RequestFails` stands for everything `Client.do` reports as an error
(refused, timed out, status 400 or more, undecodable), bounded by `MaxFaults` while
the context is live and unbounded once it is done. `Send` and `CreateThread` can
fail after the gateway did what was asked. The gateway opens the turn of an
accepted message at any later time, also after the call has given up; others write
to the same threads. An open turn can get a part of its response before it ends, and
the code returns such a part (`client.go:672`); `Updates` says which of this an
instance lets the gateway do, and no response is taken back. Since `Failed` and `Cancelled` are never told apart, one state
stands for both; the order of a thread list is abstracted to "some listed thread".
That the gateway returns the newest turns of a thread, oldest first, is an
assumption on it: `findMatchingTurnResponse` scans from the end for the newest.

`Conversation` is what is left of all this for an MCP client. A chat looks at a thread,
posts its message there at most once and only while it is open, and fails, or
answers with the newest response to its text: one that was opened after it looked,
or, in a thread longer than the `Window` it could see then, at most `Slack` turns
before. There are no requests, polls, thread lists or history windows in it. A lost
reply to `Send` shows as a chat that ends in the step in which its message is
accepted. The refinement mapping keeps the turns and the thread of a call, hides `pc`
behind `ChatStatus`, and takes the history variables `before` and `answeredAt` for
where the chat looked and what it answered. The bound on wrong answers, `Slack`, is the
10 of `client.go:641`.

### ToolCalls and AtMostOnce

A handler accepts or refuses its arguments (`RequiredString`, `OptionalString`, the
strict `limit` of `memory_search` against the lenient one of
`helixon_search_memory`), `Request` hands the HTTP request to the network, and
`Receive` or `Unanswered` ends the call. The gateway can serve, reject or never get
a request, at any time, also after the call gave up. `net/http` may repeat a GET on
a broken connection; being a read, this counts as one serving. POST and DELETE are
not repeated. `KeepsPromise` is `AtMostOnce!Spec` under a refinement mapping: the status of a call is what
its client sees, the log is what the gateway served.

`Schemas` is what the MCP clients are told of the tools: which arguments they have,
all strings, and which are required. `Admitted` gives this the meaning it has in the
schema: a required argument is present and a string, empty or not; an optional one is
absent or a string. The handlers' rule is another one. An empty string in a required
argument meets the schema and is refused (`interfaces.go:48`), so `memory_write`
cannot empty an entry; a `limit` of `memory_search` that is no positive number is
refused too; and an optional argument that is no string breaks the schema and is
passed over (`interfaces.go:55-62`). `RefusalsAgainstSchemas` proves that there are
no other differences.

### Status

Each call asks its sources in the order of the code (`Stage`; the queries of
`get_metrics` come in the order of a Go map, which is any). A source is a version
number that grows, or the states of the jobs. `moments[c][s]` collects everything
that `s` could have answered since `c` began. `Mandatory` are the requests whose
failure fails the tool. A reply of the gateway is assumed to carry a status: one
without would put an empty status in the place of that of the health check
(`client.go:484`), which `StatusIsKnown` does not look at.

### AgentTrace

The log is a sequence of writes: `event`, `torn` (a partial write), `newline`. The
model keeps the look at `r.f` before the mutex in `Record` and `Close`, the two
writes, the deferred unlock, `Close` without a second look, and crashes that free
the mutex and leave the file as it is. `server.Server.Close` is the only caller of
`Recorder.Close`; nothing forbids two of them at once, and then the second one
reports an error (`ClosedByOther` says that this is the only reason for one).

### Config

An environment is a record of optional values; URLs are records of what
`validateBaseURL` looks at (does it parse, scheme, class of the host, port). A
`time.Duration` is an integer modulo `Word`. Listen addresses are pairs of a host
and a port.

### Server

`main` is the place of `main.run`: `boot` up to `signal.NotifyContext` (a signal
still kills), then `run`, `stdio`, or for SSE `listen`, `bound` and `serve`, since
`http.Server` looks twice whether it was closed: before it listens and before it
serves. `stopper` is the goroutine of `runSSE`, `metrics` that of the metrics
listener, whose port is none, its own, or that of the SSE server
(`PROMETHEUS_METRICS_PORT` is free text). `holder` says who listens on a port.
`unavailable` stands for every reason outside the process that a bind fails for:
another program has the port, or the kernel refuses the address (a privileged port, a
host that is not of this machine); `PortChanges` lets that come and go. The metrics
listener can itself be who holds the port that the SSE server needs, and then the
server ends with an error; `EndsForAReason` says that nothing else about that listener
ends it. A second signal has no effect, because `NotifyContext`
stays in place until `run` returns. `sseSrv.Shutdown` is assumed to return: it gets a
context without a deadline (`server.go:159`), but it has no HTTP server of its own
here, and what it does to the sessions is up to mcp-go. `StdioServer.Listen` returns when its input or its
context ends, with or without an error. The end of `run` is the end of the process
(`Exit`): nothing waits for the calls, and `Server.Close` is not called.

### Bridge

A step of `Bridge` is a step of its components, tied where the code ties them: a
process starts with `agentrace.New` and ends, in whatever way, as the recorder's
`Crash`; a tool call arrives in `Wrap`, whose inner handler is the one of
`ToolCalls`; the recorder hears success exactly if the handler's result is one; the
result reaches the client only after `Record`. `ToolCalls` and `AgentTrace` are
instances, with the variables of `Server` in place of their processes. One process
runs at a time; calls overlap on both transports (on stdio, mcp-go may serve them
one by one, which the model includes). The request of a call outlives its process.
`recorded` is a history variable: whether the recorder had its file when the call
arrived.

The log of the recorder is an audit of what agents did, and `Audited` says how far
it can be trusted: as long as writes succeed, the only holes are calls that their
process ended under.
`ClientStatus` carries the promise of `AtMostOnce` on to the MCP client: a call that
its client never heard of stays open.

## Runs

Deadlock is not checked: every model has a fixed set of calls and ends once they
have returned. Symmetry is used in `MCChatAnswers` only, which has no liveness property, over
sets that neither `Init` nor `Next` tells apart.

| Run | Bounds | Shows |
|---|---|---|
| `MCChatAnswers` | 2 calls, 1 thread, 2 texts, `HistoryLimit` 1, `PollSlack` 2, 3 turns, 1 fault | `PostedOnce`, `FreshMatch`, `OwnAnswer`, `NoMissedAnswer`, `NewestAnswer`, `ImplementsConversation` |
| `MCChatThreads` | 2 calls, 2 threads, 1 turn answered in parts or at once, 1 fault, fairness | `TypeOK`, `ThreadCreation`, `EveryCallReturns` |
| `MCAgentTrace` | 1 process, 2 calls, 2 `Close`, 1 crash, 1 fault, fairness | `TypeOK`, `TruthfulEvents`, `PairedWrites`, `NoSilentLoss`, `ClosedByOther`, `CallsReturn` |
| `MCToolCalls` | 2 calls, a tool of each kind, all kinds of argument, fairness | `TypeOK`, `RealTimeOrder`, `KeepsPromise`, `CallsReturn` |
| `MCStatus` | 2 calls, all four tools, 2 queries, 1 job, 1 change, fairness | `TypeOK`, `FreshParts`, `StatusIsKnown`, `EveryMetric`, `ToolsReturn` |
| `MCConfig` | every environment of the enumerated values | `AcceptsDocumented` |
| `MCBridge` | 2 calls, 2 starts, stdio and SSE, a metrics listener on the SSE port, no faults of the log, fairness | `ServerTypeOK`, `BridgeTypeOK`, `Audited`, `TruthfulAudit`, `EndsForAReason`, `PromiseToClient`, `Settles` |

Why the bounds are enough. In `MCChatAnswers` a limit of 1 against three turns makes
the thread outgrow the first history read (100 in the code) and a poll window with
a slack of 2 (10 in the code) can both miss old turns and hold two that match, so
that it matters which one a scan finds; two texts distinguish a match from a mismatch, and two calls and the
others' turns give every order of matching turns; partial responses are left to
`MCChatThreads` and `MCChatCompletedTurn`, since the scan cannot tell a turn that has
a part of its response from one that has all of it, and the proofs have them; `Init` has empty threads, which
other clients fill before a call reads them. `PostedOnce` and the answers' origin
concern at most two calls and one stranger at a time, and are proved without bounds.
The mutex of `AgentTrace` needs two contenders, and a `Close` can only disturb
another one if there are two; the processes share nothing but the file, so that one
process, which restarts after its crash, is enough for what is said of one process.
`RealTimeOrder` and `AtMostOnce` relate two calls at most; they are proved for any
number. In `MCStatus` one change between the answers to two calls is what a left-over
answer needs. In `MCBridge` one call goes to the gateway and the other is refused by
its handler: the two contend for the mutex and the log, and races between two requests
are what `MCToolCalls` is for. A metrics listener is of interest beside the SSE
server and on its port; one that is never scheduled behaves like none. Two starts
give a restart with a call cut off, or its request still on the way, before it.
What the instance leaves out (failing writes, a port of its own, two requests, more
starts) is covered by the theorems on `Bridge`. In `Config`, `Second` is 10 and `Word` 2^12, small enough that 2049
seconds wrap around to one and 205 to a negative number, as 2^55 + 1 and 9223372037
do in the code.

Runs that end in a counterexample, each a disagreement between the code and what
the repository says of it (quoted in `PROJECT.json`, `findings`):

| Run | Property | What happens |
|---|---|---|
| `MCChatCompletedTurn` | `CompletedTurn` | a failed turn with a partial response is reported as completed |
| `MCChatAnswerIsNew` | `AnswerIsNew` | beyond the first 100 turns an old answer to the same text is returned |
| `MCAgentTraceTwoProcesses` | `OneEventPerLine` | events of two processes share a line |
| `MCConfigTimeout` | `TimeoutAsAsked` | an overflowing timeout is accepted |
| `MCConfigEndpoint` | `EndpointIsServed` | `MCP_SSE_ADDR=127.0.0.1:8080` announces `http://localhost127.0.0.1:8080` |

These properties do not hold, and the ones that do are stated so as not to depend on
them: `FreshMatch` and `OwnAnswer` promise a new turn only when the thread fitted in
the first read, `NewestAnswer` and `Conversation` say how wrong an answer can be beyond
that, `PairedWrites` speaks of one process and of calls that were not killed, and
`FreshParts` speaks of the counts of jobs that were received.
Three of the five disagreements are also bounded from the other side, by a theorem that
says what they take: see the end of *Proofs*.

Smaller disagreements that reading the code for the models brought up, without a run
of their own: `docs/configuration.md:16` and `config.go:57` give `:8080` as the
default listen address of SSE, `server.go:134` uses `:9090`;
`findMatchingTurnResponse` returns an older match when the most recent one is still
open, unlike its comment (`client.go:661-663`); `helixon_agent_status` reports zero
jobs when the request for the jobs failed (`client.go:488-497`), though
`client.go:473` says it returns the current counts; `memory_write` refuses the empty
content that its schema admits (`workspace_memory.go:40`); a crash between the
two writes of an event glues the next event to it (`agentrace.go:117-121`);
`docs/configuration.md:63` says that the default tools forward to `HELIXON_BASE_URL`
only, while `helixon_stack_status` also asks `HELIXON_ROUTER_URL`; `SendTask` sends
a `session_id` to `/api/chat/send` and reads a `job_id` from the reply, where `Chat`
and `SpawnAgent` send a `thread_id` and read a `message_id` (`client.go:180-191`,
`263-271`); `PROMETHEUS_METRICS_PORT` is in no document, and a value that is the SSE
port makes the two listeners race (`main.go:67-75`); `helixon_search_memory` ignores a
`limit` that is no number where `memory_search` refuses it, with the same schema.

## Fairness

- `Chat`: weak fairness of each call's own steps. Every request comes back because
  `NewClient` gives `http.Client` a timeout (`client.go:35-44`), the ticker ticks
  (`client.go:637`), and the deadline of `pollCtx` arrives (`client.go:631-634`): MCP
  contexts carry no deadline, and a configured timeout is at least a second. While
  the context is live the ticker may win every `select`, but once it is done the
  next poll fails, so nothing stronger is needed. The gateway owes nothing: it may
  never open or end a turn.
- `ToolCalls`: weak fairness of each call's steps, for the same timeout.
- `Status`: a request to the gateway or the router fails at the latest with the
  timeout; a request to Prometheus, made with `http.DefaultClient`
  (`prometheus.go:20-25`), is only fair once its context is done. This is why
  `ToolsReturn` promises nothing for a `get_metrics` that nobody cancels.
- `AgentTrace`: weak fairness of the steps of a goroutine, since the scheduler runs
  it and inner handlers return; strong fairness of taking the mutex, since
  `sync.Mutex` serves a waiter that has starved (from one millisecond on) first.
- `Bridge`: weak fairness of `run`, of the goroutine of `runSSE`, and of each call.
  Weak fairness is enough for the mutex here, since every call takes it once and no
  `Close` contends for it. Nothing has to arrive: no call, no signal, no answer
  of the gateway, no end of the input; so a process that nobody stops runs on.

## Proofs

`ChatProofs` proves, for any sets of calls, threads and texts, any limits, and any
number of turns and faults (assumptions: `LimitsAssumption`, `BoundsAssumption`,
`NamesAssumption`, `UpdatesAssumption` of `Chat`), that `TypeOK`, `PostedOnce`,
`FreshMatch` and `OwnAnswer` hold in every reachable state.

None of them is inductive. `IndInv` adds, for each call, that its message is in the
inbox only once it is sent, that its thread is known as soon as it is used, that
`initialTurnCount` is the smaller of `before` and `HistoryLimit`, that the thread is
at least as long as it was (turns are never removed), and that it has an outcome
only when it is done; and for all turns, that their authors have sent (so a new turn's
author is in no thread yet). An update of a turn keeps its text and takes no response
away (`UpdateTurnEffect`), so answers stay what they were. The key lemma is `FoundTurn`: an index of the poll's window
above `initialTurnCount` is a position of the thread above `before`, provided the
thread fitted in the first read. Preservation has one lemma for the moves of a call
(they leave the turns and the other calls alone) and one for each way the gateway
changes a thread.

`ThreadCreation` has an invariant of its own, `ThreadsInv`: who lists or creates has no
session, and who creates beside an assistant thread has seen a request fail.
`NoMissedAnswer` follows from `IndInv` without a further invariant: a new turn within
the slack is above `initialTurnCount` in the reply (`NewTurnIsInReply`), and a scan
from the end stops somewhere if there is a turn to stop at (`GreatestPosition`, from
the library's theorem on well-founded relations).
`NewestAnswer` needs the same facts about the other end of the window: what the scan
finds is the newest response in the whole thread, since the window ends where the
thread does, and no further from its end than the slack (`FoundIsNewest`).

`ConversationProofs` proves `ImplementsConversation` under the same assumptions. Every
step of a call maps to one of the conversation or to a stutter (`CallRefines`, one case
per action), and so does every step of the gateway (`OpenRefines`, `StepRefines`).
`IndInv` is not enough for that: `Conversation` lets a chat settle on a thread only
while it has none, and answer only after its message was accepted. `TalkInv` adds that
a call without a session has no thread before one was picked, and that the message of a
call that polls is with the gateway or in a thread, which no later step takes back.

`ToolCallsProofs` proves `TypeOK`, `RealTimeOrder` and the
refinement of `AtMostOnce` for any number of calls (assumptions `ToolsAssumption`,
`TextsAssumption`). Its invariant says where the request of a call can be: nothing
has left the bridge before `Request` and never for a refused call; a request on its
way has neither a reply nor an effect; a reply that can become a success comes from
a request that was served. `StepRefines` maps every step to a step of `AtMostOnce`
or to a stutter. `RefusalsAgainstSchemas` says where handlers and schemas part.

`AgentTraceProofs` proves `TypeOK`, `TruthfulEvents`, `PairedWrites`, `NoSilentLoss`
and `ClosedByOther` for any processes, calls and `Close`s, crashes and faults, except
that `PairedWrites` and `NoSilentLoss` say in their own statements which faults they
exclude.
`RecorderInv` has seven parts: `Typing`; `Mutex` (the mutex is held exactly by the
goroutine in its critical section); `Alive` (nothing of a process that is down runs);
`Logged` (whose writes are in the log); `Lossless`, `Closing` and `Pairing`, the
properties with what is still under way. The last is the hard one: between the two
writes of a call, nobody of its process writes, because the mutex is not free; a
crash frees it, but then the call between its two writes is among those it kills, and
the mutex that the next process finds free belongs to nobody alive.

`StatusProofs` proves `TypeOK`, `FreshParts`, `EveryMetric` and `StatusIsKnown`. In
`StatusInv`, `ToAsk` says which sources a call still has to ask, `Lacking` that a
failed call lacks an answer it cannot do without, `Accounted` that each query is still
to be asked, answered or reported, and `Fresh` that what a call has, or can still be
told, is among its moments.

`ConfigProofs` proves `AcceptsDocumented` for every environment, every `Word` and
`Second` that meet `TimeAssumption` and `SecondsAssumption`: within the range that the
documents allow, the conversion to a duration does not wrap. The same arithmetic gives
`TimeoutUnlessOverflow`.

`ServerProofs` proves `ServerTypeOK` and `EndsForAReason` for any number of starts.
`Paths`, the strengthening, ties `main` to the transport and `closed` to the stopper
and the signal: this is why a closed server means that it was asked to stop.

`BridgeProofs` proves the six safety properties of `MCBridge`, for any number of
calls, starts, faults and tools, from `ToolsAssumption`, `RecorderAssumption` and the
assumptions of `Server`. Every step of `Bridge` is a step or a stutter of each
component (`ServerStep`, `ToolsStep`, `TraceStep`), so the three component
invariants are taken over through instances of their proof modules (`TP`, `RP`).
`BridgeInv` adds `Agree`, how the places of a call in the three components fit
together, and `Line`, what the log holds of a call by then. `Audited` and
`TruthfulAudit` follow; `PromiseToClient` goes step by step, as in `ToolCallsProofs`.
`ComponentsRun` says that the bridge implements the specifications of its three
components, and `ComponentsKeepTheirWord` collects what it inherits that way: the order
in which requests are served, truthful events, whole lines.

Some theorems have a condition, and say with it how far a counterexample of the runs
reaches. `AnswersAreCompleted` proves `CompletedTurn` for a gateway that gives a
response to completed turns only (`CompleteWhenAnswered`). `LinesOfOneProcess` proves
`OneEventPerLine` as long as all calls are in one process, none of them is killed and no
write fails. `TimeoutUnlessOverflow` proves `TimeoutAsAsked` for every value whose
product fits in a `time.Duration`. `MCChatCompletedTurn`, `MCAgentTraceTwoProcesses`
and `MCConfigTimeout` show that none of these conditions can simply be dropped. All
three are met in the ordinary case: a gateway without partial responses, one server
per log file, a timeout of sane size.

Only model-checked: liveness (`EveryCallReturns`, both `CallsReturn`, `ToolsReturn`,
`Settles`), which needs fairness and ENABLED.

## Not modelled

- JSON, URL and header formatting, the response size limit, redirects, log messages.
- The schemas of `helixon_chat` and of the composite tools, whose handlers check at
  most one argument, and the descriptions of all tools.
- The second default of the listen address: it is in `Config` (`OtherDefault`), but
  no property of more than one step depends on it; see the disagreements above.
- `scripts/`, build and CI: they run one command after the other, outside of the
  program.
- mcp-go: its sessions, and the order in which it serves the calls of one client.
- Data races as such: `Record` and `Close` read `r.f` without the mutex; the model
  lets such a read see the handle or nil, which is what a pointer read can return.

## Plan

All components that keep state or act are modelled, and every safety property of a
passing run is proved. What could be added:

1. Several bridge processes in `Bridge`, on one log and one gateway: `AgentTrace` has
   the processes already, `Server` describes one.
2. Failing writes and two requests in `MCBridge`; both multiply its 323,170 states,
   and the theorems cover them.
3. A recorder that appends one line per call in one step, as an abstract specification
   of `AgentTrace` for a process that is not killed: `WholeLines` and `TruthfulEvents`
   are what it would give, the order of the lines is what it would add.

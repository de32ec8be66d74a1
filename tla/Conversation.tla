---------------------------- MODULE Conversation ----------------------------
(***************************************************************************)
(* What Client.Chat promises its MCP client, without the list of threads,  *)
(* the requests, the polling and the windows of the history.  A chat looks *)
(* at a thread, posts its message there at most once and only while it is  *)
(* open, and ends with an error, or with the response of a turn that has   *)
(* its text: a turn opened after it looked or, in a thread longer than it  *)
(* could see then, at most Slack turns before.                             *)
(***************************************************************************)
EXTENDS Naturals, Sequences

CONSTANTS
    Calls, Threads, Messages, NoThread, Other,
    Window,     \* turns a chat can see when it looks
    Slack       \* turns by which it can be wrong in a longer thread

VARIABLES
    message,    \* message[c]: the text of chat c
    status,     \* status[c]: where it is, as its client sees it
    place,      \* place[c]: its thread, once it has one
    mark,       \* mark[c]: the length of the thread when it looked
    answer,     \* answer[c]: the turn whose response it returned, or 0
    pending,    \* chats whose message the gateway has and no turn yet
    turns       \* turns[t]: the turns of thread t, oldest first

chatVars == <<status, place, mark, answer>>
vars == <<message, chatVars, pending, turns>>

Init ==
    /\ message \in [Calls -> Messages]
    /\ status = [c \in Calls |-> "new"]
    /\ place = [c \in Calls |-> NoThread]
    /\ mark = [c \in Calls |-> 0]
    /\ answer = [c \in Calls |-> 0]
    /\ pending = {}
    /\ turns = [t \in Threads |-> << >>]

Posted(c) ==
    c \in pending \/ \E t \in Threads : \E i \in DOMAIN turns[t] : turns[t][i].by = c

Move(c, from, to) == status[c] = from /\ status' = [status EXCEPT ![c] = to]

(* A chat begins, in the thread it names or in none yet.                   *)
Ask(c) ==
    /\ Move(c, "new", "open")
    /\ \E t \in Threads \union {NoThread} : place' = [place EXCEPT ![c] = t]
    /\ UNCHANGED <<message, mark, answer, pending, turns>>

(* It gets a thread, and keeps it.                                         *)
Settle(c, t) ==
    /\ status[c] = "open" /\ place[c] = NoThread
    /\ place' = [place EXCEPT ![c] = t]
    /\ UNCHANGED <<message, status, mark, answer, pending, turns>>

Look(c) ==
    /\ status[c] = "open" /\ place[c] \in Threads /\ ~Posted(c)
    /\ mark' = [mark EXCEPT ![c] = Len(turns[place[c]])]
    /\ UNCHANGED <<message, status, place, answer, pending, turns>>

(* Its message is accepted; the chat may end at once, unaware of it.       *)
Post(c) ==
    /\ place[c] \in Threads /\ ~Posted(c)
    /\ pending' = pending \union {c}
    /\ Move(c, "open", "open") \/ Move(c, "open", "failed")
    /\ UNCHANGED <<message, place, mark, answer, turns>>

(* It returns the newest response to its text.                             *)
Matches(c, i) == turns[place[c]][i].input = message[c] /\ turns[place[c]][i].response
New(c, i) == i > mark[c] \/ (mark[c] > Window /\ i > mark[c] - Slack)
Answer(c) ==
    /\ Posted(c) /\ Move(c, "open", "answered")
    /\ \E i \in DOMAIN turns[place[c]] :
          /\ Matches(c, i) /\ New(c, i)
          /\ \A j \in DOMAIN turns[place[c]] : Matches(c, j) => j <= i
          /\ answer' = [answer EXCEPT ![c] = i]
    /\ UNCHANGED <<message, place, mark, pending, turns>>

Fail(c) ==
    /\ Move(c, "open", "failed")
    /\ UNCHANGED <<message, place, mark, answer, pending, turns>>

-----------------------------------------------------------------------------
(* The gateway and whoever else writes to it. *)

Open(t, m, author) ==
    /\ \E turn \in [input: {m}, by: {author}, state: {"Processing"}, response: {FALSE}] :
          turns' = [turns EXCEPT ![t] = Append(@, turn)]
    /\ UNCHANGED <<message, chatVars>>

Begin(c) ==
    /\ c \in pending /\ pending' = pending \ {c}
    /\ Open(place[c], message[c], c)

(* A response comes, as a whole or in parts, and the turn ends.            *)
Update(t, i) ==
    /\ turns[t][i].state = "Processing"
    /\ \E s \in {"Processing", "Completed", "Failed"}, r \in BOOLEAN :
          /\ turns[t][i].response => r
          /\ turns' = [turns EXCEPT ![t][i].state = s, ![t][i].response = r]
    /\ UNCHANGED <<message, chatVars, pending>>

Next ==
    \/ \E c \in Calls :
          \/ Ask(c) \/ Look(c) \/ Post(c) \/ Answer(c) \/ Fail(c) \/ Begin(c)
          \/ \E t \in Threads : Settle(c, t)
    \/ \E t \in Threads, m \in Messages : Open(t, m, Other) /\ UNCHANGED pending
    \/ \E t \in Threads : \E i \in DOMAIN turns[t] : Update(t, i)

Spec == Init /\ [][Next]_vars
=============================================================================

-------------------------- MODULE ConversationProofs --------------------------
(* Chat implements Conversation, for every value of its constants. *)
EXTENDS ChatProofs

USE DEF gatewayVars, requestVars

(* IndInv does not suffice.  Conversation lets a call settle on a thread   *)
(* only while it has none, and answer only after its message has reached   *)
(* the gateway; so it must be known that a call without a session has no   *)
(* thread id before one was picked, and that a call that polls has posted. *)
TalkInv ==
    /\ IndInv
    /\ \A c \in Calls :
          /\ pc[c] \in {"idle", "list", "create"} => thread[c] = NoThread
          /\ pc[c] \in {"poll", "wait"} => Talk!Posted(c)

LEMMA TalkInit == Init => TalkInv
<1> SUFFICES ASSUME Init PROVE TalkInv
    OBVIOUS
<1>1. IndInv
    BY IndInvInit
<1>2. \A c \in Calls : pc[c] = "idle" /\ thread[c] = NoThread
    BY DEF Init
<1> QED
    BY <1>1, <1>2 DEF TalkInv

(* A call posts nothing before it sends.                                   *)
LEMMA UnsentIsUnposted ==
    ASSUME IndInv, NEW c \in Calls, pc[c] \notin Sent
    PROVE  ~Talk!Posted(c)
<1>1. c \notin inbox
    BY DEF IndInv, CallInv
<1>2. \A t \in Threads : \A i \in DOMAIN turns[t] : turns[t][i].by # c
    BY NamesAssumption DEF IndInv, TurnsSent
<1> QED
    BY <1>1, <1>2 DEF Talk!Posted

(* The call that moves is the only one whose status does.                  *)
LEMMA StatusMoves ==
    ASSUME Types, NEW c \in Calls, CallMoves(c)
    PROVE  [d \in Calls |-> ChatStatus(d)]'
             = [[d \in Calls |-> ChatStatus(d)] EXCEPT ![c] = ChatStatus(c)']
<1>1. \A d \in Calls \ {c} : ChatStatus(d)' = ChatStatus(d)
    BY CallMovesAlone DEF SameCall, ChatStatus
<1> QED
    BY <1>1

(* What the gateway does moves no call.                                    *)
LEMMA StatusStays ==
    ASSUME UNCHANGED <<pc, outcome>>
    PROVE  [d \in Calls |-> ChatStatus(d)]' = [d \in Calls |-> ChatStatus(d)]
BY DEF ChatStatus

(* What a step of a call does, as far as Conversation can tell.            *)
LEMMA CallRefines ==
    ASSUME TalkInv, NEW c \in Calls, CallMoves(c)
    PROVE  Talk!Next \/ UNCHANGED Talk!vars
<1> DEFINE S == [d \in Calls |-> ChatStatus(d)]
<1>1. Types /\ CallInv(c)
    BY DEF TalkInv, IndInv
<1>2. S' = [S EXCEPT ![c] = ChatStatus(c)'] /\ S[c] = ChatStatus(c)
    BY <1>1, StatusMoves
<1>3. UNCHANGED <<turns, message>>
    BY <1>1, CallMovesAlone
<1>4. /\ pc \in [Calls -> Running \union {"idle", "done"}]
      /\ outcome \in [Calls -> {"none", "answer", "error"}]
      /\ thread \in [Calls -> Threads \union {NoThread}]
      /\ pc[c] # "done" => outcome[c] = "none"
    BY <1>1 DEF Types, CallInv
<1>5. ASSUME ChatStatus(c)' = ChatStatus(c), UNCHANGED <<thread, before, answeredAt, inbox>>
      PROVE  UNCHANGED Talk!vars
    <2>1. S' = S
        BY <1>2, <1>5
    <2> QED
        BY <1>3, <1>5, <2>1 DEF Talk!vars, Talk!chatVars
<1>6. ASSUME pc[c] \notin {"idle", "done"}, Goto(c, "done"),
             outcome' = [outcome EXCEPT ![c] = "error"],
             UNCHANGED <<thread, before, answeredAt, inbox>>
      PROVE  Talk!Fail(c)
    <2>1. ChatStatus(c) = "open" /\ ChatStatus(c)' = "failed"
        BY <1>4, <1>6 DEF ChatStatus, Goto
    <2> HIDE DEF S
    <2>2. S[c] = "open" /\ S' = [S EXCEPT ![c] = "failed"]
        BY <1>2, <2>1
    <2> QED
        BY <1>3, <1>6, <2>2 DEF Talk!Fail, Talk!Move, S
<1> HIDE DEF S
<1>7. CASE Start(c)
    <2>1. /\ session[c] \in Threads \union {NoThread}
          /\ thread' = [thread EXCEPT ![c] = session[c]]
          /\ UNCHANGED <<before, answeredAt, inbox>>
        BY <1>1, <1>7 DEF Start, Types
    <2>2. ChatStatus(c) = "new" /\ ChatStatus(c)' = "open"
        BY <1>4, <1>7 DEF Start, Goto, ChatStatus
    <2>3. S[c] = "new" /\ S' = [S EXCEPT ![c] = "open"]
        BY <1>2, <2>2
    <2> QED
        BY <1>3, <2>1, <2>3 DEF Talk!Next, Talk!Ask, Talk!Move, S
<1>8. ASSUME pc[c] \in {"list", "create"}, Goto(c, "load"), outcome' = outcome,
             NEW t \in Threads, thread' = [thread EXCEPT ![c] = t],
             UNCHANGED <<before, answeredAt, inbox>>
      PROVE  Talk!Settle(c, t)
    <2>1. thread[c] = NoThread
        BY <1>8 DEF TalkInv
    <2>2. ChatStatus(c) = "open" /\ ChatStatus(c)' = "open"
        BY <1>4, <1>8 DEF Goto, ChatStatus
    <2>3. S[c] = "open" /\ S' = S
        BY <1>2, <2>2 DEF S
    <2> QED
        BY <1>3, <1>8, <2>1, <2>3 DEF Talk!Settle, S
<1>9. CASE ListThreads(c)
    <2>1. /\ pc[c] = "list" /\ UNCHANGED <<outcome, before, answeredAt, inbox>>
          /\ ExistingThreads \subseteq Threads
        BY <1>1, <1>9 DEF ListThreads, ExistingThreads, Types
    <2>2. CASE \E t \in ExistingThreads :
                  thread' = [thread EXCEPT ![c] = t] /\ Goto(c, "load")
        BY <1>8, <2>1, <2>2 DEF Talk!Next
    <2>3. CASE Goto(c, "create") /\ UNCHANGED thread
        <3>1. ChatStatus(c)' = ChatStatus(c)
            BY <1>4, <2>1, <2>3 DEF Goto, ChatStatus
        <3> QED
            BY <1>5, <2>1, <2>3, <3>1
    <2> QED
        BY <1>9, <2>2, <2>3 DEF ListThreads
<1>10. CASE CreateThread(c)
    <2>1. pc[c] = "create" /\ UNCHANGED <<before, answeredAt, inbox>>
        BY <1>10 DEF CreateThread, NewThread
    <2>2. \/ \E t \in Threads : thread' = [thread EXCEPT ![c] = t] /\ Goto(c, "load")
                                /\ outcome' = outcome
          \/ Fail(c) /\ UNCHANGED thread
        BY <1>10, NamesAssumption DEF CreateThread, UseNewThread
    <2>3. CASE Fail(c) /\ UNCHANGED thread
        BY <1>6, <2>1, <2>3 DEF Fail, Talk!Next
    <2> QED
        BY <1>8, <2>1, <2>2, <2>3 DEF Talk!Next
<1>11. CASE LoadHistory(c)
    <2>1. pc[c] = "load" /\ UNCHANGED <<thread, answeredAt, inbox>>
        BY <1>11 DEF LoadHistory
    <2>2. CASE Fail(c) /\ UNCHANGED before
        BY <1>6, <2>1, <2>2 DEF Fail, Talk!Next
    <2>3. CASE /\ before' = [before EXCEPT ![c] = Len(turns[thread[c]])]
               /\ Goto(c, "send") /\ outcome' = outcome
        <3>1. ChatStatus(c) = "open" /\ ChatStatus(c)' = "open"
            BY <1>4, <2>1, <2>3 DEF Goto, ChatStatus
        <3>2. S[c] = "open" /\ S' = S
            BY <1>2, <3>1 DEF S
        <3>3. thread[c] \in Threads /\ ~Talk!Posted(c)
            BY <1>1, <2>1, UnsentIsUnposted DEF TalkInv, CallInv, InThread, Sent
        <3> QED
            BY <1>3, <2>1, <2>3, <3>2, <3>3 DEF Talk!Next, Talk!Look, S
    <2> QED
        BY <1>11, <2>2, <2>3 DEF LoadHistory
<1>12. CASE Send(c)
    <2>1. pc[c] = "send" /\ UNCHANGED <<thread, before, answeredAt>>
        BY <1>12 DEF Send
    <2>2. CASE Fail(c) /\ UNCHANGED inbox
        BY <1>6, <2>1, <2>2 DEF Fail, Talk!Next
    <2>3. CASE /\ inbox' = inbox \union {c}
               /\ \/ Goto(c, "poll") /\ outcome' = outcome
                  \/ Fail(c)
        <3>1. ChatStatus(c) = "open" /\ ChatStatus(c)' \in {"open", "failed"}
            BY <1>4, <2>1, <2>3 DEF Goto, Fail, ChatStatus
        <3>2. thread[c] \in Threads /\ ~Talk!Posted(c)
            BY <1>1, <2>1, UnsentIsUnposted DEF TalkInv, CallInv, InThread, Sent
        <3>3. S[c] = "open" /\ \/ S' = [S EXCEPT ![c] = "open"]
                               \/ S' = [S EXCEPT ![c] = "failed"]
            BY <1>2, <3>1
        <3> QED
            BY <1>3, <2>1, <2>3, <3>2, <3>3 DEF Talk!Next, Talk!Post, Talk!Move, S
    <2> QED
        BY <1>12, <2>2, <2>3 DEF Send, SendFails
<1>13. CASE Poll(c)
    <2>1. pc[c] = "poll" /\ UNCHANGED <<thread, before, inbox>>
        BY <1>13 DEF Poll, PollFails
    <2>2. \/ Goto(c, "wait") /\ UNCHANGED <<outcome, answeredAt>>
          \/ Fail(c) /\ UNCHANGED answeredAt
          \/ /\ Goto(c, "done") /\ outcome' = [outcome EXCEPT ![c] = "answer"]
             /\ \E k : answeredAt' = [answeredAt EXCEPT ![c] = k]
        BY <1>13 DEF Poll, PollFails
    <2>3. CASE Goto(c, "wait") /\ UNCHANGED <<outcome, answeredAt>>
        <3>1. ChatStatus(c)' = ChatStatus(c)
            BY <1>4, <2>1, <2>3 DEF Goto, ChatStatus
        <3> QED
            BY <1>5, <2>1, <2>3, <3>1
    <2>4. CASE Fail(c) /\ UNCHANGED answeredAt
        BY <1>6, <2>1, <2>4 DEF Fail, Talk!Next
    <2>5. CASE /\ Goto(c, "done") /\ outcome' = [outcome EXCEPT ![c] = "answer"]
               /\ \E k : answeredAt' = [answeredAt EXCEPT ![c] = k]
        <3> DEFINE ts == turns[thread[c]]
                   k  == answeredAt'[c]
        <3>1. ChatStatus(c) = "open" /\ ChatStatus(c)' = "answered" /\ outcome'[c] = "answer"
            BY <1>4, <2>1, <2>5 DEF Goto, ChatStatus
        <3>2. S[c] = "open" /\ S' = [S EXCEPT ![c] = "answered"]
            BY <1>2, <3>1
        <3>3. /\ k \in DOMAIN ts /\ ts \in Seq(Turn)
              /\ ts[k].input = message[c] /\ ts[k].response
              /\ k > Len(ts) - PollSlack
              /\ \A i \in DOMAIN ts :
                    (ts[i].input = message[c] /\ ts[i].response) => i <= k
              /\ before[c] \in Nat /\ before[c] <= Len(ts)
              /\ before[c] <= HistoryLimit => k > before[c]
            BY <1>13, <3>1, AnswerFound DEF TalkInv
        <3>4. answeredAt' = [answeredAt EXCEPT ![c] = k]
            BY <1>1, <2>5 DEF Types
        <3> HIDE DEF ts, k
        <3>5. k > before[c] \/ (before[c] > HistoryLimit /\ k > before[c] - PollSlack)
            BY <3>3, LimitsAssumption
        <3>6. Talk!Posted(c)
            BY <2>1 DEF TalkInv
        <3>7. /\ Talk!Matches(c, k) /\ Talk!New(c, k)
              /\ \A j \in DOMAIN ts : Talk!Matches(c, j) => j <= k
            BY <3>3, <3>5 DEF Talk!Matches, Talk!New, ts
        <3>8. Talk!Move(c, "open", "answered")
            BY <3>2 DEF Talk!Move, S
        <3>9. \E i \in DOMAIN ts :
                 /\ Talk!Matches(c, i) /\ Talk!New(c, i)
                 /\ \A j \in DOMAIN ts : Talk!Matches(c, j) => j <= i
                 /\ answeredAt' = [answeredAt EXCEPT ![c] = i]
            BY <3>3, <3>4, <3>7
        <3>10. Talk!Answer(c)
            BY <1>3, <2>1, <3>6, <3>8, <3>9 DEF Talk!Answer, ts
        <3> QED
            BY <3>10 DEF Talk!Next
    <2> QED
        BY <2>2, <2>3, <2>4, <2>5
<1>14. CASE WaitTick(c) \/ EndContext(c)
    <2>1. UNCHANGED <<thread, before, answeredAt, inbox, outcome>>
        BY <1>14 DEF WaitTick, EndContext
    <2>2. pc' = pc \/ (pc[c] = "wait" /\ Goto(c, "poll"))
        BY <1>14 DEF WaitTick, EndContext
    <2>3. ChatStatus(c)' = ChatStatus(c)
        BY <1>4, <2>1, <2>2 DEF Goto, ChatStatus
    <2> QED
        BY <1>5, <2>1, <2>3
<1>15. CASE WaitDone(c)
    BY <1>6, <1>15 DEF WaitDone, Fail, Talk!Next
<1> QED
    BY <1>7, <1>9, <1>10, <1>11, <1>12, <1>13, <1>14, <1>15 DEF CallMoves

(* A turn that is opened has its author, its text and no response.         *)
LEMMA OpenRefines ==
    ASSUME Types, NEW t \in Threads, NEW m \in Messages, NEW author, OpenTurn(t, m, author)
    PROVE  Talk!Open(t, m, author)
<1> DEFINE new == [input |-> m, by |-> author, state |-> "Processing", response |-> FALSE]
<1>1. new \in [input: {m}, by: {author}, state: {"Processing"}, response: {FALSE}]
    OBVIOUS
<1>2. turns' = [turns EXCEPT ![t] = Append(@, new)]
    BY DEF OpenTurn
<1>3. UNCHANGED <<message, thread, before, answeredAt, pc, outcome>>
    BY DEF OpenTurn
<1> HIDE DEF new
<1>4. \E turn \in [input: {m}, by: {author}, state: {"Processing"}, response: {FALSE}] :
          turns' = [turns EXCEPT ![t] = Append(@, turn)]
    BY <1>1, <1>2
<1> QED
    BY <1>3, <1>4, StatusStays DEF Talk!Open, Talk!chatVars

(* Every step is one of the conversation, or invisible in it.              *)
LEMMA StepRefines ==
    ASSUME TalkInv, [Next]_vars
    PROVE  [Talk!Next]_(Talk!vars)
<1>1. Types
    BY DEF TalkInv, IndInv
<1>2. ASSUME NEW c \in Calls, BeginTurn(c) PROVE Talk!Next
    <2>1. /\ c \in inbox /\ inbox' = inbox \ {c}
          /\ OpenTurn(thread[c], message[c], c)
        BY <1>2 DEF BeginTurn
    <2>2. thread[c] \in Threads /\ message[c] \in Messages
        BY <1>1, <2>1 DEF TalkInv, IndInv, CallInv, Types
    <2>3. Talk!Open(thread[c], message[c], c)
        BY <1>1, <2>1, <2>2, OpenRefines
    <2> QED
        BY <2>1, <2>3 DEF Talk!Begin, Talk!Next
<1>3. ASSUME NEW t \in Threads, NEW m \in Messages, OtherTurn(t, m) PROVE Talk!Next
    <2>1. OpenTurn(t, m, Other) /\ UNCHANGED inbox
        BY <1>3 DEF OtherTurn
    <2>2. Talk!Open(t, m, Other)
        BY <1>1, <2>1, OpenRefines
    <2> QED
        BY <2>1, <2>2 DEF Talk!Next
<1>4. ASSUME NEW t \in Threads, NEW i \in DOMAIN turns[t], UpdateTurn(t, i) PROVE Talk!Next
    <2>1. UNCHANGED <<message, pc, outcome, thread, before, answeredAt, inbox>>
        BY <1>4 DEF UpdateTurn
    <2>2. PICK e \in Updates :
              /\ turns[t][i].response => e.response
              /\ turns' = [turns EXCEPT ![t][i].state = e.state,
                                        ![t][i].response = e.response]
        BY <1>4 DEF UpdateTurn
    <2>3. e.state \in {"Processing", "Completed", "Failed"} /\ e.response \in BOOLEAN
        BY UpdatesAssumption DEF AllUpdates, TurnStates
    <2>4. \E s \in {"Processing", "Completed", "Failed"}, r \in BOOLEAN :
              /\ turns[t][i].response => r
              /\ turns' = [turns EXCEPT ![t][i].state = s, ![t][i].response = r]
        BY <2>2, <2>3
    <2>5. turns[t][i].state = "Processing"
        BY <1>4 DEF UpdateTurn
    <2>6. Talk!Update(t, i)
        BY <2>1, <2>4, <2>5, StatusStays DEF Talk!Update, Talk!chatVars
    <2> QED
        BY <2>6 DEF Talk!Next
<1>5. CASE UNCHANGED vars
    BY <1>5, StatusStays DEF vars, Talk!vars, Talk!chatVars
<1> QED
    BY <1>2, <1>3, <1>4, <1>5, CallRefines, StepCases

(* A call goes on to poll only when the gateway has taken its message, and *)
(* no message is taken back.                                               *)
LEMMA TalkNext == TalkInv /\ [Next]_vars => TalkInv'
<1> SUFFICES ASSUME TalkInv, [Next]_vars PROVE TalkInv'
    OBVIOUS
<1>1. Types /\ IndInv /\ IndInv'
    BY IndInvNext DEF TalkInv, IndInv
<1> DEFINE Settled(c) ==
        /\ pc[c] \in {"idle", "list", "create"} => thread[c] = NoThread
        /\ pc[c] \in {"poll", "wait"} => Talk!Posted(c)
<1>2. \A c \in Calls : Settled(c)
    BY DEF TalkInv
<1>3. ASSUME NEW c \in Calls, CallMoves(c), NEW d \in Calls PROVE Settled(d)'
    <2>1. /\ UNCHANGED turns /\ inbox' \in {inbox, inbox \union {c}}
          /\ d # c => SameCall(d)
        BY <1>1, <1>3, CallMovesAlone
    <2>2. Talk!Posted(d) => Talk!Posted(d)'
        BY <2>1 DEF Talk!Posted
    <2>3. CASE d # c
        BY <1>2, <2>1, <2>2, <2>3 DEF SameCall
    <2>4. ASSUME d = c, pc[c] \in Sent PROVE Settled(d)'
        <3>1. pc'[c] \in Sent
            BY <1>1, <1>3, <2>4, SentStays
        <3>2. pc[c] = "done" => pc'[c] = "done"
            BY <1>1, <1>3
            DEF CallMoves, Start, ListThreads, CreateThread, LoadHistory, Send, Poll,
                WaitTick, WaitDone, EndContext
        <3> QED
            BY <1>2, <2>2, <2>4, <3>1, <3>2 DEF Sent
    <2>5. ASSUME d = c, pc[c] \notin Sent PROVE Settled(d)'
        <3> USE DEF Goto, Fail, Types, Sent
        <3>1. CASE Start(c)
            BY <1>1, <2>5, <3>1 DEF Start
        <3>2. CASE ListThreads(c)
            BY <1>1, <1>2, <2>5, <3>2 DEF ListThreads
        <3>3. CASE CreateThread(c)
            BY <1>1, <1>2, <2>5, <3>3 DEF CreateThread, UseNewThread
        <3>4. CASE LoadHistory(c)
            BY <1>1, <2>5, <3>4 DEF LoadHistory
        <3>5. CASE Send(c)
            BY <1>1, <2>5, <3>5 DEF Send, SendFails, Talk!Posted
        <3>6. CASE EndContext(c)
            BY <1>1, <1>2, <2>5, <3>6 DEF EndContext
        <3> QED
            BY <1>3, <2>5, <3>1, <3>2, <3>3, <3>4, <3>5, <3>6
            DEF CallMoves, Poll, WaitTick, WaitDone
    <2> QED
        BY <2>3, <2>4, <2>5
<1>4. ASSUME UNCHANGED <<pc, thread>>,
             \A d \in Calls : Talk!Posted(d) => Talk!Posted(d)',
             NEW d \in Calls
      PROVE  Settled(d)'
    BY <1>2, <1>4
<1>5. ASSUME NEW t \in Threads, NEW m \in Messages, NEW author \in Calls \union {Other},
             OpenTurn(t, m, author), inbox \ {author} \subseteq inbox',
             NEW d \in Calls
      PROVE  Settled(d)'
    <2>1. /\ \A u \in Threads \ {t} : turns'[u] = turns[u]
          /\ Len(turns'[t]) = Len(turns[t]) + 1
          /\ \A i \in DOMAIN turns[t] : turns'[t][i] = turns[t][i]
          /\ turns'[t][Len(turns[t]) + 1].by = author
          /\ turns[t] \in Seq(Turn) /\ turns'[t] \in Seq(Turn)
        BY <1>1, <1>5, OpenTurnEffect DEF Types
    <2>2. /\ \A i \in DOMAIN turns[t] : i \in DOMAIN turns'[t]
          /\ Len(turns[t]) + 1 \in DOMAIN turns'[t]
        BY <2>1
    <2>3. \A c \in Calls : Talk!Posted(c) => Talk!Posted(c)'
        BY <1>5, <2>1, <2>2 DEF Talk!Posted
    <2> QED
        BY <1>4, <1>5, <2>3 DEF OpenTurn
<1>6. ASSUME NEW c \in Calls, BeginTurn(c), NEW d \in Calls PROVE Settled(d)'
    <2>1. thread[c] \in Threads /\ message[c] \in Messages
        BY <1>1, <1>6 DEF BeginTurn, IndInv, CallInv, Types
    <2> QED
        BY <1>5, <1>6, <2>1 DEF BeginTurn
<1>7. ASSUME NEW t \in Threads, NEW m \in Messages, OtherTurn(t, m), NEW d \in Calls
      PROVE  Settled(d)'
    BY <1>5, <1>7 DEF OtherTurn
<1>8. ASSUME NEW t \in Threads, NEW i \in DOMAIN turns[t], UpdateTurn(t, i), NEW d \in Calls
      PROVE  Settled(d)'
    <2>1. \A u \in Threads : DOMAIN turns'[u] = DOMAIN turns[u]
                             /\ \A j \in DOMAIN turns[u] : turns'[u][j].by = turns[u][j].by
        BY <1>1, <1>8, UpdateTurnEffect DEF Types
    <2>2. UNCHANGED <<pc, thread, inbox>>
        BY <1>8 DEF UpdateTurn
    <2> QED
        BY <1>4, <2>1, <2>2 DEF Talk!Posted
<1>9. ASSUME UNCHANGED vars, NEW d \in Calls PROVE Settled(d)'
    BY <1>2, <1>9 DEF vars, Talk!Posted
<1>10. \A d \in Calls : Settled(d)'
    BY <1>3, <1>6, <1>7, <1>8, <1>9, StepCases
<1> QED
    BY <1>1, <1>10 DEF TalkInv

(* A conversation through any number of lost replies, failed requests,     *)
(* expired deadlines and late turns is one that Conversation allows.       *)
THEOREM ChatIsAConversation == Spec => ImplementsConversation
<1>1. Init => Talk!Init
    BY DEF Init, Talk!Init, ChatStatus
<1>2. TalkInv /\ [Next]_vars => [Talk!Next]_(Talk!vars)
    BY StepRefines
<1>3. Spec => []TalkInv
    BY TalkInit, TalkNext, PTL DEF Spec
<1> QED
    BY <1>1, <1>2, <1>3, PTL DEF Spec, ImplementsConversation, Talk!Spec
=============================================================================

----------------------------- MODULE ChatProofs -----------------------------
(* Theorems about Chat, for every value of its constants. *)
EXTENDS Chat, TLAPS, SequenceTheorems, WellFoundedInduction

USE DEF gatewayVars, requestVars

(* What the gateway does to a thread when it opens a turn.                 *)
LEMMA OpenTurnEffect ==
    ASSUME Types, NEW t \in Threads, NEW m \in Messages,
           NEW author \in Calls \union {Other}, OpenTurn(t, m, author)
    PROVE  /\ turns' \in [Threads -> Seq(Turn)]
           /\ \A u \in Threads \ {t} : turns'[u] = turns[u]
           /\ Len(turns'[t]) = Len(turns[t]) + 1
           /\ \A i \in DOMAIN turns[t] : turns'[t][i] = turns[t][i]
           /\ turns'[t][Len(turns[t]) + 1].by = author
           /\ turns'[t][Len(turns[t]) + 1].input = m
           /\ turns'[t][Len(turns[t]) + 1].response = FALSE
<1> DEFINE new == [input |-> m, by |-> author, state |-> "Processing",
                   response |-> FALSE]
<1>1. new \in Turn
    BY DEF Turn, TurnStates
<1>2. turns[t] \in Seq(Turn) /\ turns' = [turns EXCEPT ![t] = Append(turns[t], new)]
    BY DEF OpenTurn, Types
<1>3. Append(turns[t], new) \in Seq(Turn)
    BY <1>1, <1>2
<1>4. QED
    BY <1>1, <1>2, <1>3 DEF Types

(* What it does when it updates one: nothing but the state and the         *)
(* response of that turn changes, and no response goes away.               *)
LEMMA UpdateTurnEffect ==
    ASSUME Types, NEW t \in Threads, NEW i \in DOMAIN turns[t], UpdateTurn(t, i)
    PROVE  /\ turns' \in [Threads -> Seq(Turn)]
           /\ \A u \in Threads : Len(turns'[u]) = Len(turns[u])
           /\ \A u \in Threads : \A j \in DOMAIN turns[u] :
                 /\ turns'[u][j].by = turns[u][j].by
                 /\ turns'[u][j].input = turns[u][j].input
                 /\ turns[u][j].response => turns'[u][j].response
                 /\ u # t \/ j # i => turns'[u][j] = turns[u][j]
<1>1. PICK e \in Updates :
          /\ turns[t][i].response => e.response
          /\ turns' = [turns EXCEPT ![t][i].state = e.state,
                                    ![t][i].response = e.response]
    BY DEF UpdateTurn
<1>2. e.state \in TurnStates /\ e.response \in BOOLEAN
    BY UpdatesAssumption DEF AllUpdates
<1>3. turns[t] \in Seq(Turn) /\ turns[t][i] \in Turn
    BY DEF Types
<1> DEFINE ended == [turns[t][i] EXCEPT !.state = e.state, !.response = e.response]
           ts    == [turns[t] EXCEPT ![i] = ended]
<1>4. ended \in Turn /\ ended.by = turns[t][i].by
                     /\ ended.input = turns[t][i].input
                     /\ ended.response = e.response
    BY <1>2, <1>3 DEF Turn
<1>5. /\ ts \in Seq(Turn) /\ Len(ts) = Len(turns[t])
      /\ ts[i] = ended
      /\ \A j \in DOMAIN turns[t] : j # i => ts[j] = turns[t][j]
    BY <1>3, <1>4
<1>6. turns' = [turns EXCEPT ![t] = ts]
    BY <1>1, <1>3 DEF Types, Turn
<1>7. turns[t][i].response => ended.response
    BY <1>1, <1>4
<1>8. QED
    BY <1>2, <1>3, <1>4, <1>5, <1>6, <1>7 DEF Types

(* A history reply is the end of the thread: turn j of the reply is turn   *)
(* Len(ts) - Len(reply) + j of the thread.                                 *)
LEMMA RecentTurnsAreTheNewest ==
    ASSUME NEW ts \in Seq(Turn), NEW limit \in Nat
    PROVE  LET reply == RecentTurns(ts, limit)
           IN  /\ reply \in Seq(Turn)
               /\ Len(reply) = IF Len(ts) <= limit THEN Len(ts) ELSE limit
               /\ \A j \in DOMAIN reply :
                     /\ Len(ts) - Len(reply) + j \in DOMAIN ts
                     /\ reply[j] = ts[Len(ts) - Len(reply) + j]
<1>1. CASE Len(ts) <= limit
    BY <1>1 DEF RecentTurns
<1>2. CASE ~(Len(ts) <= limit)
    <2> DEFINE first == Len(ts) - limit + 1
               reply == SubSeq(ts, first, Len(ts))
    <2>1. first \in Int /\ first >= 1 /\ Len(ts) \in Nat
        BY <1>2
    <2>2. \A i \in first .. Len(ts) : ts[i] \in Turn
        BY <2>1
    <2>3. /\ reply \in Seq(Turn)
          /\ Len(reply) = IF first <= Len(ts) THEN Len(ts) - first + 1 ELSE 0
          /\ \A i \in 1 .. Len(ts) - first + 1 : reply[i] = ts[first + i - 1]
        BY <2>1, <2>2, SubSeqProperties
    <2>4. Len(reply) = limit
        BY <1>2, <2>1, <2>3
    <2>5. \A j \in DOMAIN reply :
             /\ Len(ts) - Len(reply) + j \in DOMAIN ts
             /\ reply[j] = ts[Len(ts) - Len(reply) + j]
        <3> SUFFICES ASSUME NEW j \in DOMAIN reply
                     PROVE  /\ Len(ts) - Len(reply) + j \in DOMAIN ts
                            /\ reply[j] = ts[Len(ts) - Len(reply) + j]
            OBVIOUS
        <3>1. j \in 1 .. limit
            BY <2>3, <2>4
        <3> QED
            BY <1>2, <2>1, <2>3, <2>4, <3>1
    <2> QED
        BY <1>2, <2>3, <2>4, <2>5 DEF RecentTurns
<1>3. QED
    BY <1>1, <1>2

(* What a poll can find: a turn of the thread with the text of the call;   *)
(* and if the whole thread fitted in the history read before sending, one  *)
(* that is newer than this read.                                           *)
IsFreshMatch(ts, old, reply, msg, i) ==
    LET k == Len(ts) - Len(reply) + i
    IN  /\ k \in DOMAIN ts
        /\ ts[k] = reply[i]
        /\ ts[k].input = msg
        /\ old <= HistoryLimit => k > old

(* The scan finds only such turns, in any history a poll can get.          *)
LEMMA FoundTurn ==
    ASSUME NEW ts \in Seq(Turn), NEW old \in Nat, NEW msg, NEW count \in Nat,
           count = IF old <= HistoryLimit THEN old ELSE HistoryLimit,
           NEW reply, reply = RecentTurns(ts, count + PollSlack),
           NEW i \in FindMatchingTurn(reply, count, msg)
    PROVE  IsFreshMatch(ts, old, reply, msg, i)
<1>1. count + PollSlack \in Nat
    BY LimitsAssumption
<1>2. /\ reply \in Seq(Turn)
      /\ Len(reply) <= Len(ts)
      /\ \A j \in DOMAIN reply :
            /\ Len(ts) - Len(reply) + j \in DOMAIN ts
            /\ reply[j] = ts[Len(ts) - Len(reply) + j]
    BY <1>1, RecentTurnsAreTheNewest
<1>3. i \in DOMAIN reply /\ i > count /\ reply[i].input = msg
    BY DEF FindMatchingTurn, DecisiveTurns
<1>4. old <= HistoryLimit => Len(ts) - Len(reply) + i > old
    BY <1>2, <1>3
<1> QED
    BY <1>2, <1>3, <1>4 DEF IsFreshMatch

-----------------------------------------------------------------------------
(* Type correctness alone is not inductive: a poll indexes turns by the    *)
(* thread of its call, so the thread must be known by then, and stay known *)
(* until the gateway has opened the turn of the call's message.            *)
InboxSent == \A c \in inbox : pc[c] \in {"poll", "wait", "done"}
ThreadKnown == \A c \in Calls : pc[c] \in InThread \/ c \in inbox => thread[c] \in Threads

Typing == Types /\ InboxSent /\ ThreadKnown

(* The initial states are typed, whatever the gateway knows by then.       *)
LEMMA TypingInit == Init => Typing
BY BoundsAssumption, NamesAssumption
   DEF Init, Typing, Types, InboxSent, ThreadKnown, InThread, Turn, TurnStates,
       Running

(* However a request ends, the number of faults stays within its bound.    *)
LEMMA FaultsBounded ==
    ASSUME Types, NEW c \in Calls,
           RequestSucceeds(c) \/ RequestFails(c) \/ UNCHANGED faults
    PROVE  faults' \in 0..MaxFaults
BY BoundsAssumption DEF RequestSucceeds, RequestFails, Types

(* Every step keeps every variable in its type.                            *)
LEMMA TypeNext == Typing /\ [Next]_vars => Types'
<1> SUFFICES ASSUME Typing, [Next]_vars PROVE Types'
    OBVIOUS
<1> Types /\ ThreadKnown /\ InboxSent
    BY DEF Typing
<1> USE DEF Running
<1>1. ASSUME NEW c \in Calls, Start(c) PROVE Types'
    BY <1>1 DEF Start, Goto, Types
<1>2. ASSUME NEW c \in Calls, ListThreads(c) PROVE Types'
    <2>1. /\ thread' \in [Calls -> Threads \union {NoThread}]
          /\ pc' \in [Calls -> Running \union {"idle", "done"}]
        <3>1. ExistingThreads \subseteq Threads
            BY DEF ExistingThreads, Types
        <3> QED
            BY <1>2, <3>1 DEF ListThreads, Goto, Types
    <2>2. faults' \in 0..MaxFaults
        BY <1>2, FaultsBounded DEF ListThreads
    <2> QED
        BY <1>2, <2>1, <2>2 DEF ListThreads, Types
<1>3. ASSUME NEW c \in Calls, CreateThread(c) PROVE Types'
    <2>1. faults' \in 0..MaxFaults
        BY <1>3, FaultsBounded DEF CreateThread
    <2>2. /\ listed' \subseteq Threads
          /\ creator' \in [Threads -> Calls \union {Other}]
          /\ active' \in Threads \union {NoThread}
          /\ UNCHANGED <<turns, inbox, assistant>>
        BY <1>3 DEF CreateThread, UseNewThread, NewThread, Types
    <2>3. /\ thread' \in [Calls -> Threads \union {NoThread}]
          /\ pc' \in [Calls -> Running \union {"idle", "done"}]
          /\ outcome' \in [Calls -> {"none", "answer", "error"}]
        <3>1. \/ /\ \E t \in Threads : thread' = [thread EXCEPT ![c] = t]
                 /\ pc' = [pc EXCEPT ![c] = "load"]
                 /\ UNCHANGED outcome
              \/ /\ UNCHANGED thread
                 /\ pc' = [pc EXCEPT ![c] = "done"]
                 /\ outcome' = [outcome EXCEPT ![c] = "error"]
            BY <1>3 DEF CreateThread, UseNewThread, Goto, Fail
        <3>2. /\ thread \in [Calls -> Threads \union {NoThread}]
              /\ pc \in [Calls -> Running \union {"idle", "done"}]
              /\ outcome \in [Calls -> {"none", "answer", "error"}]
            BY DEF Types
        <3> QED
            BY <3>1, <3>2
    <2>4. UNCHANGED <<requestVars, ctxDone, initialTurnCount, before, answeredAt>>
        BY <1>3 DEF CreateThread
    <2> QED
        BY <2>1, <2>2, <2>3, <2>4 DEF Types
<1>4. ASSUME NEW c \in Calls, LoadHistory(c) PROVE Types'
    <2>1. faults' \in 0..MaxFaults
        BY <1>4, FaultsBounded DEF LoadHistory
    <2>2. /\ initialTurnCount' \in [Calls -> Nat]
          /\ before' \in [Calls -> Nat]
        <3> DEFINE n == Len(RecentTurns(turns[thread[c]], HistoryLimit))
                   k == Len(turns[thread[c]])
        <3>1. n \in Nat /\ k \in Nat
            <4>1. thread[c] \in Threads
                BY <1>4 DEF LoadHistory, ThreadKnown, InThread
            <4>2. turns[thread[c]] \in Seq(Turn)
                BY <4>1 DEF Types
            <4> QED
                BY <4>2, LimitsAssumption, RecentTurnsAreTheNewest
        <3>2. \/ /\ initialTurnCount' = [initialTurnCount EXCEPT ![c] = n]
                 /\ before' = [before EXCEPT ![c] = k]
              \/ UNCHANGED <<initialTurnCount, before>>
            BY <1>4 DEF LoadHistory
        <3>3. initialTurnCount \in [Calls -> Nat] /\ before \in [Calls -> Nat]
            BY DEF Types
        <3> HIDE DEF n, k
        <3>4. CASE UNCHANGED <<initialTurnCount, before>>
            BY <3>3, <3>4
        <3>5. CASE /\ initialTurnCount' = [initialTurnCount EXCEPT ![c] = n]
                   /\ before' = [before EXCEPT ![c] = k]
            BY <3>1, <3>3, <3>5
        <3> QED
            BY <3>2, <3>4, <3>5
    <2>3. /\ pc' \in [Calls -> Running \union {"idle", "done"}]
          /\ outcome' \in [Calls -> {"none", "answer", "error"}]
        BY <1>4 DEF LoadHistory, Goto, Fail, Types
    <2>4. UNCHANGED <<gatewayVars, requestVars, ctxDone, thread, answeredAt>>
        BY <1>4 DEF LoadHistory
    <2> QED
        BY <2>1, <2>2, <2>3, <2>4 DEF Types
<1>5. ASSUME NEW c \in Calls, Send(c) PROVE Types'
    <2>1. faults' \in 0..MaxFaults
        BY <1>5, FaultsBounded DEF Send
    <2>2. /\ pc' \in [Calls -> Running \union {"idle", "done"}]
          /\ outcome' \in [Calls -> {"none", "answer", "error"}]
          /\ inbox' \subseteq Calls
        BY <1>5 DEF Send, SendFails, Goto, Fail, Types
    <2> QED
        BY <1>5, <2>1, <2>2 DEF Send, Types
<1>6. ASSUME NEW c \in Calls, Poll(c) PROVE Types'
    <2>1. faults' \in 0..MaxFaults
        BY <1>6, FaultsBounded DEF Poll, PollFails
    <2>2. /\ pc' \in [Calls -> Running \union {"idle", "done"}]
          /\ outcome' \in [Calls -> {"none", "answer", "error"}]
        BY <1>6 DEF Poll, PollFails, Goto, Fail, Types
    <2>3. answeredAt' \in [Calls -> Nat]
        <3> DEFINE ts    == turns[thread[c]]
                   reply == RecentTurns(ts, initialTurnCount[c] + PollSlack)
                   found == FindMatchingTurn(reply, initialTurnCount[c],
                                             message[c])
        <3>1. ts \in Seq(Turn)
            BY <1>6 DEF Poll, PollFails, ThreadKnown, InThread, Types
        <3>2. initialTurnCount[c] + PollSlack \in Nat
            BY LimitsAssumption DEF Types
        <3>3. \A i \in found : Len(ts) - Len(reply) + i \in Nat
            <4>1. found \subseteq DOMAIN reply
                BY DEF FindMatchingTurn, DecisiveTurns
            <4>2. \A i \in DOMAIN reply : Len(ts) - Len(reply) + i \in DOMAIN ts
                BY <3>1, <3>2, RecentTurnsAreTheNewest
            <4>3. DOMAIN ts \subseteq Nat
                BY <3>1
            <4> HIDE DEF ts, reply, found
            <4> QED
                BY <4>1, <4>2, <4>3
        <3>4. \/ UNCHANGED answeredAt
              \/ \E i \in found :
                    answeredAt' = [answeredAt EXCEPT
                                     ![c] = Len(ts) - Len(reply) + i]
            BY <1>6 DEF Poll, PollFails
        <3> HIDE DEF ts, reply, found
        <3> QED
            BY <3>3, <3>4 DEF Types
    <2>4. UNCHANGED <<gatewayVars, requestVars, ctxDone, thread,
                      initialTurnCount, before>>
        BY <1>6 DEF Poll, PollFails
    <2> QED
        BY <2>1, <2>2, <2>3, <2>4 DEF Types
<1>7. ASSUME NEW c \in Calls, WaitTick(c) PROVE Types'
    BY <1>7 DEF WaitTick, Goto, Types
<1>8. ASSUME NEW c \in Calls, WaitDone(c) PROVE Types'
    BY <1>8 DEF WaitDone, Goto, Fail, Types
<1>9. ASSUME NEW c \in Calls, EndContext(c) PROVE Types'
    BY <1>9 DEF EndContext, Types
<1>10. ASSUME NEW c \in Calls, BeginTurn(c) PROVE Types'
    <2>1. thread[c] \in Threads /\ message[c] \in Messages
        BY <1>10 DEF BeginTurn, ThreadKnown, Types
    <2>2. OpenTurn(thread[c], message[c], c)
        BY <1>10 DEF BeginTurn
    <2>3. turns' \in [Threads -> Seq(Turn)]
        BY <2>1, <2>2, OpenTurnEffect
    <2> QED
        BY <1>10, <2>2, <2>3 DEF BeginTurn, OpenTurn, Types
<1>11. ASSUME NEW t \in Threads, NEW m \in Messages, OtherTurn(t, m)
       PROVE  Types'
    <2>1. OpenTurn(t, m, Other)
        BY <1>11 DEF OtherTurn
    <2>2. turns' \in [Threads -> Seq(Turn)]
        BY <2>1, OpenTurnEffect
    <2> QED
        BY <1>11, <2>1, <2>2 DEF OtherTurn, OpenTurn, Types
<1>12. ASSUME NEW t \in Threads, NEW i \in DOMAIN turns[t], UpdateTurn(t, i)
       PROVE  Types'
    <2>1. turns' \in [Threads -> Seq(Turn)]
        BY <1>12, UpdateTurnEffect
    <2> QED
        BY <1>12, <2>1 DEF UpdateTurn, Types
<1>13. CASE UNCHANGED vars
    BY <1>13 DEF vars, Types
<1> QED
    BY <1>1, <1>2, <1>3, <1>4, <1>5, <1>6, <1>7, <1>8, <1>9, <1>10, <1>11,
       <1>12, <1>13 DEF Next, CallStep, Cancel, Timeout, Gateway

-----------------------------------------------------------------------------
(* The inductive invariant.  PostedOnce and FreshMatch speak of what a     *)
(* call remembers, of messages on their way and of turns that do not move, *)
(* so they rest on what is known of each call: it has an outcome only when *)
(* it is done; the counts it remembers are those of its thread as it was;  *)
(* its message is in the inbox or in a thread only after it was sent.      *)
Sent == {"poll", "wait", "done"}
Unread == {"idle", "list", "create", "load"}

CallInv(c) ==
    /\ c \in inbox => pc[c] \in Sent
    /\ pc[c] \in InThread \/ c \in inbox \/ Answered(c) => thread[c] \in Threads
    /\ pc[c] # "done" => outcome[c] = "none"
    /\ pc[c] \in Unread => before[c] = 0
    /\ initialTurnCount[c] =
          IF before[c] <= HistoryLimit THEN before[c] ELSE HistoryLimit
    /\ thread[c] \in Threads => before[c] <= Len(turns[thread[c]])
    /\ Answered(c) =>
          /\ answeredAt[c] \in DOMAIN turns[thread[c]]
          /\ AnswerOf(c).input = message[c] /\ AnswerOf(c).response
          /\ before[c] <= HistoryLimit => answeredAt[c] > before[c]

TurnsSent ==
    \A t \in Threads : \A i \in DOMAIN turns[t] :
        turns[t][i].by # Other => pc[turns[t][i].by] \in Sent

IndInv ==
    /\ Types
    /\ \A c \in Calls : CallInv(c)
    /\ TurnsSent /\ PostedOnce

(* The inductive invariant contains what the typing argument needs.        *)
LEMMA IndInvTyping == IndInv => Typing
BY DEF IndInv, Typing, InboxSent, ThreadKnown, CallInv, Sent, Types

(* It holds initially: no call has begun and no thread has a turn.         *)
LEMMA IndInvInit == Init => IndInv
<1> SUFFICES ASSUME Init PROVE IndInv
    OBVIOUS
<1>1. Types
    BY TypingInit DEF Typing
<1>2. \A c \in Calls : CallInv(c)
    <2> SUFFICES ASSUME NEW c \in Calls PROVE CallInv(c)
        OBVIOUS
    <2>1. /\ inbox = {} /\ pc[c] = "idle" /\ thread[c] = NoThread
          /\ before[c] = 0 /\ initialTurnCount[c] = 0 /\ outcome[c] = "none"
        BY DEF Init
    <2> QED
        BY <2>1, LimitsAssumption, NamesAssumption
           DEF CallInv, Answered, InThread, Sent, Unread
<1>3. \A t \in Threads : DOMAIN turns[t] = {}
    BY DEF Init
<1> QED
    BY <1>1, <1>2, <1>3 DEF IndInv, TurnsSent, PostedOnce

(* The steps of a call leave the turns alone, and move no other call; what *)
(* the gateway does to the turns moves no call.                            *)
CallMoves(c) ==
    \/ Start(c) \/ ListThreads(c) \/ CreateThread(c) \/ LoadHistory(c)
    \/ Send(c) \/ Poll(c) \/ WaitTick(c) \/ WaitDone(c) \/ EndContext(c)

SameCall(d) ==
    /\ pc'[d] = pc[d] /\ thread'[d] = thread[d]
    /\ initialTurnCount'[d] = initialTurnCount[d] /\ before'[d] = before[d]
    /\ outcome'[d] = outcome[d] /\ answeredAt'[d] = answeredAt[d]

LEMMA CallMovesAlone ==
    ASSUME Types, NEW c \in Calls, CallMoves(c)
    PROVE  /\ UNCHANGED <<turns, message, session>>
           /\ \A d \in Calls \ {c} : SameCall(d)
           /\ inbox' \in {inbox, inbox \union {c}}
<1> USE DEF Goto, Fail, SameCall, PollFails, UseNewThread
<1>1. CASE Start(c)
    BY <1>1 DEF Start, Types
<1>2. CASE ListThreads(c)
    BY <1>2 DEF ListThreads, Types
<1>3. CASE CreateThread(c)
    BY <1>3 DEF CreateThread, UseNewThread, NewThread, Types
<1>4. CASE LoadHistory(c)
    BY <1>4 DEF LoadHistory, Types
<1>5. CASE Send(c)
    BY <1>5 DEF Send, SendFails, Types
<1>6. CASE Poll(c)
    BY <1>6 DEF Poll, PollFails, Types
<1>7. CASE WaitTick(c)
    BY <1>7 DEF WaitTick, Types
<1>8. CASE WaitDone(c)
    BY <1>8 DEF WaitDone, Types
<1>9. CASE EndContext(c)
    BY <1>9 DEF EndContext, Types
<1> QED
    BY <1>1, <1>2, <1>3, <1>4, <1>5, <1>6, <1>7, <1>8, <1>9 DEF CallMoves

(* A step is a move of one call, of the gateway, or none.                  *)
LEMMA StepCases ==
    ASSUME [Next]_vars
    PROVE  \/ \E c \in Calls : CallMoves(c)
           \/ \E c \in Calls : BeginTurn(c)
           \/ \E t \in Threads, m \in Messages : OtherTurn(t, m)
           \/ \E t \in Threads : \E i \in DOMAIN turns[t] : UpdateTurn(t, i)
           \/ UNCHANGED vars
BY DEF Next, CallStep, CallMoves, Cancel, Timeout, Gateway

(* Once its message is sent a call only polls, waits and ends.             *)
LEMMA SentStays ==
    ASSUME Types, NEW c \in Calls, CallMoves(c), pc[c] \in Sent
    PROVE  /\ pc'[c] \in Sent
           /\ UNCHANGED <<thread, before, inbox>>
<1>1. Poll(c) \/ WaitTick(c) \/ WaitDone(c) \/ EndContext(c)
    BY DEF CallMoves, Start, ListThreads, CreateThread, LoadHistory, Send, Sent
<1>2. UNCHANGED <<thread, before, inbox>>
    BY <1>1 DEF Poll, PollFails, WaitTick, WaitDone, EndContext
<1>3. pc'[c] \in {pc[c], "poll", "wait", "done"}
    BY <1>1 DEF Poll, PollFails, WaitTick, WaitDone, EndContext, Goto, Fail, Types
<1> QED
    BY <1>2, <1>3 DEF Sent

(* A call that moves keeps the facts known of it.                          *)
LEMMA CallInvOfMover ==
    ASSUME Types, NEW c \in Calls, CallInv(c), CallMoves(c)
    PROVE  CallInv(c)'
<1> UNCHANGED <<turns, message>>
    BY CallMovesAlone
<1> USE DEF CallInv, Answered, AnswerOf, InThread, Sent, Unread, Goto, Fail
<1>1. CASE Start(c)
    BY <1>1 DEF Start, Types
<1>2. CASE ListThreads(c)
    <2>1. ExistingThreads \subseteq Threads
        BY DEF ExistingThreads, Types
    <2> QED
        BY <1>2, <2>1 DEF ListThreads, Types
<1>3. CASE CreateThread(c)
    BY <1>3 DEF CreateThread, UseNewThread, NewThread, Types
<1>4. CASE LoadHistory(c)
    <2>1. thread[c] \in Threads /\ turns[thread[c]] \in Seq(Turn)
        BY <1>4 DEF LoadHistory, Types
    <2>2. Len(RecentTurns(turns[thread[c]], HistoryLimit)) =
            IF Len(turns[thread[c]]) <= HistoryLimit
            THEN Len(turns[thread[c]]) ELSE HistoryLimit
        BY <2>1, LimitsAssumption, RecentTurnsAreTheNewest
    <2> QED
        BY <1>4, <2>1, <2>2 DEF LoadHistory, Types
<1>5. CASE Send(c)
    BY <1>5 DEF Send, SendFails, Types
<1>6. CASE Poll(c)
    <2> DEFINE ts    == turns[thread[c]]
               count == initialTurnCount[c]
               reply == RecentTurns(ts, count + PollSlack)
               found == FindMatchingTurn(reply, count, message[c])
    <2>1. /\ pc[c] = "poll"
          /\ UNCHANGED <<inbox, thread, initialTurnCount, before>>
        BY <1>6 DEF Poll, PollFails
    <2>2. /\ thread[c] \in Threads /\ ts \in Seq(Turn)
          /\ before[c] \in Nat /\ count \in Nat
          /\ count = IF before[c] <= HistoryLimit THEN before[c]
                                                 ELSE HistoryLimit
        BY <2>1 DEF Types
    <2>3. \A i \in found : IsFreshMatch(ts, before[c], reply, message[c], i)
        <3> HIDE DEF ts, count
        <3> QED
            BY <2>2, FoundTurn
    <2>4. \/ /\ pc' = [pc EXCEPT ![c] = "wait"]
             /\ UNCHANGED <<outcome, answeredAt>>
          \/ /\ pc' = [pc EXCEPT ![c] = "done"]
             /\ outcome' = [outcome EXCEPT ![c] = "error"]
          \/ \E i \in found :
                /\ reply[i].response
                /\ pc' = [pc EXCEPT ![c] = "done"]
                /\ outcome' = [outcome EXCEPT ![c] = "answer"]
                /\ answeredAt' = [answeredAt EXCEPT
                                    ![c] = Len(ts) - Len(reply) + i]
        BY <1>6 DEF Poll, PollFails
    <2>5. /\ pc \in [Calls -> Running \union {"idle", "done"}]
          /\ outcome \in [Calls -> {"none", "answer", "error"}]
          /\ answeredAt \in [Calls -> Nat]
        BY DEF Types
    <2> HIDE DEF ts, reply, found
    <2>6. CASE /\ pc'[c] \in {"wait", "done"} /\ outcome'[c] # "answer"
               /\ pc'[c] = "wait" => outcome'[c] = "none"
        BY <2>1, <2>2, <2>6
    <2>7. ASSUME NEW i \in found, reply[i].response, pc'[c] = "done",
                 answeredAt'[c] = Len(ts) - Len(reply) + i
          PROVE  CallInv(c)'
        <3> DEFINE k == Len(ts) - Len(reply) + i
        <3>1. /\ k \in DOMAIN turns[thread[c]]
              /\ turns[thread[c]][k] = reply[i]
              /\ turns[thread[c]][k].input = message[c]
              /\ before[c] <= HistoryLimit => k > before[c]
            BY <2>3 DEF ts, IsFreshMatch
        <3>2. answeredAt'[c] = k
            BY <2>7
        <3> HIDE DEF k
        <3> QED
            BY <2>1, <2>2, <2>7, <3>1, <3>2
    <2> QED
        BY <2>1, <2>4, <2>5, <2>6, <2>7
<1>7. CASE WaitTick(c)
    BY <1>7 DEF WaitTick, Types
<1>8. CASE WaitDone(c)
    BY <1>8 DEF WaitDone, Types
<1>9. CASE EndContext(c)
    BY <1>9 DEF EndContext, Types
<1> QED
    BY <1>1, <1>2, <1>3, <1>4, <1>5, <1>6, <1>7, <1>8, <1>9 DEF CallMoves

(* Whoever a turn is by, other than Other, is a call that has sent.        *)
LEMMA AuthorSent ==
    ASSUME Types, TurnsSent, NEW t \in Threads, NEW i \in DOMAIN turns[t],
           turns[t][i].by # Other
    PROVE  turns[t][i].by \in Calls /\ pc[turns[t][i].by] \in Sent
<1>1. turns[t] \in Seq(Turn)
    BY DEF Types
<1>2. turns[t][i] \in Turn
    BY <1>1
<1> QED
    BY <1>2 DEF Turn, TurnsSent

(* What a step of a call does to the invariant.                            *)
LEMMA CallMovesInv ==
    ASSUME IndInv, Types', NEW c \in Calls, CallMoves(c)
    PROVE  IndInv'
<1> Types /\ TurnsSent /\ PostedOnce
    BY DEF IndInv
<1>1. /\ UNCHANGED <<turns, message>>
      /\ \A d \in Calls \ {c} : SameCall(d)
      /\ inbox' \in {inbox, inbox \union {c}}
    BY CallMovesAlone
<1>2. \A d \in Calls : CallInv(d)'
    <2>1. CallInv(c)'
        BY CallInvOfMover DEF IndInv
    <2>2. ASSUME NEW d \in Calls \ {c} PROVE CallInv(d)'
        BY <1>1, <2>2 DEF IndInv, CallInv, SameCall, Answered, AnswerOf
    <2> QED
        BY <2>1, <2>2
<1>3. ASSUME pc[c] \in Sent
      PROVE  pc'[c] \in Sent /\ UNCHANGED <<thread, before, inbox>>
    BY <1>3, SentStays
<1>4. TurnsSent'
    <2> SUFFICES ASSUME NEW t \in Threads, NEW i \in DOMAIN turns[t],
                        turns[t][i].by # Other
                 PROVE  pc'[turns[t][i].by] \in Sent
        BY <1>1 DEF TurnsSent
    <2>1. turns[t][i].by \in Calls /\ pc[turns[t][i].by] \in Sent
        BY AuthorSent
    <2> QED
        BY <1>1, <1>3, <2>1 DEF SameCall
<1>5. PostedOnce'
    <2> SUFFICES ASSUME NEW t \in Threads, NEW i \in DOMAIN turns[t],
                        turns[t][i].by # Other
                 PROVE  /\ turns[t][i].by \notin inbox'
                        /\ t = thread'[turns[t][i].by]
                        /\ i > before'[turns[t][i].by]
        BY <1>1 DEF PostedOnce
    <2>1. turns[t][i].by \in Calls /\ pc[turns[t][i].by] \in Sent
        BY AuthorSent
    <2>2. /\ turns[t][i].by \notin inbox
          /\ t = thread[turns[t][i].by] /\ i > before[turns[t][i].by]
        BY DEF PostedOnce
    <2> QED
        BY <1>1, <1>3, <2>1, <2>2 DEF SameCall
<1> QED
    BY <1>2, <1>4, <1>5 DEF IndInv

(* A thread only grows, and of a turn that exists only the state and the   *)
(* response change: what is known of the calls stays true.                 *)
LEMMA CallInvKept ==
    ASSUME IndInv, turns' \in [Threads -> Seq(Turn)], inbox' \subseteq inbox,
           UNCHANGED <<message, pc, thread, initialTurnCount, before, outcome,
                       answeredAt>>,
           \A u \in Threads :
               /\ Len(turns'[u]) >= Len(turns[u])
               /\ \A i \in DOMAIN turns[u] :
                     /\ turns'[u][i].input = turns[u][i].input
                     /\ turns[u][i].response => turns'[u][i].response
    PROVE  \A c \in Calls : CallInv(c)'
<1> SUFFICES ASSUME NEW c \in Calls PROVE CallInv(c)'
    OBVIOUS
<1>1. CallInv(c) /\ Types
    BY DEF IndInv
<1>2. CASE thread[c] \notin Threads
    BY <1>1, <1>2 DEF CallInv, Answered
<1>3. CASE thread[c] \in Threads
    <2> DEFINE ts == turns[thread[c]]
    <2>1. /\ ts \in Seq(Turn) /\ ts' \in Seq(Turn)
          /\ before[c] \in Nat /\ answeredAt[c] \in Nat
        BY <1>1, <1>3 DEF Types
    <2>2. /\ Len(ts') >= Len(ts)
          /\ \A i \in DOMAIN ts : /\ i \in DOMAIN ts'
                                  /\ ts'[i].input = ts[i].input
                                  /\ ts[i].response => ts'[i].response
        BY <1>3, <2>1
    <2>3. before[c] <= Len(ts) => before[c] <= Len(ts')
        BY <2>1, <2>2
    <2>4. Answered(c)' =>
              /\ answeredAt'[c] \in DOMAIN ts'
              /\ ts'[answeredAt'[c]].input = message'[c]
              /\ ts'[answeredAt'[c]].response
              /\ before'[c] <= HistoryLimit => answeredAt'[c] > before'[c]
        BY <1>1, <2>2 DEF CallInv, Answered, AnswerOf
    <2> QED
        BY <1>1, <1>3, <2>3, <2>4 DEF CallInv, Answered, AnswerOf
<1> QED
    BY <1>2, <1>3

(* A new turn keeps the invariant if its author is not known in any thread *)
(* and, when a call, has sent that very message there.                     *)
LEMMA OpenTurnInv ==
    ASSUME IndInv, Types', NEW t \in Threads, NEW m \in Messages,
           NEW author \in Calls \union {Other}, OpenTurn(t, m, author),
           \/ author = Other /\ UNCHANGED inbox
           \/ /\ author \in inbox /\ inbox' = inbox \ {author}
              /\ t = thread[author] /\ m = message[author]
    PROVE  IndInv'
<1> Types /\ TurnsSent /\ PostedOnce
    BY DEF IndInv
<1> DEFINE last == Len(turns[t]) + 1
<1>1. /\ turns' \in [Threads -> Seq(Turn)]
      /\ \A u \in Threads \ {t} : turns'[u] = turns[u]
      /\ Len(turns'[t]) = last
      /\ \A i \in DOMAIN turns[t] : turns'[t][i] = turns[t][i]
      /\ turns'[t][last].by = author
      /\ turns'[t][last].input = m
      /\ turns'[t][last].response = FALSE
    BY OpenTurnEffect
<1>2. /\ turns \in [Threads -> Seq(Turn)]
      /\ DOMAIN turns'[t] = (DOMAIN turns[t]) \union {last}
      /\ last \in Nat
    BY <1>1 DEF Types
<1>3. UNCHANGED <<message, pc, thread, initialTurnCount, before, outcome, answeredAt>>
    BY DEF OpenTurn
<1>4. inbox' \subseteq inbox
    OBVIOUS
<1>5. \A c \in Calls : CallInv(c)'
    <2>1. \A u \in Threads :
             /\ Len(turns'[u]) >= Len(turns[u])
             /\ \A i \in DOMAIN turns[u] : turns'[u][i] = turns[u][i]
        <3> SUFFICES ASSUME NEW u \in Threads
                     PROVE  /\ Len(turns'[u]) >= Len(turns[u])
                            /\ \A i \in DOMAIN turns[u] :
                                  turns'[u][i] = turns[u][i]
            OBVIOUS
        <3>1. Len(turns[u]) \in Nat
            BY <1>2
        <3>2. CASE u = t
            BY <1>1, <3>1, <3>2
        <3>3. CASE u # t
            BY <1>1, <3>1, <3>3
        <3> QED
            BY <3>2, <3>3
    <2>2. \A u \in Threads : \A i \in DOMAIN turns[u] :
             /\ turns'[u][i].input = turns[u][i].input
             /\ turns[u][i].response => turns'[u][i].response
        BY <2>1
    <2> QED
        BY <1>1, <1>3, <1>4, <2>1, <2>2, CallInvKept
<1>6. \A u \in Threads : \A i \in DOMAIN turns'[u] :
          \/ i \in DOMAIN turns[u] /\ turns'[u][i] = turns[u][i]
          \/ u = t /\ i = last
    BY <1>1, <1>2
<1>7. author # Other =>
          /\ author \in Calls /\ pc[author] \in Sent
          /\ t = thread[author] /\ m = message[author]
          /\ last > before[author]
    <2> HAVE author # Other
    <2>1. /\ author \in Calls /\ author \in inbox
          /\ t = thread[author] /\ m = message[author]
        OBVIOUS
    <2>2. pc[author] \in Sent /\ before[author] <= Len(turns[t])
        BY <2>1 DEF IndInv, CallInv
    <2>3. before[author] \in Nat /\ Len(turns[t]) \in Nat
        BY <2>1 DEF Types
    <2> QED
        BY <2>1, <2>2, <2>3
<1> HIDE DEF last
<1>8. TurnsSent'
    <2> SUFFICES ASSUME NEW u \in Threads, NEW i \in DOMAIN turns'[u],
                        turns'[u][i].by # Other
                 PROVE  pc'[turns'[u][i].by] \in Sent
        BY DEF TurnsSent
    <2>1. CASE i \in DOMAIN turns[u] /\ turns'[u][i] = turns[u][i]
        BY <1>3, <2>1, AuthorSent
    <2>2. CASE u = t /\ i = last
        BY <1>1, <1>3, <1>7, <2>2
    <2> QED
        BY <1>6, <2>1, <2>2
<1>9. \A u \in Threads : \A i \in DOMAIN turns[u] :
          turns[u][i].by # Other => turns[u][i].by # author
    BY DEF PostedOnce
<1>10. PostedOnce'
    <2> SUFFICES ASSUME NEW u \in Threads, NEW i \in DOMAIN turns'[u],
                        turns'[u][i].by # Other
                 PROVE  LET c == turns'[u][i].by
                        IN  /\ c \notin inbox'
                            /\ u = thread[c] /\ i > before[c]
                            /\ turns'[u][i].input = message[c]
                            /\ \A v \in Threads : \A j \in DOMAIN turns'[v] :
                                  turns'[v][j].by = c => v = u /\ j = i
        BY <1>3 DEF PostedOnce
    <2>1. CASE i \in DOMAIN turns[u] /\ turns'[u][i] = turns[u][i]
        <3>1. turns[u][i].by # author
            BY <1>9, <2>1
        <3>2. \A v \in Threads : \A j \in DOMAIN turns'[v] :
                 turns'[v][j].by = turns[u][i].by =>
                    j \in DOMAIN turns[v] /\ turns'[v][j] = turns[v][j]
            BY <1>1, <1>6, <3>1
        <3> QED
            BY <1>4, <2>1, <3>2 DEF PostedOnce
    <2>2. CASE u = t /\ i = last
        <3>1. author # Other /\ turns'[u][i].by = author /\ author \notin inbox'
            BY <1>1, <2>2
        <3>2. \A v \in Threads : \A j \in DOMAIN turns'[v] :
                 turns'[v][j].by = author => v = t /\ j = last
            BY <1>6, <1>9, <3>1
        <3> QED
            BY <1>1, <1>7, <2>2, <3>1, <3>2
    <2> QED
        BY <1>6, <2>1, <2>2
<1> QED
    BY <1>5, <1>8, <1>10 DEF IndInv

(* An update of a turn keeps the invariant: it takes no response away.     *)
LEMMA UpdateTurnInv ==
    ASSUME IndInv, Types', NEW t \in Threads, NEW i \in DOMAIN turns[t],
           UpdateTurn(t, i)
    PROVE  IndInv'
<1> Types /\ TurnsSent /\ PostedOnce
    BY DEF IndInv
<1>1. /\ turns' \in [Threads -> Seq(Turn)] /\ turns \in [Threads -> Seq(Turn)]
      /\ \A u \in Threads : Len(turns'[u]) = Len(turns[u])
      /\ \A u \in Threads : \A j \in DOMAIN turns[u] :
            /\ turns'[u][j].by = turns[u][j].by
            /\ turns'[u][j].input = turns[u][j].input
            /\ turns[u][j].response => turns'[u][j].response
    BY UpdateTurnEffect DEF Types
<1>2. UNCHANGED <<inbox, message, pc, thread, initialTurnCount, before, outcome, answeredAt>>
    BY DEF UpdateTurn
<1>3. \A u \in Threads : DOMAIN turns'[u] = DOMAIN turns[u]
    BY <1>1
<1>4. \A c \in Calls : CallInv(c)'
    <2>1. \A u \in Threads :
             /\ Len(turns'[u]) >= Len(turns[u])
             /\ \A j \in DOMAIN turns[u] :
                   turns[u][j].response => turns'[u][j].response
        BY <1>1
    <2> QED
        BY <1>1, <1>2, <2>1, CallInvKept
<1>5. TurnsSent'
    BY <1>1, <1>2, <1>3 DEF TurnsSent
<1>6. PostedOnce'
    BY <1>1, <1>2, <1>3 DEF PostedOnce
<1> QED
    BY <1>4, <1>5, <1>6 DEF IndInv

(* Every step keeps the inductive invariant.                               *)
LEMMA IndInvNext == IndInv /\ [Next]_vars => IndInv'
<1> SUFFICES ASSUME IndInv, [Next]_vars PROVE IndInv'
    OBVIOUS
<1>1. Types'
    BY IndInvTyping, TypeNext
<1>2. ASSUME NEW c \in Calls, CallMoves(c) PROVE IndInv'
    BY <1>1, <1>2, CallMovesInv
<1>3. ASSUME NEW c \in Calls, BeginTurn(c) PROVE IndInv'
    <2>1. /\ c \in inbox /\ inbox' = inbox \ {c}
          /\ OpenTurn(thread[c], message[c], c)
        BY <1>3 DEF BeginTurn
    <2>2. thread[c] \in Threads /\ message[c] \in Messages
        BY <2>1 DEF IndInv, CallInv, Types
    <2> QED
        BY <1>1, <2>1, <2>2, OpenTurnInv
<1>4. ASSUME NEW t \in Threads, NEW m \in Messages, OtherTurn(t, m)
      PROVE  IndInv'
    <2>1. OpenTurn(t, m, Other) /\ UNCHANGED inbox
        BY <1>4 DEF OtherTurn
    <2> QED
        BY <1>1, <2>1, OpenTurnInv
<1>5. ASSUME NEW t \in Threads, NEW i \in DOMAIN turns[t], UpdateTurn(t, i)
      PROVE  IndInv'
    BY <1>1, <1>5, UpdateTurnInv
<1>6. CASE UNCHANGED vars
    BY <1>6 DEF vars, IndInv, Types, CallInv, Answered, AnswerOf, TurnsSent,
                PostedOnce
<1> QED
    BY <1>2, <1>3, <1>4, <1>5, <1>6, StepCases

(* The inductive invariant holds in every reachable state.                 *)
THEOREM Invariance == Spec => []IndInv
<1>1. Init => IndInv
    BY IndInvInit
<1>2. IndInv /\ [Next]_vars => IndInv'
    BY IndInvNext
<1> QED
    BY <1>1, <1>2, PTL DEF Spec

-----------------------------------------------------------------------------
(* The variables keep their types.                                         *)
THEOREM TypeCorrectness == Spec => []TypeOK
<1>1. IndInv => TypeOK
    BY NamesAssumption DEF IndInv, CallInv, TypeOK
<1> QED
    BY <1>1, Invariance, PTL

(* No interleaving of polls, failures, timeouts and gateway steps posts a  *)
(* message twice or to another thread than its call reads.                 *)
THEOREM MessagesArePostedOnce == Spec => []PostedOnce
<1>1. IndInv => PostedOnce
    BY DEF IndInv
<1> QED
    BY <1>1, Invariance, PTL

(* Whatever the limits, a returned response is that of a turn with the     *)
(* call's text, opened after the call read the whole thread.               *)
THEOREM AnswersAreFreshMatches == Spec => []FreshMatch
<1>1. IndInv => FreshMatch
    BY DEF IndInv, CallInv, FreshMatch
<1> QED
    BY <1>1, Invariance, PTL

(* Nobody's answer but its own reaches a call whose text nobody else sends *)
(* to the thread after the call read it.                                   *)
THEOREM AnswersAreOwn == Spec => []OwnAnswer
<1>1. IndInv => OwnAnswer
    BY DEF IndInv, CallInv, OwnAnswer, Uncontended, AnswerOf
<1> QED
    BY <1>1, Invariance, PTL

-----------------------------------------------------------------------------
(* Thread resolution.  A call that lists or creates threads has no         *)
(* session; one that creates a thread in front of an assistant thread saw  *)
(* a request fail or can make none any more; a creator has left it.        *)
Resolving == {"idle", "list", "create"}

ThreadsInv ==
    /\ \A c \in Calls : pc[c] \in {"list", "create"} => session[c] = NoThread
    /\ \A c \in Calls : (pc[c] = "create" /\ assistant # NoThread) =>
          faults > 0 \/ ctxDone[c]
    /\ \A t \in Threads : creator[t] # Other => pc[creator[t]] \notin Resolving
    /\ ThreadCreation

(* The types that matter to it.                                            *)
ThreadTypes ==
    /\ creator \in [Threads -> Calls \union {Other}]
    /\ session \in [Calls -> Threads \union {NoThread}]
    /\ ctxDone \in [Calls -> BOOLEAN]
    /\ DOMAIN pc = Calls
    /\ faults \in Nat

LEMMA ThreadTyping == Types => ThreadTypes
BY BoundsAssumption DEF Types, ThreadTypes

(* A step that makes nobody a creator keeps the invariant if calls enter   *)
(* and leave thread resolution as they may.                                *)
LEMMA NoCreatorInv ==
    ASSUME ThreadTypes, ThreadTypes', ThreadsInv,
           UNCHANGED <<creator, assistant, session>>,
           faults' >= faults,
           \A c \in Calls : ctxDone[c] => ctxDone'[c],
           \A c \in Calls :
              \/ pc'[c] = pc[c]
              \/ pc'[c] \notin Resolving
              \/ /\ pc[c] \in Resolving /\ pc'[c] \in {"list", "create"}
                 /\ session[c] = NoThread
                 /\ (pc'[c] = "create" /\ assistant # NoThread) =>
                       faults' > 0 \/ ctxDone'[c]
    PROVE  ThreadsInv'
<1>1. \A c \in Calls : pc'[c] \in {"list", "create"} => session'[c] = NoThread
    BY DEF ThreadsInv, Resolving
<1>2. \A c \in Calls : (pc'[c] = "create" /\ assistant' # NoThread) =>
          faults' > 0 \/ ctxDone'[c]
    BY DEF ThreadsInv, ThreadTypes, Resolving
<1>3. \A t \in Threads : creator'[t] # Other => pc'[creator'[t]] \notin Resolving
    BY DEF ThreadsInv, ThreadTypes
<1>4. ThreadCreation'
    BY DEF ThreadsInv, ThreadCreation, ThreadTypes
<1> QED
    BY <1>1, <1>2, <1>3, <1>4 DEF ThreadsInv

(* Requests add to the faults or leave them.                               *)
LEMMA FaultsGrow ==
    ASSUME ThreadTypes, NEW c \in Calls, RequestSucceeds(c) \/ RequestFails(c)
    PROVE  faults' >= faults
BY DEF RequestSucceeds, RequestFails, ThreadTypes

(* A creator of a thread is one of that thread only.                       *)
LEMMA CreateThreadInv ==
    ASSUME ThreadTypes, ThreadTypes', ThreadsInv, NEW c \in Calls, CreateThread(c)
    PROVE  ThreadsInv'
<1>1. UNCHANGED <<assistant, session, ctxDone>>
    BY DEF CreateThread, NewThread
<1>2. pc[c] = "create" /\ faults' >= faults
    BY FaultsGrow DEF CreateThread, ThreadTypes
<1>3. \E l \in {"load", "done"} : pc' = [pc EXCEPT ![c] = l]
    BY DEF CreateThread, UseNewThread, Goto, Fail
<1>4. pc'[c] \notin Resolving /\ \A d \in Calls \ {c} : pc'[d] = pc[d]
    BY <1>3 DEF Resolving, ThreadTypes
<1>5. CASE UNCHANGED creator
    BY <1>1, <1>2, <1>4, <1>5, NoCreatorInv
<1>6. ASSUME NEW t \in Threads, ~ctxDone[c], creator' = [creator EXCEPT ![t] = c]
      PROVE  ThreadsInv'
    <2>1. session[c] = NoThread /\ (assistant # NoThread => faults' > 0)
        BY <1>2, <1>6 DEF ThreadsInv, ThreadTypes
    <2>2. creator'[t] = c /\ \A u \in Threads \ {t} : creator'[u] = creator[u]
        BY <1>6 DEF ThreadTypes
    <2>3. \A u \in Threads : creator[u] # c
        BY <1>2, NamesAssumption DEF ThreadsInv, Resolving
    <2>4. ThreadCreation'
        BY <1>1, <1>2, <2>1, <2>2, <2>3 DEF ThreadsInv, ThreadCreation, ThreadTypes
    <2>5. \A u \in Threads : creator'[u] # Other => pc'[creator'[u]] \notin Resolving
        BY <1>4, <2>2 DEF ThreadsInv, ThreadTypes
    <2>6. \A d \in Calls : pc'[d] \in {"list", "create"} => session'[d] = NoThread
        BY <1>1, <1>4 DEF ThreadsInv, Resolving
    <2>7. \A d \in Calls : (pc'[d] = "create" /\ assistant' # NoThread) =>
              faults' > 0 \/ ctxDone'[d]
        BY <1>1, <1>2, <1>4 DEF ThreadsInv, ThreadTypes, Resolving
    <2> QED
        BY <2>4, <2>5, <2>6, <2>7 DEF ThreadsInv
<1> QED
    BY <1>5, <1>6 DEF CreateThread, NewThread, RequestSucceeds

(* Every step keeps it.                                                    *)
LEMMA ThreadsInvNext ==
    ASSUME Typing, Typing', ThreadsInv, [Next]_vars
    PROVE  ThreadsInv'
<1> ThreadTypes /\ ThreadTypes'
    BY ThreadTyping DEF Typing, Types, ThreadTypes
<1>1. ASSUME NEW c \in Calls, Start(c) PROVE ThreadsInv'
    BY <1>1, NoCreatorInv DEF Start, Goto, ThreadTypes, Resolving
<1>2. ASSUME NEW c \in Calls, ListThreads(c) PROVE ThreadsInv'
    <2>1. UNCHANGED <<creator, assistant, session, ctxDone>> /\ pc[c] = "list"
        BY <1>2 DEF ListThreads
    <2>2. faults' >= faults
        BY <1>2, FaultsGrow DEF ListThreads
    <2>3. \/ pc' = [pc EXCEPT ![c] = "load"]
          \/ /\ pc' = [pc EXCEPT ![c] = "create"]
             /\ assistant # NoThread => RequestFails(c)
        BY <1>2 DEF ListThreads, Goto, ExistingThreads
    <2>4. RequestFails(c) => faults' > 0 \/ ctxDone[c]
        BY DEF RequestFails, ThreadTypes
    <2>5. session[c] = NoThread
        BY <2>1 DEF ThreadsInv
    <2>6. \A d \in Calls \ {c} : pc'[d] = pc[d]
        BY <2>3 DEF ThreadTypes
    <2>7. \/ pc'[c] = "load"
          \/ pc'[c] = "create" /\ (assistant # NoThread => faults' > 0 \/ ctxDone'[c])
        BY <2>1, <2>3, <2>4 DEF ThreadTypes
    <2> QED
        BY <2>1, <2>2, <2>5, <2>6, <2>7, NoCreatorInv DEF Resolving
<1>3. ASSUME NEW c \in Calls, CreateThread(c) PROVE ThreadsInv'
    BY <1>3, CreateThreadInv
<1>4. ASSUME NEW c \in Calls, LoadHistory(c) \/ Send(c) \/ Poll(c)
      PROVE  ThreadsInv'
    <2>1. faults' >= faults
        <3>1. CASE LoadHistory(c)
            BY <3>1, FaultsGrow DEF LoadHistory, ThreadTypes
        <3>2. CASE Send(c)
            BY <3>2, FaultsGrow DEF Send
        <3>3. CASE Poll(c)
            BY <3>3, FaultsGrow DEF Poll
        <3> QED
            BY <1>4, <3>1, <3>2, <3>3
    <2>2. UNCHANGED <<creator, assistant, session, ctxDone>>
        BY <1>4 DEF LoadHistory, Send, Poll
    <2>3. \E l \in {"send", "poll", "wait", "done"} : pc' = [pc EXCEPT ![c] = l]
        <3>1. CASE LoadHistory(c)
            BY <3>1 DEF LoadHistory, Goto, Fail
        <3>2. CASE Send(c)
            BY <3>2 DEF Send, SendFails, Goto, Fail
        <3>3. CASE Poll(c)
            BY <3>3 DEF Poll, PollFails, Goto, Fail
        <3> QED
            BY <1>4, <3>1, <3>2, <3>3
    <2>4. \A d \in Calls : pc'[d] = pc[d] \/ pc'[d] \notin Resolving
        BY <2>3 DEF Resolving, ThreadTypes
    <2> QED
        BY <2>1, <2>2, <2>4, NoCreatorInv
<1>5. ASSUME NEW c \in Calls, WaitTick(c) \/ WaitDone(c) PROVE ThreadsInv'
    <2>1. \E l \in {"poll", "done"} : pc' = [pc EXCEPT ![c] = l]
        BY <1>5 DEF WaitTick, WaitDone, Goto, Fail
    <2>2. \A d \in Calls : pc'[d] = pc[d] \/ pc'[d] \notin Resolving
        BY <2>1 DEF Resolving, ThreadTypes
    <2>3. UNCHANGED <<creator, assistant, session, ctxDone, faults>>
        BY <1>5 DEF WaitTick, WaitDone
    <2> QED
        BY <2>2, <2>3, NoCreatorInv DEF ThreadTypes
<1>6. ASSUME NEW c \in Calls, EndContext(c) PROVE ThreadsInv'
    <2>1. UNCHANGED <<creator, assistant, session, pc, faults>>
        BY <1>6 DEF EndContext
    <2>2. \A d \in Calls : ctxDone[d] => ctxDone'[d]
        BY <1>6 DEF EndContext, ThreadTypes
    <2> QED
        BY <2>1, <2>2, NoCreatorInv DEF ThreadTypes
<1>7. ASSUME UNCHANGED <<creator, assistant, session, pc, faults, ctxDone>>
      PROVE  ThreadsInv'
    BY <1>7, NoCreatorInv DEF ThreadTypes
<1>8. ASSUME NEW c \in Calls, BeginTurn(c) PROVE ThreadsInv'
    BY <1>7, <1>8 DEF BeginTurn, OpenTurn
<1>9. ASSUME NEW t \in Threads, NEW m \in Messages, OtherTurn(t, m)
      PROVE  ThreadsInv'
    BY <1>7, <1>9 DEF OtherTurn, OpenTurn
<1>10. ASSUME NEW t \in Threads, NEW i \in DOMAIN turns[t], UpdateTurn(t, i)
       PROVE  ThreadsInv'
    <2>1. UNCHANGED <<creator, assistant, session, pc, faults, ctxDone>>
        BY <1>10, Zenon DEF UpdateTurn
    <2> QED
        BY <1>7, <2>1
<1>11. CASE UNCHANGED vars
    BY <1>7, <1>11 DEF vars
<1> QED
    BY <1>1, <1>2, <1>3, <1>4, <1>5, <1>6, <1>8, <1>9, <1>10, <1>11, StepCases
    DEF CallMoves

(* A thread is created for at most one call, one without a session, and    *)
(* beside an assistant thread only where a list request had failed.        *)
THEOREM WhoCreatesThreads == Spec => []ThreadCreation
<1>1. Init => ThreadsInv
    BY NamesAssumption DEF Init, ThreadsInv, ThreadCreation, Resolving
<1>2. IndInv => Typing
    BY IndInvTyping
<1>3. ThreadsInv => ThreadCreation
    BY DEF ThreadsInv
<1>4. Typing /\ Typing' /\ ThreadsInv /\ [Next]_vars => ThreadsInv'
    BY ThreadsInvNext
<1> QED
    BY <1>1, <1>2, <1>3, <1>4, Invariance, PTL DEF Spec

-----------------------------------------------------------------------------
(* A scan from the newest turn down stops somewhere if there is a turn to  *)
(* stop at: a set of positions that is not empty has a greatest one.       *)
LEMMA GreatestPosition ==
    ASSUME NEW n \in Nat, NEW S \in SUBSET (1..n), S # {}
    PROVE  \E i \in S : \A j \in S : j <= i
<1> DEFINE less == {ss \in Nat \X Nat : ss[1] < ss[2]}
           fromEnd == {n - i : i \in S}
<1>1. fromEnd \subseteq Nat /\ fromEnd # {}
    <2>1. \A i \in S : i \in Nat /\ i <= n /\ n - i \in Nat
        OBVIOUS
    <2> QED
        BY <2>1
<1>2. \A x, y \in Nat : <<x, y>> \in less <=> x < y
    OBVIOUS
<1>3. IsWellFoundedOn(less, Nat)
    BY NatLessThanWellFounded DEF OpToRel
<1> HIDE DEF less
<1>4. PICK x \in fromEnd : \A y \in fromEnd : ~(<<y, x>> \in less)
    BY <1>1, <1>3, WFMin
<1>5. PICK i \in S : x = n - i
    OBVIOUS
<1>6. \A j \in S : ~(n - j < n - i)
    BY <1>1, <1>2, <1>4, <1>5
<1> QED
    BY <1>6

(* The poll's reply holds every turn that is among the PollSlack newest    *)
(* and was opened after the history was read, above index initialTurnCount.*)
LEMMA NewTurnIsInReply ==
    ASSUME NEW ts \in Seq(Turn), NEW old \in Nat, NEW count \in Nat,
           count <= old, NEW i \in DOMAIN ts, i > old, i > Len(ts) - PollSlack
    PROVE  LET reply == RecentTurns(ts, count + PollSlack)
           IN  /\ Len(reply) \in Nat /\ DOMAIN reply = 1..Len(reply)
               /\ \E j \in DOMAIN reply : j > count /\ reply[j] = ts[i]
<1> DEFINE reply == RecentTurns(ts, count + PollSlack)
           j == i - (Len(ts) - Len(reply))
<1>1. count + PollSlack \in Nat /\ PollSlack \in Nat
    BY LimitsAssumption
<1>2. /\ reply \in Seq(Turn)
      /\ Len(reply) = IF Len(ts) <= count + PollSlack THEN Len(ts)
                       ELSE count + PollSlack
      /\ \A k \in DOMAIN reply : reply[k] = ts[Len(ts) - Len(reply) + k]
    BY <1>1, RecentTurnsAreTheNewest
<1> HIDE DEF reply
<1>3. /\ Len(ts) \in Nat /\ Len(reply) \in Nat /\ DOMAIN reply = 1..Len(reply)
      /\ i \in 1..Len(ts)
    BY <1>2, LenProperties
<1>4. j \in DOMAIN reply /\ j > count /\ Len(ts) - Len(reply) + j = i
    BY <1>1, <1>2, <1>3
<1>5. reply[j] = ts[i]
    BY <1>2, <1>4
<1> QED
    BY <1>3, <1>4, <1>5 DEF reply

(* A turn that decides is found, or a newer one is.                        *)
LEMMA DecisiveTurnIsFound ==
    ASSUME NEW reply, NEW n \in Nat, DOMAIN reply = 1..n, NEW count, NEW msg,
           DecisiveTurns(reply, count, msg) # {}
    PROVE  FindMatchingTurn(reply, count, msg) # {}
<1>1. DecisiveTurns(reply, count, msg) \in SUBSET (1..n)
    BY DEF DecisiveTurns
<1>2. PICK i \in DecisiveTurns(reply, count, msg) :
          \A j \in DecisiveTurns(reply, count, msg) : j <= i
    BY <1>1, GreatestPosition
<1> QED
    BY <1>2 DEF FindMatchingTurn

(* Only a poll that finds nothing sends a call back to wait.               *)
LEMMA OnlyPollWaits ==
    ASSUME Types, [Next]_vars, NEW c \in Calls, pc[c] = "poll", pc'[c] = "wait"
    PROVE  FindMatchingTurn(RecentTurns(turns[thread[c]],
                                        initialTurnCount[c] + PollSlack),
                            initialTurnCount[c], message[c]) = {}
<1>1. pc \in [Calls -> Running \union {"idle", "done"}]
    BY DEF Types
<1>2. ASSUME NEW d \in Calls, CallMoves(d) PROVE d = c /\ Poll(c)
    BY <1>1, <1>2 DEF CallMoves, Start, EndContext, ListThreads,
        CreateThread, UseNewThread, LoadHistory, Send, SendFails, Poll,
        PollFails, WaitTick, WaitDone, Goto, Fail
<1>3. \/ \E d \in Calls : BeginTurn(d)
      \/ \E t \in Threads, m \in Messages : OtherTurn(t, m)
      \/ \E t \in Threads : \E i \in DOMAIN turns[t] : UpdateTurn(t, i)
      \/ UNCHANGED vars
      => pc' = pc
    BY DEF BeginTurn, OtherTurn, OpenTurn, UpdateTurn, vars
<1>4. Poll(c)
    BY <1>2, <1>3, StepCases
<1> QED
    BY <1>1, <1>4 DEF Poll, PollFails, Goto, Fail

(* However long the thread gets between two polls, and whatever the limits *)
(* are, no answer within the poll's slack is passed over.                  *)
THEOREM NothingIsMissed == Spec => NoMissedAnswer
<1> DEFINE Step == \A c \in Calls : (pc[c] = "poll" /\ pc'[c] = "wait") =>
          \A i \in DOMAIN turns[thread[c]] :
             (/\ i > before[c]
              /\ i > Len(turns[thread[c]]) - PollSlack
              /\ turns[thread[c]][i].input = message[c])
                => ~turns[thread[c]][i].response
<1>1. ASSUME IndInv, [Next]_vars PROVE Step
    <2> SUFFICES ASSUME NEW c \in Calls, pc[c] = "poll", pc'[c] = "wait",
                        NEW i \in DOMAIN turns[thread[c]], i > before[c],
                        i > Len(turns[thread[c]]) - PollSlack,
                        turns[thread[c]][i].input = message[c],
                        turns[thread[c]][i].response
                 PROVE  FALSE
        OBVIOUS
    <2> DEFINE ts == turns[thread[c]]
               count == initialTurnCount[c]
               reply == RecentTurns(ts, count + PollSlack)
    <2>1. Types /\ CallInv(c)
        BY <1>1 DEF IndInv
    <2>2. /\ ts \in Seq(Turn) /\ before[c] \in Nat /\ count \in Nat
          /\ count <= before[c]
        <3>1. thread[c] \in Threads
            BY <2>1 DEF CallInv, InThread
        <3>2. ts \in Seq(Turn) /\ before[c] \in Nat /\ count \in Nat
            BY <2>1, <3>1 DEF Types
        <3>3. count = IF before[c] <= HistoryLimit THEN before[c] ELSE HistoryLimit
            BY <2>1 DEF CallInv
        <3> QED
            BY <3>2, <3>3, LimitsAssumption
    <2>3. /\ Len(reply) \in Nat /\ DOMAIN reply = 1..Len(reply)
          /\ \E j \in DOMAIN reply : j > count /\ reply[j] = ts[i]
        BY <2>2, NewTurnIsInReply
    <2>4. DecisiveTurns(reply, count, message[c]) # {}
        BY <2>3 DEF DecisiveTurns
    <2>5. FindMatchingTurn(reply, count, message[c]) # {}
        BY <2>3, <2>4, DecisiveTurnIsFound
    <2> QED
        BY <1>1, <2>1, <2>5, OnlyPollWaits
<1>2. IndInv /\ [Next]_vars => [Step]_vars
    BY <1>1
<1> QED
    BY <1>2, Invariance, PTL DEF Spec, NoMissedAnswer

(* What the scan finds is newer than every other response to the text, and *)
(* within the slack of the end of the thread.                              *)
LEMMA FoundIsNewest ==
    ASSUME NEW ts \in Seq(Turn), NEW count \in Nat, NEW msg,
           NEW reply, reply = RecentTurns(ts, count + PollSlack),
           NEW f \in FindMatchingTurn(reply, count, msg)
    PROVE  LET k == Len(ts) - Len(reply) + f
           IN  /\ k \in DOMAIN ts /\ ts[k] = reply[f] /\ ts[k].input = msg
               /\ k > Len(ts) - PollSlack
               /\ \A i \in DOMAIN ts : (ts[i].input = msg /\ ts[i].response) => i <= k
<1> DEFINE off == Len(ts) - Len(reply)
<1>1. count + PollSlack \in Nat /\ PollSlack \in Nat
    BY LimitsAssumption
<1>2. /\ reply \in Seq(Turn)
      /\ Len(reply) = IF Len(ts) <= count + PollSlack THEN Len(ts)
                       ELSE count + PollSlack
      /\ \A k \in DOMAIN reply : off + k \in DOMAIN ts /\ reply[k] = ts[off + k]
    BY <1>1, RecentTurnsAreTheNewest
<1>3. /\ Len(ts) \in Nat /\ Len(reply) \in Nat
      /\ DOMAIN reply = 1..Len(reply) /\ DOMAIN ts = 1..Len(ts)
    BY <1>2, LenProperties
<1>4. /\ f \in DOMAIN reply /\ f > count /\ reply[f].input = msg
      /\ \A j \in DOMAIN reply :
            (j > count /\ reply[j].input = msg /\ reply[j].response) => j <= f
    BY DEF FindMatchingTurn, DecisiveTurns
<1>5. off + f > Len(ts) - PollSlack
    BY <1>1, <1>2, <1>3, <1>4
<1>6. ASSUME NEW i \in DOMAIN ts, ts[i].input = msg, ts[i].response, i > off + f
      PROVE  FALSE
    <2>1. i - off \in DOMAIN reply /\ i - off > count /\ off + (i - off) = i
        BY <1>2, <1>3, <1>4, <1>6
    <2>2. reply[i - off] = ts[i]
        BY <1>2, <2>1
    <2>3. i - off <= f
        BY <1>4, <1>6, <2>1, <2>2
    <2> QED
        BY <1>2, <1>3, <1>4, <1>6, <2>3
<1>7. \A i \in DOMAIN ts : (ts[i].input = msg /\ ts[i].response) => i <= off + f
    BY <1>2, <1>3, <1>4, <1>6
<1> QED
    BY <1>2, <1>4, <1>5, <1>7

(* A poll that answers returns what its scan found.                        *)
LEMMA PollAnswers ==
    ASSUME IndInv, NEW c \in Calls, Poll(c), outcome'[c] = "answer"
    PROVE  LET ts    == turns[thread[c]]
               reply == RecentTurns(ts, initialTurnCount[c] + PollSlack)
           IN  /\ thread[c] \in Threads /\ ts \in Seq(Turn)
               /\ initialTurnCount[c] \in Nat
               /\ \E f \in FindMatchingTurn(reply, initialTurnCount[c], message[c]) :
                     /\ reply[f].response
                     /\ answeredAt'[c] = Len(ts) - Len(reply) + f
<1>1. Types /\ CallInv(c) /\ pc[c] = "poll"
    BY DEF IndInv, Poll
<1>2. outcome[c] = "none"
    BY <1>1 DEF CallInv
<1>3. thread[c] \in Threads
    BY <1>1 DEF CallInv, InThread
<1>4. turns[thread[c]] \in Seq(Turn) /\ initialTurnCount[c] \in Nat
    BY <1>1, <1>3 DEF Types
<1> QED
    BY <1>1, <1>2, <1>3, <1>4 DEF Poll, PollFails, Fail, Types

(* An outcome of a polling call comes from its poll.                       *)
LEMMA OnlyPollAnswers ==
    ASSUME IndInv, [Next]_vars, NEW c \in Calls, pc[c] = "poll",
           outcome'[c] = "answer"
    PROVE  Poll(c)
<1>1. Types /\ CallInv(c)
    BY DEF IndInv
<1>2. outcome[c] = "none" /\ outcome \in [Calls -> {"none", "answer", "error"}]
    BY <1>1 DEF CallInv, Types
<1>3. ASSUME NEW d \in Calls, CallMoves(d) PROVE Poll(c)
    <2>1. d = c
        BY <1>1, <1>2, <1>3, CallMovesAlone DEF SameCall
    <2> QED
        BY <1>2, <1>3, <2>1 DEF CallMoves, Start, EndContext, ListThreads,
            CreateThread, LoadHistory, Send, WaitTick, WaitDone
<1>4. \/ \E d \in Calls : BeginTurn(d)
      \/ \E t \in Threads, m \in Messages : OtherTurn(t, m)
      \/ \E t \in Threads : \E i \in DOMAIN turns[t] : UpdateTurn(t, i)
      \/ UNCHANGED vars
      => outcome' = outcome
    BY DEF BeginTurn, OtherTurn, OpenTurn, UpdateTurn, vars
<1> QED
    BY <1>2, <1>3, <1>4, StepCases

(* What an answer is: the newest response to the text, in the slack at the *)
(* end of the thread; and new when the thread fitted in the history read.  *)
LEMMA AnswerFound ==
    ASSUME IndInv, NEW c \in Calls, Poll(c), outcome'[c] = "answer"
    PROVE  LET ts == turns[thread[c]]
               k  == answeredAt'[c]
           IN  /\ thread[c] \in Threads /\ ts \in Seq(Turn) /\ k \in DOMAIN ts
               /\ ts[k].input = message[c] /\ ts[k].response
               /\ k > Len(ts) - PollSlack
               /\ \A i \in DOMAIN ts :
                     (ts[i].input = message[c] /\ ts[i].response) => i <= k
               /\ before[c] \in Nat /\ before[c] <= Len(ts)
               /\ before[c] <= HistoryLimit => k > before[c]
<1> DEFINE ts    == turns[thread[c]]
           count == initialTurnCount[c]
           reply == RecentTurns(ts, count + PollSlack)
           old   == before[c]
           msg   == message[c]
           k     == answeredAt'[c]
<1>1. /\ thread[c] \in Threads /\ ts \in Seq(Turn) /\ count \in Nat
      /\ \E f \in FindMatchingTurn(reply, count, msg) :
            reply[f].response /\ k = Len(ts) - Len(reply) + f
    BY PollAnswers
<1>2. /\ old \in Nat /\ old <= Len(ts)
      /\ count = IF old <= HistoryLimit THEN old ELSE HistoryLimit
    BY <1>1 DEF IndInv, CallInv, Types
<1>3. reply = RecentTurns(ts, count + PollSlack)
    OBVIOUS
<1> HIDE DEF ts, count, reply, old, msg, k
<1>4. PICK f \in FindMatchingTurn(reply, count, msg) :
          reply[f].response /\ k = Len(ts) - Len(reply) + f
    BY <1>1
<1>5. /\ k \in DOMAIN ts /\ ts[k] = reply[f] /\ ts[k].input = msg
      /\ k > Len(ts) - PollSlack
      /\ \A i \in DOMAIN ts : (ts[i].input = msg /\ ts[i].response) => i <= k
    BY <1>1, <1>3, <1>4, FoundIsNewest
<1>6. old <= HistoryLimit => k > old
    BY <1>1, <1>2, <1>3, <1>4, FoundTurn DEF IsFreshMatch
<1> QED
    BY <1>1, <1>2, <1>4, <1>5, <1>6 DEF ts, old, msg, k

(* How old an answer can be does not depend on how long the thread is.     *)
THEOREM AnswersAreNewest == Spec => NewestAnswer
<1> DEFINE Step == \A c \in Calls : (pc[c] = "poll" /\ outcome'[c] = "answer") =>
          LET ts == turns[thread[c]] IN
          /\ answeredAt'[c] > Len(ts) - PollSlack
          /\ \A i \in DOMAIN ts :
                (ts[i].input = message[c] /\ ts[i].response) => i <= answeredAt'[c]
<1>1. IndInv /\ [Next]_vars => [Step]_vars
    BY OnlyPollAnswers, AnswerFound
<1> QED
    BY <1>1, Invariance, PTL DEF Spec, NewestAnswer

-----------------------------------------------------------------------------
(* When the comment at client.go:64 is right: the code returns whatever    *)
(* response it finds, so it is the gateway that must give a response only  *)
(* to the turns it completes.                                              *)
CompleteWhenAnswered == \A e \in Updates : e.response => e.state = "Completed"

ResponsesComplete ==
    \A t \in Threads : \A i \in DOMAIN turns[t] :
        turns[t][i].response => turns[t][i].state = "Completed"

LEMMA ResponsesCompleteNext ==
    ASSUME CompleteWhenAnswered, Types, ThreadKnown, ResponsesComplete, [Next]_vars
    PROVE  ResponsesComplete'
<1>1. ASSUME NEW c \in Calls, CallMoves(c) PROVE ResponsesComplete'
    BY <1>1, CallMovesAlone DEF ResponsesComplete
<1>2. ASSUME NEW t \in Threads, NEW m \in Messages, NEW author \in Calls \union {Other},
             OpenTurn(t, m, author)
      PROVE  ResponsesComplete'
    <2> DEFINE last == Len(turns[t]) + 1
    <2>1. /\ turns[t] \in Seq(Turn) /\ turns'[t] \in Seq(Turn)
          /\ \A u \in Threads \ {t} : turns'[u] = turns[u]
          /\ Len(turns'[t]) = last
          /\ \A i \in DOMAIN turns[t] : turns'[t][i] = turns[t][i]
          /\ turns'[t][last].response = FALSE
        BY <1>2, OpenTurnEffect DEF Types
    <2>2. DOMAIN turns'[t] = (DOMAIN turns[t]) \union {last}
        BY <2>1
    <2> QED
        BY <2>1, <2>2 DEF ResponsesComplete
<1>3. ASSUME NEW c \in Calls, BeginTurn(c) PROVE ResponsesComplete'
    <2>1. thread[c] \in Threads /\ message[c] \in Messages /\ OpenTurn(thread[c], message[c], c)
        BY <1>3 DEF BeginTurn, ThreadKnown, Types
    <2> QED
        BY <1>2, <2>1
<1>4. ASSUME NEW t \in Threads, NEW m \in Messages, OtherTurn(t, m) PROVE ResponsesComplete'
    BY <1>2, <1>4 DEF OtherTurn
<1>5. ASSUME NEW t \in Threads, NEW i \in DOMAIN turns[t], UpdateTurn(t, i)
      PROVE  ResponsesComplete'
    <2>1. PICK e \in Updates :
              turns' = [turns EXCEPT ![t][i].state = e.state,
                                     ![t][i].response = e.response]
        BY <1>5 DEF UpdateTurn
    <2>2. e.response => e.state = "Completed"
        BY DEF CompleteWhenAnswered
    <2>3. turns[t] \in Seq(Turn) /\ turns[t][i] \in Turn
        BY DEF Types
    <2>4. turns'[t][i].response => turns'[t][i].state = "Completed"
        BY <2>1, <2>2, <2>3 DEF Types, Turn
    <2>5. \A u \in Threads : /\ DOMAIN turns'[u] = DOMAIN turns[u]
                             /\ \A j \in DOMAIN turns[u] :
                                   u # t \/ j # i => turns'[u][j] = turns[u][j]
        BY <1>5, UpdateTurnEffect DEF Types
    <2> QED
        BY <2>4, <2>5 DEF ResponsesComplete
<1>6. CASE UNCHANGED vars
    BY <1>6 DEF vars, ResponsesComplete
<1> QED
    BY <1>1, <1>3, <1>4, <1>5, <1>6, StepCases

(* With such a gateway the response that is returned is always that of a   *)
(* completed turn; MCChatCompletedTurn shows what happens with another.    *)
THEOREM AnswersAreCompleted ==
    ASSUME CompleteWhenAnswered
    PROVE  Spec => CompletedTurn
<1> DEFINE Step == \A c \in Calls : (pc[c] = "poll" /\ outcome'[c] = "answer") =>
          turns[thread[c]][answeredAt'[c]].state = "Completed"
<1>1. Init => ResponsesComplete
    BY DEF Init, ResponsesComplete
<1>2. IndInv /\ ResponsesComplete /\ [Next]_vars => ResponsesComplete'
    BY IndInvTyping, ResponsesCompleteNext DEF Typing
<1>3. IndInv /\ ResponsesComplete /\ [Next]_vars => [Step]_vars
    BY OnlyPollAnswers, AnswerFound DEF ResponsesComplete
<1> QED
    BY <1>1, <1>2, <1>3, Invariance, PTL DEF Spec, CompletedTurn
=============================================================================

---------------------------- MODULE StatusProofs ----------------------------
(***************************************************************************)
(* Proofs about Status, for any calls, kinds of tools, metrics and jobs    *)
(* and any number of changes of the world.                                 *)
(***************************************************************************)
EXTENDS Status, TLAPS, FiniteSetTheorems

USE DEF worldVars

(* The types without the bounds of the answers.                            *)
Shapes ==
    /\ kind \in [Calls -> Kinds]
    /\ pc \in [Calls -> {"idle", "asking", "done", "failed"}]
    /\ cancelled \in [Calls -> BOOLEAN]
    /\ todo \in [Calls -> SUBSET Sources]
    /\ DOMAIN got = Calls /\ DOMAIN moments = Calls
    /\ \A c \in Calls : DOMAIN got[c] = Sources /\ DOMAIN moments[c] = Sources
    /\ errs \in [Calls -> SUBSET Sources]

(* What is still to be asked has no answer and no failure yet, and a call  *)
(* that does not run has nothing to ask.                                   *)
ToAsk ==
    \A c \in Calls :
        /\ todo[c] \subseteq Plan(kind[c])
        /\ pc[c] # "asking" => todo[c] = {}
        /\ \A s \in todo[c] : got[c][s] = {} /\ s \notin errs[c]
        /\ pc[c] = "idle" => errs[c] = {} /\ \A s \in Sources : got[c][s] = {}

(* A failed call lacks a part that it cannot do without.                   *)
Lacking ==
    \A c \in Calls : pc[c] = "failed" =>
        \E s \in Plan(kind[c]) : Mandatory(c, s) /\ got[c][s] = {}

(* Each query is to be asked, answered or reported, and the health check   *)
(* is to be asked or answered.                                             *)
Accounted ==
    \A c \in Calls : pc[c] \in {"asking", "done"} =>
        /\ kind[c] = "get_metrics" =>
              \A m \in Metrics : m \in todo[c] \/ (got[c][m] = {} <=> m \in errs[c])
        /\ kind[c] = "agent_status" => "health" \in todo[c] \/ got[c]["health"] # {}

(* What a call has was true at a moment of it, and so is what it can still *)
(* be told.                                                                *)
Fresh ==
    \A c \in Calls : \A s \in Sources :
        /\ got[c][s] \subseteq moments[c][s]
        /\ Cardinality(got[c][s]) <= 1
        /\ s \in todo[c] => Answer(s) \in moments[c][s]

(* The answers have their types.                                           *)
World ==
    /\ version \in [Sources \ {"jobs"} -> 0..MaxChanges]
    /\ \A s \in Sources \ {"jobs"} : version[s] <= changes
    /\ job \in [Jobs -> JobStates]
    /\ changes \in 0..MaxChanges
    /\ \A c \in Calls : \A s \in Sources : moments[c][s] \subseteq Answers(s)

StatusInv == Shapes /\ ToAsk /\ Lacking /\ Accounted /\ Fresh /\ World

-----------------------------------------------------------------------------
LEMMA PlanOfSources == \A k \in Kinds : Plan(k) \subseteq Sources
BY KindsAssumption DEF Plan, AllKinds, Sources, ClientSources

LEMMA AnswersTyped ==
    ASSUME World, NEW s \in Sources
    PROVE  Answer(s) \in Answers(s)
BY DEF World, Answer, Answers

LEMMA StatusInit == Init => StatusInv
<1> SUFFICES ASSUME Init PROVE StatusInv
    OBVIOUS
<1>1. Shapes /\ ToAsk /\ Lacking /\ Accounted
    BY DEF Init, Shapes, ToAsk, Lacking, Accounted
<1>2. Fresh
    BY FS_EmptySet DEF Init, Fresh
<1>3. World
    BY BoundsAssumption DEF Init, World, JobStates
<1> QED
    BY <1>1, <1>2, <1>3 DEF StatusInv

LEMMA BeginInv ==
    ASSUME StatusInv, NEW c \in Calls, Begin(c)
    PROVE  StatusInv'
<1> USE DEF StatusInv, Begin
<1>1. Plan(kind[c]) \subseteq Sources /\ UNCHANGED <<kind, got, errs, worldVars>>
    BY PlanOfSources DEF Shapes
<1>2. /\ pc[c] = "idle" /\ pc'[c] = "asking" /\ todo'[c] = Plan(kind[c])
      /\ moments'[c] = [s \in Sources |->
                          IF s \in Plan(kind[c]) THEN {Answer(s)} ELSE {}]
      /\ \A d \in Calls \ {c} : /\ pc'[d] = pc[d] /\ todo'[d] = todo[d]
                                /\ moments'[d] = moments[d]
    BY DEF Shapes
<1>3. Shapes'
    BY <1>1 DEF Shapes
<1>4. ToAsk'
    BY <1>1, <1>2 DEF ToAsk
<1>5. Lacking'
    BY <1>1, <1>2 DEF Lacking, Mandatory
<1>6. Accounted'
    BY <1>1, <1>2 DEF Accounted, Plan
<1>7. Fresh'
    BY <1>1, <1>2 DEF Fresh, Answer, ToAsk
<1>8. World'
    BY <1>1, <1>2, AnswersTyped DEF World, Answers
<1> QED
    BY <1>3, <1>4, <1>5, <1>6, <1>7, <1>8

LEMMA AnsweredInv ==
    ASSUME StatusInv, NEW c \in Calls, NEW s \in Sources, Answered(c, s)
    PROVE  StatusInv'
<1> USE DEF StatusInv
<1>1. /\ UNCHANGED <<kind, errs, moments, worldVars>>
      /\ pc[c] = "asking" /\ s \in todo[c]
      /\ got'[c][s] = {Answer(s)} /\ todo'[c] = todo[c] \ {s}
      /\ pc'[c] = IF todo[c] = {s} THEN "done" ELSE "asking"
      /\ \A r \in Sources \ {s} : got'[c][r] = got[c][r]
      /\ \A d \in Calls \ {c} : /\ pc'[d] = pc[d] /\ todo'[d] = todo[d]
                                /\ got'[d] = got[d]
    BY DEF Answered, Asked, Received, Turn, Shapes
<1>2. Shapes'
    BY <1>1 DEF Answered, Asked, Shapes
<1>3. ToAsk'
    BY <1>1 DEF ToAsk, Shapes
<1>4. Lacking'
    BY <1>1 DEF Lacking, Mandatory
<1>5. Accounted'
    <2> SUFFICES ASSUME NEW d \in Calls, pc'[d] \in {"asking", "done"}
                 PROVE  /\ kind[d] = "get_metrics" =>
                              \A m \in Metrics : \/ m \in todo'[d]
                                                 \/ got'[d][m] = {} <=> m \in errs[d]
                        /\ kind[d] = "agent_status" =>
                              "health" \in todo'[d] \/ got'[d]["health"] # {}
        BY <1>1 DEF Accounted
    <2>1. CASE d # c
        BY <1>1, <2>1 DEF Accounted
    <2>2. CASE d = c
        <3>1. got'[c][s] # {} /\ s \notin errs[c]
            BY <1>1 DEF ToAsk
        <3>2. \A r \in Sources \ {s} :
                 /\ got'[c][r] = got[c][r] /\ (r \in todo[c] => r \in todo'[c])
            BY <1>1
        <3>3. Metrics \subseteq Sources /\ "health" \in Sources
            BY DEF Sources, ClientSources
        <3> QED
            BY <1>1, <2>2, <3>1, <3>2, <3>3 DEF Accounted
    <2> QED
        BY <2>1, <2>2
<1>6. Fresh'
    <2>1. Cardinality({Answer(s)}) = 1
        BY FS_Singleton
    <2> SUFFICES ASSUME NEW d \in Calls, NEW r \in Sources
                 PROVE  /\ got'[d][r] \subseteq moments[d][r]
                        /\ Cardinality(got'[d][r]) <= 1
                        /\ r \in todo'[d] => Answer(r) \in moments[d][r]
        BY <1>1 DEF Fresh, Answer
    <2>2. CASE d = c /\ r = s
        <3>1. got'[d][r] = {Answer(s)} /\ s \in todo[c] /\ s \notin todo'[c]
            BY <1>1, <2>2
        <3>2. Answer(s) \in moments[c][s]
            BY <3>1 DEF Fresh
        <3>3. Cardinality(got'[d][r]) = 1
            BY <2>1, <3>1
        <3> QED
            BY <2>2, <3>1, <3>2, <3>3
    <2>3. CASE d # c \/ r # s
        BY <1>1, <2>3 DEF Fresh
    <2> QED
        BY <2>2, <2>3
<1>7. World'
    BY <1>1 DEF World, Answers
<1> QED
    BY <1>2, <1>3, <1>4, <1>5, <1>6, <1>7

LEMMA FailedInv ==
    ASSUME StatusInv, NEW c \in Calls, NEW s \in Sources, Failed(c, s)
    PROVE  StatusInv'
<1> USE DEF StatusInv
<1>1. /\ UNCHANGED <<kind, got, moments, cancelled, worldVars>>
      /\ pc[c] = "asking" /\ s \in todo[c]
      /\ \A d \in Calls \ {c} : /\ pc'[d] = pc[d] /\ todo'[d] = todo[d]
                                /\ errs'[d] = errs[d]
    BY DEF Failed, AfterFailure, Proceed, EndInError, Asked, Turn, Shapes
<1>2. \/ /\ Mandatory(c, s)
         /\ pc'[c] = "failed" /\ todo'[c] = {} /\ errs'[c] = errs[c]
      \/ /\ ~Mandatory(c, s)
         /\ todo'[c] = todo[c] \ {s}
         /\ pc'[c] = IF todo[c] = {s} THEN "done" ELSE "asking"
         /\ errs'[c] = IF s \in Metrics THEN errs[c] \union {s} ELSE errs[c]
    BY DEF Failed, AfterFailure, Proceed, EndInError, Asked, Shapes
<1>3. Shapes'
    BY <1>1, <1>2
    DEF Failed, AfterFailure, Proceed, EndInError, Asked, Shapes
<1>4. ToAsk'
    BY <1>1, <1>2 DEF ToAsk
<1>5. Lacking'
    BY <1>1, <1>2 DEF Lacking, Mandatory, ToAsk
<1>6. Accounted'
    BY <1>1, <1>2 DEF Accounted, ToAsk, Mandatory
<1>7. Fresh'
    BY <1>1, <1>2 DEF Fresh, Answer
<1>8. World'
    BY <1>1 DEF World, Answers
<1> QED
    BY <1>3, <1>4, <1>5, <1>6, <1>7, <1>8

(* A change of the world becomes a moment of every call it concerns.       *)
LEMMA WorldMovesInv ==
    ASSUME StatusInv, UNCHANGED <<kind, pc, cancelled, todo, got, errs>>, Observe,
           \A s \in Sources : Answer(s)' \in Answers(s),
           version' \in [Sources \ {"jobs"} -> 0..MaxChanges],
           \A s \in Sources \ {"jobs"} : version'[s] <= changes',
           job' \in [Jobs -> JobStates], changes' \in 0..MaxChanges
    PROVE  StatusInv'
<1> USE DEF StatusInv
<1>1. \A c \in Calls : \A s \in Sources :
          \/ s \in todo[c] /\ moments'[c][s] = moments[c][s] \union {Answer(s)'}
          \/ s \notin todo[c] /\ moments'[c][s] = moments[c][s]
    BY DEF Observe
<1>2. Shapes'
    BY DEF Observe, Shapes
<1>3. ToAsk' /\ Lacking' /\ Accounted'
    BY DEF ToAsk, Lacking, Accounted, Mandatory
<1>4. Fresh'
    <2> SUFFICES ASSUME NEW c \in Calls, NEW s \in Sources
                 PROVE  /\ got[c][s] \subseteq moments'[c][s]
                        /\ Cardinality(got[c][s]) <= 1
                        /\ s \in todo[c] => Answer(s)' \in moments'[c][s]
        BY DEF Fresh
    <2>1. /\ got[c][s] \subseteq moments[c][s] /\ Cardinality(got[c][s]) <= 1
          /\ moments[c][s] \subseteq moments'[c][s]
          /\ s \in todo[c] => Answer(s)' \in moments'[c][s]
        BY <1>1 DEF Fresh
    <2> QED
        BY <2>1
<1>5. World'
    <2>1. ASSUME NEW c \in Calls, NEW s \in Sources
          PROVE  moments'[c][s] \subseteq Answers(s)
        <3>1. moments[c][s] \subseteq Answers(s) /\ Answer(s)' \in Answers(s)
            BY DEF World
        <3> QED
            BY <1>1, <3>1
    <2> QED
        BY <2>1 DEF World, Answers
<1> QED
    BY <1>2, <1>3, <1>4, <1>5

(* What the invariant is about stays as it is.                             *)
LEMMA UnchangedInv ==
    ASSUME StatusInv, cancelled' \in [Calls -> BOOLEAN],
           UNCHANGED <<kind, pc, todo, got, errs, moments, worldVars>>
    PROVE  StatusInv'
<1> USE DEF StatusInv
<1>1. Shapes' /\ World'
    BY DEF Shapes, World, Answers
<1>2. ToAsk' /\ Lacking' /\ Accounted'
    BY DEF ToAsk, Lacking, Accounted, Mandatory
<1>3. Fresh'
    BY DEF Fresh, Answer
<1> QED
    BY <1>1, <1>2, <1>3

LEMMA StatusNext == StatusInv /\ [Next]_vars => StatusInv'
<1> SUFFICES ASSUME StatusInv, [Next]_vars PROVE StatusInv'
    OBVIOUS
<1>1. ASSUME NEW c \in Calls, Cancel(c) PROVE StatusInv'
    BY <1>1, UnchangedInv DEF Cancel, StatusInv, Shapes
<1>2. ASSUME NEW s \in Sources, Change(s) PROVE StatusInv'
    <2>1. /\ changes' \in 0..MaxChanges /\ changes' = changes + 1
          /\ s # "jobs" /\ version'[s] = version[s] + 1
          /\ \A r \in Sources \ {"jobs", s} : version'[r] = version[r]
          /\ version' \in [Sources \ {"jobs"} -> Nat]
        BY <1>2, BoundsAssumption DEF Change, StatusInv, World
    <2>2. \A r \in Sources \ {"jobs"} : version'[r] <= changes'
        BY <2>1, BoundsAssumption DEF StatusInv, World
    <2>3. version' \in [Sources \ {"jobs"} -> 0..MaxChanges]
        BY <2>1, <2>2, BoundsAssumption
    <2>4. \A r \in Sources : Answer(r)' \in Answers(r)
        BY <1>2, <2>3 DEF Change, Answer, Answers, StatusInv, World
    <2> QED
        BY <1>2, <2>1, <2>2, <2>3, <2>4, WorldMovesInv DEF Change, StatusInv, World
<1>3. ASSUME NEW j \in Jobs, JobMoves(j) PROVE StatusInv'
    <2>1. changes' \in 0..MaxChanges /\ changes' = changes + 1 /\ version' = version
        BY <1>3, BoundsAssumption DEF JobMoves, StatusInv, World
    <2>2. job' \in [Jobs -> JobStates]
        BY <1>3 DEF JobMoves, StatusInv, World
    <2>3. \A r \in Sources : Answer(r)' \in Answers(r)
        BY <2>1, <2>2 DEF Answer, Answers, StatusInv, World
    <2>4. \A r \in Sources \ {"jobs"} : version'[r] <= changes'
        BY <2>1, BoundsAssumption DEF StatusInv, World
    <2> QED
        BY <1>3, <2>1, <2>2, <2>3, <2>4, WorldMovesInv DEF JobMoves, StatusInv, World
<1>4. CASE UNCHANGED vars
    BY <1>4, UnchangedInv DEF vars, StatusInv, Shapes
<1> QED
    BY <1>1, <1>2, <1>3, <1>4, BeginInv, AnsweredInv, FailedInv DEF Next

(* The status tools' invariant holds in every reachable state.             *)
THEOREM Invariance == Spec => []StatusInv
BY StatusInit, StatusNext, PTL DEF Spec

-----------------------------------------------------------------------------
(* The variables keep their types; whoever ended has nothing left to ask,  *)
(* and whoever failed lacks a part it cannot do without.                   *)
THEOREM TypeCorrectness == Spec => []TypeOK
<1>1. StatusInv => TypeOK
    <2> SUFFICES ASSUME StatusInv PROVE TypeOK
        OBVIOUS
    <2>1. \A c \in Calls : \A s \in Sources :
              /\ got[c][s] \subseteq Answers(s) /\ Cardinality(got[c][s]) <= 1
              /\ moments[c][s] \subseteq Answers(s)
        BY DEF StatusInv, Fresh, World
    <2>2. Types
        BY <2>1 DEF StatusInv, Shapes, World, Types
    <2> QED
        BY <2>2 DEF StatusInv, ToAsk, Lacking, TypeOK
<1> QED
    BY <1>1, Invariance, PTL

(* No part of a result is older or newer than the call, whatever changes   *)
(* while it asks.                                                          *)
THEOREM PartsAreFresh == Spec => []FreshParts
<1>1. StatusInv => FreshParts
    <2> SUFFICES ASSUME StatusInv PROVE FreshParts
        OBVIOUS
    <2>1. "jobs" \in Sources
        BY DEF Sources, ClientSources
    <2>2. \A c \in Calls : got[c]["jobs"] # {} =>
              (CHOOSE states \in got[c]["jobs"] : TRUE) \in moments[c]["jobs"]
        BY <2>1 DEF StatusInv, Fresh
    <2> QED
        BY <2>2 DEF StatusInv, Fresh, FreshParts, ReportedCounts
<1> QED
    BY <1>1, Invariance, PTL

(* get_metrics accounts for each of its queries, for any set of them.      *)
THEOREM MetricsAreAccounted == Spec => []EveryMetric
<1>1. StatusInv => EveryMetric
    BY DEF StatusInv, Accounted, ToAsk, EveryMetric
<1> QED
    BY <1>1, Invariance, PTL

(* An agent status that is reported has a status.                          *)
THEOREM StatusIsReported == Spec => []StatusIsKnown
<1>1. StatusInv => StatusIsKnown
    BY DEF StatusInv, Accounted, ToAsk, StatusIsKnown, ReportedStatus
<1> QED
    BY <1>1, Invariance, PTL
=============================================================================

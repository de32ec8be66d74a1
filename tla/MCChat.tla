------------------------------- MODULE MCChat -------------------------------
(* Instances of Chat for TLC. *)
EXTENDS Chat, TLC

(* A turn is answered at once, or it fails without a response.             *)
PlainUpdates == {[state |-> "Completed", response |-> TRUE],
                 [state |-> "Failed",    response |-> FALSE]}

(* Where threads matter more than answers: a response comes in parts, or   *)
(* as a whole.                                                             *)
ResponseUpdates == [state: {"Processing", "Completed"}, response: {TRUE}]

(* Every call names a thread that exists: thread resolution has a run of   *)
(* its own.                                                                *)
SessionInit ==
    /\ Init
    /\ listed = Threads /\ assistant = NoThread /\ active = NoThread
    /\ \A c \in Calls : session[c] # NoThread
SessionSpec == SessionInit /\ [][Next]_vars

(* Of the two threads at most one is listed at first, and always the same. *)
ThreadsInit ==
    /\ Init
    /\ listed \subseteq {CHOOSE t \in Threads : TRUE}
ThreadsSpec == ThreadsInit /\ [][Next]_vars /\ Fairness

(* Calls, messages and threads are interchangeable: Init and Next treat    *)
(* them alike.  Used with safety properties only.                          *)
Symmetry == Permutations(Calls) \union Permutations(Messages)
               \union Permutations(Threads)
=============================================================================

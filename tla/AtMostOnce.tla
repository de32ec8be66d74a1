----------------------------- MODULE AtMostOnce -----------------------------
(***************************************************************************)
(* What a tool call promises its MCP client about the gateway, whatever    *)
(* the network does in between.  A call is refused and never reaches the   *)
(* gateway; or it succeeds, and then the gateway served it exactly once    *)
(* between the call's begin and its end; or it ends in an error, which     *)
(* says nothing: the gateway never serves it, or has served it, or serves  *)
(* it later, but never twice.                                              *)
(***************************************************************************)
EXTENDS Sequences

CONSTANT Calls

VARIABLES
    status,     \* status[c]: where call c is, as its client sees it
    log         \* the calls the gateway served, in order

vars == <<status, log>>

Ended == {"success", "error", "refused"}
Statuses == {"new", "open"} \union Ended

Served(c) == \E i \in DOMAIN log : log[i] = c

Init == status = [c \in Calls |-> "new"] /\ log = << >>

Move(c, from, to) == status[c] = from /\ status' = [status EXCEPT ![c] = to]

Begin(c)   == Move(c, "new", "open") /\ UNCHANGED log
Refuse(c)  == Move(c, "new", "refused") /\ UNCHANGED log
Fail(c)    == Move(c, "open", "error") /\ UNCHANGED log
Succeed(c) == Served(c) /\ Move(c, "open", "success") /\ UNCHANGED log

Serve(c) ==
    /\ status[c] \in {"open", "error"} /\ ~Served(c)
    /\ log' = Append(log, c)
    /\ UNCHANGED status

Next == \E c \in Calls : Begin(c) \/ Refuse(c) \/ Fail(c) \/ Succeed(c) \/ Serve(c)

Spec == Init /\ [][Next]_vars
=============================================================================

----------------------------- MODULE MCToolCalls ----------------------------
(* The instance of ToolCalls for TLC. *)
EXTENDS ToolCalls

(* The texts: only some read as positive integers.                         *)
SomeTexts == {"job-1", "7"}
SomePositiveTexts == {"7"}

(* A tool of each kind: without arguments; with one and no reply body;     *)
(* with two; with a limit that has to be a number.                         *)
KindsOfTool ==
    {"helixon_health", "helixon_cancel_job", "memory_write", "memory_search"}
=============================================================================

------------------------------ MODULE MCConfig ------------------------------
(* Instances of Config for TLC: a second of ten ticks and a word of twelve *)
(* bits, so that 2049 seconds wrap around to one as 2^55 + 1 do in the     *)
(* code; 205 wrap around to a negative timeout.                            *)
EXTENDS Config

SomeSeconds == {-1, 0, 1, 120, 121, 204, 205, 2049}
=============================================================================

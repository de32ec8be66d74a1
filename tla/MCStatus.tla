------------------------------ MODULE MCStatus ------------------------------
(* The instance of Status for TLC: all values are in the configuration.    *)
EXTENDS Status
=============================================================================

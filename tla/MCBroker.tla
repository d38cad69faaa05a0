------------------------------ MODULE MCBroker ------------------------------
(* Small instances of the /register broker.                                *)
EXTENDS RegisterBroker

\* Each project's frood beats under its own name.
MCServiceOf == [p \in Project |-> p]
=============================================================================

---------------------------- MODULE MCNodeReport ----------------------------
(* Small instances of NodeReport for TLC. *)
EXTENDS NodeReport

CONSTANTS d1, s1

\* Peers of one device on one server, as when it has changed its key.
OneDevice == [k \in Keys |-> d1]
OneServer == [k \in Keys |-> s1]
=============================================================================

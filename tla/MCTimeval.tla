------------------------------- MODULE MCTimeval -------------------------------
(* Small instances of Timeval for TLC. *)
EXTENDS Timeval

\* The timeouts of the server and of the resolver have no microseconds.
WholeSeconds == {[sec |-> s, usec |-> 0] : s \in 1..2}
=============================================================================

----------------------------- MODULE MCDnsClient -----------------------------
(* Small instances of DnsClient for TLC. *)
EXTENDS DnsClient

\* The tasks differ in nothing but the order in which main() starts them, and it
\* may start them in any order.
Symmetry == Permutations(Tasks)
=============================================================================

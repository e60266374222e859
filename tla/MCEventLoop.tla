----------------------------- MODULE MCEventLoop -----------------------------
(* Small instances of EventLoop for TLC. *)
EXTENDS EventLoop

Symmetry == Permutations(Tasks) \cup Permutations(Events)
              \cup Permutations(Fds) \cup Permutations(Slots)
=============================================================================

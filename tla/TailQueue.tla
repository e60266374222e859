------------------------------ MODULE TailQueue ------------------------------
(***************************************************************************)
(* The TAILQ lists of <sys/queue.h>, as sequences of the elements that are *)
(* linked in.  TAILQ_INSERT_TAIL is Append; TAILQ_FIRST and TAILQ_NEXT     *)
(* need a NULL and are defined with the module that has it.                *)
(***************************************************************************)
EXTENDS Integers, Sequences, SequencesExt

IndexOf(q, x) == CHOOSE i \in DOMAIN q : q[i] = x

\* TAILQ_REMOVE().
Unlink(q, x) == RemoveAt(q, IndexOf(q, x))

\* No element is linked in twice.
Distinct(q) == \A i, j \in DOMAIN q : q[i] = q[j] => i = j
=============================================================================

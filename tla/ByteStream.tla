------------------------------ MODULE ByteStream ------------------------------
(***************************************************************************)
(* What both directions of a stream promise: the bytes that come out are   *)
(* the bytes that went in, in order, each once.  How they are cut into     *)
(* calls and segments does not matter.  Some may be lost before they come  *)
(* out; then it is known which, and the rest comes as if they had never    *)
(* been sent.  No two bytes in sent are equal.                             *)
(***************************************************************************)
EXTENDS Integers, Sequences, SequencesExt

VARIABLES
  sent,      \* what went in so far
  lost,      \* the bytes of it that will not come out
  received   \* what came out so far

vars == <<sent, lost, received>>

InOrder ==
  \A i, j \in DOMAIN received : i < j =>
    \E k, l \in DOMAIN sent : k < l /\ sent[k] = received[i] /\ sent[l] = received[j]

\* What went in earlier has come out earlier, or is lost.
NoGaps ==
  \A k, l \in DOMAIN sent : k < l /\ sent[l] \in ToSet(received) =>
    sent[k] \in ToSet(received) \cup lost

Faithful == ToSet(received) \subseteq ToSet(sent) \ lost /\ InOrder /\ NoGaps

Init == sent = <<>> /\ lost = {} /\ received = <<>>

Next ==
  /\ IsPrefix(sent, sent')
  /\ lost \subseteq lost'
  /\ IsPrefix(received, received')
  /\ Faithful'

Spec == Init /\ [][Next]_vars
=============================================================================

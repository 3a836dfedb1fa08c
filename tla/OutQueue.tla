------------------------------ MODULE OutQueue ------------------------------
(***************************************************************************)
(* What publish() promises its callers: a message that was accepted goes   *)
(* out once, and messages go out in the order they were accepted.          *)
(***************************************************************************)
EXTENDS Naturals, Sequences

CONSTANT Messages

VARIABLES accepted, published

Init == accepted = <<>> /\ published = <<>>

Accept ==
  /\ \E m \in Messages : accepted' = Append(accepted, m)
  /\ UNCHANGED published

Forward ==
  /\ Len(published) < Len(accepted)
  /\ published' = Append(published, accepted[Len(published) + 1])
  /\ UNCHANGED accepted

Spec == Init /\ [][Accept \/ Forward]_<<accepted, published>>

=============================================================================

---------------------------- MODULE SampleStream ----------------------------
(***************************************************************************)
(* What a recorder promises the hub: the samples of a transmission arrive  *)
(* in order, each once, with the times at which they came off the radio;   *)
(* what came after its last flush is lost when it is destroyed.            *)
(***************************************************************************)
EXTENDS Naturals, Sequences

CONSTANT Stamped \* samples with their times

VARIABLES received, sent, closed

Init == received = <<>> /\ sent = <<>> /\ closed = FALSE

Receive ==
  /\ ~closed
  /\ received' \in Seq(Stamped)
  /\ Len(received) <= Len(received')
  /\ \A i \in 1..Len(received) : received'[i] = received[i]
  /\ UNCHANGED <<sent, closed>>

Send ==
  /\ ~closed
  /\ Len(sent) < Len(received)
  /\ sent' = Append(sent, received[Len(sent) + 1])
  /\ UNCHANGED <<received, closed>>

Close ==
  /\ closed' = TRUE
  /\ UNCHANGED <<received, sent>>

Spec == Init /\ [][Receive \/ Send \/ Close]_<<received, sent, closed>>

=============================================================================

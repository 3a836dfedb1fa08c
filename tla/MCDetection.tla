---------------------------- MODULE MCDetection ----------------------------
(* Instances of Detection: four bins and the spectra that make them disagree. *)
EXTENDS Detection

Row(powers) == [i \in 0..3 |-> powers[i + 1]]

\* Quiet, a transmission, one that has moved, a weak one that a burst before it
\* lifts over the start level, and a burst.
MCSpectra == {Row(<<0, 0, 0, 0>>), Row(<<0, 3, 2, 0>>), Row(<<0, 0, 2, 3>>),
              Row(<<0, 1, 1, 0>>), Row(<<0, 5, 0, 0>>)}

FewSpectra == {Row(<<0, 0, 0, 0>>), Row(<<0, 3, 2, 0>>), Row(<<0, 0, 2, 3>>)}

MCUsable == {1, 2, 3}

=============================================================================

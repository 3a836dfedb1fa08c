------------------------------ MODULE Streams ------------------------------
(***************************************************************************)
(* The blocks at the ends of the flow graphs, each with a thread of GNU    *)
(* Radio: the noise learner with the detector's averager, and the          *)
(* spectrogram, of a processor; and the buffer of a recorder.  They share  *)
(* the samples and no state.                                               *)
(***************************************************************************)
EXTENDS NoiseLearner, Spectrogram, Recorder

vars == <<learnerVars, spectrogramVars, recorderVars>>

Init == LearnerInit /\ SpectrogramInit /\ RecorderInit

Next ==
  \/ LearnerNext /\ UNCHANGED <<spectrogramVars, recorderVars>>
  \/ SpectrogramNext /\ UNCHANGED <<learnerVars, recorderVars>>
  \/ RecorderNext /\ UNCHANGED <<learnerVars, spectrogramVars>>

Spec == Init /\ [][Next]_vars

=============================================================================

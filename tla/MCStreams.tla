----------------------------- MODULE MCStreams -----------------------------
(***************************************************************************)
(* A small instance of Streams, one block at a time: the blocks share no   *)
(* variable and each property is of one block, so that the others may as   *)
(* well stand still.                                                       *)
(***************************************************************************)
EXTENDS Streams

CONSTANTS v, w \* samples

\* A quiet spectrum, a signal, a louder one in the other bin, and one with a bin that
\* has no power at all.
MCFrames == {<<-9, -8>>, <<-4, -9>>, <<-6, -3>>, <<Silence, -8>>}

\* Means of odd sums, below what an int8_t holds, and of nothing.
MCPowers == {<<-60, -63>>, <<-7, 4>>, <<-300, -281>>, <<Zero, -60>>}

MCBlocks == {<<>>, <<v>>, <<w, v>>}

MCNoData == -100

InitialLearner == ~started
InitialSpectrogram == ~containerExists
InitialRecorder == clock = 0 /\ received = <<>> /\ ~destroyed

OneBlock ==
  \/ InitialLearner /\ InitialSpectrogram
  \/ InitialLearner /\ InitialRecorder
  \/ InitialSpectrogram /\ InitialRecorder

OneBlockSpec == Init /\ [][Next /\ OneBlock']_vars

=============================================================================

------------------------------ MODULE MCScanner ------------------------------
(***************************************************************************)
(* Small instances of Scanner: one radio with two, one or no scanned bands,*)
(* lists of at most two recordings, and one or two schedules.              *)
(***************************************************************************)
EXTENDS Scanner

CONSTANTS c1, c2, c3, \* centres of two bands and of a schedule
          f1, f2, f3, f4 \* frequencies of transmissions

MCFrequency == {c1, c2, c3, f1, f2, f3, f4}

Heard(c, f, needFlush) ==
  [source |-> "scanner", deviceFrequency |-> c, recordingFrequency |-> f, flush |-> needFlush]

Planned(c, f) ==
  [source |-> "schedule", deviceFrequency |-> c, recordingFrequency |-> f, flush |-> TRUE]

NoBand == <<>>
OneBand == <<c1>>
TwoBands == <<c1, c2>>

\* Silence, or up to three signals sorted by power; f3 is one that two bands
\* hear and a schedule wants too.
Crowd == {<<Heard(c1, f3, TRUE), Heard(c1, f1, TRUE), Heard(c1, f2, FALSE)>>}

OneBandDetections == <<{<<>>, <<Heard(c1, f1, FALSE)>>} \cup Crowd>>

\* The second band never hears anything.
HalfQuietDetections == <<{<<>>, <<Heard(c1, f1, FALSE)>>}, {<<>>}>>

CrowdedDetections == <<{<<>>} \cup Crowd, {<<>>, <<Heard(c2, f3, FALSE)>>}>>

NoBandDetections == <<>>

\* Two transmissions a (f3) and b (f4) overlap: a alone, both, b alone.
SchedA == [range |-> c2, recordings |-> <<Planned(c2, f3)>>]
SchedAB == [range |-> c2, recordings |-> <<Planned(c2, f3), Planned(c2, f4)>>]
SchedB == [range |-> c3, recordings |-> <<Planned(c3, f4)>>]

OneSchedule == {SchedAB}
AllSchedules == {SchedA, SchedAB, SchedB}

=============================================================================

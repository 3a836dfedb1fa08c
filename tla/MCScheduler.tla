----------------------------- MODULE MCScheduler -----------------------------
(***************************************************************************)
(* A small instance of Scheduler: a band of width 4 around the frequency   *)
(* of the front, moved by 1, and schedules of up to three transmissions.   *)
(***************************************************************************)
EXTENDS Scheduler

MCFrequency == {10, 11, 12, 14}
MCBandwidth == {1, 2, 3, 5}

Planned(b, e, f, w) == [begin |-> b, end |-> e, frequency |-> f, bandwidth |-> w]

\* Nothing; two in a row on one band; a long one around two short ones, one of
\* them out of the band; one at the edge of the band, next to one over it and
\* one too wide for any band.
MCLists ==
  { <<>>,
    <<Planned(1, 1, 10, 2), Planned(2, 3, 11, 2)>>,
    <<Planned(0, 3, 10, 2), Planned(1, 1, 14, 2), Planned(1, 2, 11, 2)>>,
    <<Planned(0, 1, 10, 2), Planned(0, 1, 12, 2), Planned(1, 3, 12, 3), Planned(2, 3, 12, 5)>> }

=============================================================================

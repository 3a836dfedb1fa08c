----------------------------- MODULE MCStartup -----------------------------
(***************************************************************************)
(* Small instances of Startup: two radios with one gain, frequencies in    *)
(* units of 100 kHz.                                                       *)
(***************************************************************************)
EXTENDS Startup

CONSTANTS s1, s2, \* serials
          g       \* a gain

R(start, stop) == [start |-> start, stop |-> stop]

\* The radios in any order; one of them reached twice, here and over the network or
\* twice over the network; a result that has no serial.
MCEnumerations ==
  {<<>>,
   <<[serial |-> s1, driver |-> "local"], [serial |-> s2, driver |-> "remote"]>>,
   <<[serial |-> s2, driver |-> "remote"], [serial |-> s2, driver |-> "local"],
     [serial |-> s1, driver |-> "local"]>>,
   <<[serial |-> s2, driver |-> "remote"], [serial |-> s2, driver |-> "remote"]>>,
   <<[serial |-> s1, driver |-> "remote"], [serial |-> NoSerial, driver |-> "local"],
     [serial |-> s1, driver |-> "local"]>>}

MCRateLists == {<<>>, <<10, 20, 104>>, <<2, 28>>}

\* createDevice's, less the ones that differ in rate alone.
MCDefaults == <<[rate |-> 104, ranges |-> <<R(1400, 1500)>>],
                [rate |-> 20, ranges |-> <<R(1440, 1460)>>]>>

\* Whole bands; an odd rate, a rest of one unit, and ranges that overlap, not sorted; two
\* bands with the centre 1430, and a single frequency; a last band that reaches over the
\* largest frequency.
MCSetups ==
  {[rate |-> 104, ranges |-> <<R(1400, 1600)>>],
   [rate |-> 29, ranges |-> <<R(1440, 1466), R(1400, 1451)>>],
   [rate |-> 20, ranges |-> <<R(1400, 1421), R(1425, 1435), R(1500, 1500)>>],
   [rate |-> 29, ranges |-> <<R(21400, 21470)>>]}

\* Two bands with the centre 1700, a range above 1.07 GHz, and a single frequency.
DeafSetups ==
  {[rate |-> 200, ranges |-> <<R(1400, 1611), R(1650, 1750), R(1800, 1800), R(10890, 10910)>>]}

MCLastRange == R(1440, 1460)

=============================================================================

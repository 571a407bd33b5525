----------------------------- MODULE MCTrendLog -----------------------------
(***************************************************************************)
(* An instance of TrendLog for TLC.                                        *)
(***************************************************************************)
EXTENDS TrendLog, TLC

CONSTANTS s1, s2

\* The interval stays at one second; a start time of 3 lies in the future at
\* first.
MCWritten ==
  [Enable |-> BOOLEAN, Stop_When_Full |-> {TRUE},
   Logging_Type |-> {"POLLED", "TRIGGERED"},
   Start_Time |-> {3}, Stop_Time |-> {WILD},
   Log_Interval |-> {100}, Align_Intervals |-> {TRUE},
   Interval_Offset |-> {0}, Trigger |-> {TRUE}]

MCCounts == {-3, -2, 2}

SourceSymmetry == Permutations({s1, s2})
=============================================================================

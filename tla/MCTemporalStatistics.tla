------------------------ MODULE MCTemporalStatistics ------------------------
(* TLC instance of TemporalStatistics: a clock that may go back, samples with *)
(* and without a judged scan, and more blocked clouds than are listed.        *)
EXTENDS TemporalStatistics

MCReasons == {"imu_window_incomplete"}
MCClockStamps == 0 .. 3
MCObservations == {[status |-> "INVALID", coverage |-> NoCoverage],
                   [status |-> "DEGRADED", coverage |-> 1],
                   [status |-> "OK", coverage |-> 3]}
=============================================================================

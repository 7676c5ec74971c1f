----------------------- MODULE MCStreamTimingWindows -----------------------
(* TLC instance of StreamTimingWindows: periods from -4 to 4 around a gap    *)
(* threshold of 2 ticks, jitter of 0, 1 and 2 ticks.                         *)
EXTENDS StreamTimingWindows

MCStamps == 0 .. 4
=============================================================================

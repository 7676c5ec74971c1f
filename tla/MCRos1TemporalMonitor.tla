----------------------- MODULE MCRos1TemporalMonitor -----------------------
(* TLC instance of Ros1TemporalMonitor: IMU messages in any order, clouds    *)
(* with and without point times, stamped at either end of their scan.        *)
EXTENDS Ros1TemporalMonitor

MCImuStamps == {0, 2, 4, 6}
Offsets == [name |-> "offset_time", datatype |-> "INT32", offset |-> 12]
Cloud(header, fields, values) == [header |-> header, fields |-> fields, values |-> values]
MCClouds == {Cloud(1, <<Offsets>>, [o \in {12} |-> {0, 1, 2}]),
             Cloud(2, <<>>, <<>>),
             Cloud(6, <<Offsets>>, [o \in {12} |-> {-4, 0}])}
=============================================================================

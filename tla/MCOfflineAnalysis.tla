------------------------- MODULE MCOfflineAnalysis -------------------------
(* TLC instance of OfflineAnalysis: short bags of IMU messages every two     *)
(* ticks in any order, and clouds of all kinds: absolute times and offsets,  *)
(* readable or not, a scan that is an outlier, read from a field that both   *)
(* programs know by another meaning, and clouds without times.               *)
EXTENDS OfflineAnalysis

Imu(stamp) == [kind |-> "imu", stamp |-> stamp]
Field(name, datatype) == <<[name |-> name, datatype |-> datatype, offset |-> 0]>>
Cloud(header, fields, times) ==
    [kind |-> "cloud", header |-> header, fields |-> fields, values |-> [o \in {0} |-> times]]

Timestamp == Field("timestamp", "FLOAT64")

MCMessages ==
    {Imu(0), Imu(2), Imu(4), [kind |-> "corrupt"],
     Cloud(2, Timestamp, 0 .. 2),
     Cloud(4, Field("t", "INT32"), -2 .. 0),
     Cloud(4, Field("timestamp", "FLOAT32"), 2 .. 4),
     Cloud(4, Timestamp, {4}),
     Cloud(6, Field("time", "FLOAT64"), 0 .. 6),
     Cloud(4, <<>>, {}), Cloud(7, <<>>, {})}

MCWarningMessages ==
    {Imu(0), Imu(2), Cloud(2, Timestamp, 0 .. 2), Cloud(4, Timestamp, 2 .. 4), Cloud(6, Timestamp, 0 .. 6)}
=============================================================================

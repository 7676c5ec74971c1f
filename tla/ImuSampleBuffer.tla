--------------------------- MODULE ImuSampleBuffer ---------------------------
(***************************************************************************)
(* domain/sensors/imu/imu_sample_buffer.cc: the stamps of the recent IMU   *)
(* samples, oldest first, kept as a record.                                *)
(***************************************************************************)
EXTENDS Integers, Sequences

CONSTANT Retention   \* retention_ns_, already clamped at zero

ASSUME RetentionAssumption == Retention \in Nat

NewBuffer == [samples |-> <<>>, dropped |-> 0]

\* The newest sample of a non-empty buffer.
Back(buffer) == buffer.samples[Len(buffer.samples)]

\* Index of the first sample that stays when those before cutoff are popped
\* from the front; one past the end when every sample is older.
FirstKept(samples, cutoff) ==
    CHOOSE i \in 1 .. Len(samples) + 1 :
        /\ \A j \in 1 .. i - 1 : samples[j] < cutoff
        /\ i <= Len(samples) => samples[i] >= cutoff

\* Slip: the sample exactly at the cutoff is pruned as well.
PruneOlderThan_Inclusive(samples, cutoff) ==
    SelectSeq(samples, LAMBDA t : t > cutoff)

PruneOlderThan(samples, cutoff) ==
    SubSeq(samples, FirstKept(samples, cutoff), Len(samples))

Add(buffer, stamp) ==
    IF buffer.samples # <<>> /\ stamp < Back(buffer)
    THEN [buffer EXCEPT !.dropped = @ + 1]
    ELSE [buffer EXCEPT
            !.samples = PruneOlderThan(Append(@, stamp), stamp - Retention)]
=============================================================================

------------------------- MODULE NumericStatistics -------------------------
(***************************************************************************)
(* BuildNumericStats of domain/statistics/temporal_statistics.cc: count,   *)
(* extremes, median and 95th percentile of the values a window collected.  *)
(* Values are whole numbers and the median is kept doubled; the mean is    *)
(* left out.                                                               *)
(***************************************************************************)
EXTENDS Integers, Sequences
LOCAL INSTANCE TLC

\* The least whole number that is not below percent * n / 100.
CeilPercent(percent, n) == (percent * n + 99) \div 100

\* Where the 95th percentile stands in the sorted values, counting from one.
P95Index(size) ==
    LET index == CeilPercent(95, size)
    IN  IF index < size THEN index ELSE size

TwiceMedian(sorted) ==
    LET middle == Len(sorted) \div 2
    IN  IF Len(sorted) % 2 = 0 THEN sorted[middle] + sorted[middle + 1]
        ELSE 2 * sorted[middle + 1]

BuildNumericStats(values) ==
    LET sorted == SortSeq(values, <)
    IN  IF values = <<>>
        THEN [count |-> 0, min |-> 0, max |-> 0, twiceMedian |-> 0, p95 |-> 0]
        ELSE [count |-> Len(values), min |-> sorted[1], max |-> sorted[Len(sorted)],
              twiceMedian |-> TwiceMedian(sorted), p95 |-> sorted[P95Index(Len(sorted))]]
=============================================================================

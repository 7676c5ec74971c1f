-------------------------- MODULE Algorithms_proof --------------------------
(***************************************************************************)
(* What the parts without state compute, for all their inputs: the         *)
(* percentiles of the statistics, what pruning leaves in the sample buffer, *)
(* and the verdict of the coverage analyzer.                               *)
(***************************************************************************)
EXTENDS Integers, WellFoundedInduction, SequenceTheorems, FiniteSetTheorems, TLAPS,
        NumericStatistics, Selections, ImuSampleBuffer, ImuCoverage

\* The index chosen for the 95th percentile of any number of sorted values is
\* the nearest rank: it is an index of the values, at least 95 % of them stand
\* no later, and it is the first of which that is true (BuildNumericStats).
THEOREM P95IndexIsNearestRank ==
    ASSUME NEW size \in Nat \ {0}
    PROVE  /\ P95Index(size) \in 1 .. size
           /\ 100 * P95Index(size) >= 95 * size
           /\ 100 * (P95Index(size) - 1) < 95 * size
<1> DEFINE rank == (95 * size + 99) \div 100
<1>1. /\ rank \in Int
      /\ 100 * rank <= 95 * size + 99
      /\ 95 * size + 99 < 100 * rank + 100
  OBVIOUS
<1>2. rank \in 1 .. size
  BY <1>1
<1>3. P95Index(size) = rank
  BY <1>2 DEF P95Index, CeilPercent
<1> QED
  BY <1>1, <1>2, <1>3

-----------------------------------------------------------------------------
(* Neighbours in a set of stamps *)

LEMMA SmallestNumber ==
    ASSUME NEW T \in SUBSET Nat, T # {}
    PROVE  \E x \in T : \A y \in T : x <= y
<1> DEFINE R == OpToRel(<, Nat)
<1>1. IsWellFoundedOn(R, Nat)
  BY NatLessThanWellFounded
<1>2. \A x, y \in Nat : <<y, x>> \in R <=> y < x
  BY DEF OpToRel
<1> HIDE DEF R
<1>3. PICK x \in T : \A y \in T : ~ (<<y, x>> \in R)
  BY <1>1, WFMin
<1>4. ASSUME NEW y \in T PROVE x <= y
  <2>1. x \in Nat /\ y \in Nat
    OBVIOUS
  <2>2. ~ (y < x)
    BY <1>2, <1>3, <2>1
  <2> QED  BY <2>1, <2>2
<1> QED  BY <1>4

\* The last stamp up to an instant, and the first from it on.
LEMMA LastUpTo ==
    ASSUME NEW S \in SUBSET Int, NEW t \in Int, NEW early \in S, early <= t
    PROVE  \E a \in S : a <= t /\ \A s \in S : s <= t => s <= a
<1> DEFINE T == {n \in Nat : t - n \in S}
<1>1. t - early \in T
  OBVIOUS
<1>2. PICK n \in T : \A m \in T : n <= m
  BY <1>1, SmallestNumber
<1>3. ASSUME NEW s \in S, s <= t PROVE s <= t - n
  <2>1. s \in Int /\ n \in Nat /\ t - s \in T
    BY <1>3
  <2>2. n <= t - s
    BY <1>2, <2>1
  <2> QED  BY <2>1, <2>2
<1> QED  BY <1>3

LEMMA FirstFrom ==
    ASSUME NEW S \in SUBSET Int, NEW t \in Int, NEW late \in S, late >= t
    PROVE  \E b \in S : b >= t /\ \A s \in S : s >= t => s >= b
<1> DEFINE T == {n \in Nat : t + n \in S}
<1>1. late - t \in T
  OBVIOUS
<1>2. PICK n \in T : \A m \in T : n <= m
  BY <1>1, SmallestNumber
<1>3. ASSUME NEW s \in S, s >= t PROVE s >= t + n
  <2>1. s - t \in T
    BY <1>3
  <2> QED  BY <1>2, <2>1
<1> QED  BY <1>3

\* An instant with a stamp on either side of it lies between two neighbours.
LEMMA BetweenNeighbours ==
    ASSUME NEW S \in SUBSET Int, NEW t \in Int,
           NEW early \in S, early <= t, NEW late \in S, late >= t
    PROVE  \E a, b \in S : a <= t /\ t <= b /\ ~ \E s \in S : a < s /\ s < b
<1>1. PICK a \in S : a <= t /\ \A s \in S : s <= t => s <= a
  BY LastUpTo
<1>2. PICK b \in S : b >= t /\ \A s \in S : s >= t => s >= b
  BY FirstFrom
<1>3. ASSUME NEW s \in S, a < s, s < b PROVE FALSE
  <2>1. a \in Int /\ b \in Int /\ s \in Int
    OBVIOUS
  <2>2. CASE s <= t
    BY <1>1, <1>3, <2>1, <2>2
  <2>3. CASE s >= t
    BY <1>2, <1>3, <2>1, <2>3
  <2> QED  BY <2>1, <2>2, <2>3
<1>4. t <= b
  BY <1>2
<1> QED  BY <1>1, <1>3, <1>4

-----------------------------------------------------------------------------
(* The sample buffer *)

\* Pruning stops at the first sample young enough, or past the end.
LEMMA FirstKeptIsThere ==
    ASSUME NEW samples \in Seq(Int), NEW cutoff \in Int
    PROVE  /\ FirstKept(samples, cutoff) \in 1 .. Len(samples) + 1
           /\ \A j \in 1 .. FirstKept(samples, cutoff) - 1 : samples[j] < cutoff
           /\ FirstKept(samples, cutoff) <= Len(samples)
                => samples[FirstKept(samples, cutoff)] >= cutoff
<1> DEFINE Stays(i) == i <= Len(samples) => samples[i] >= cutoff
           T == {i \in 1 .. Len(samples) + 1 : Stays(i)}
<1>1. Len(samples) \in Nat /\ \A i \in 1 .. Len(samples) : samples[i] \in Int
  OBVIOUS
<1>2. T \in SUBSET Nat /\ T # {}
  <2>1. Len(samples) + 1 \in T
    BY <1>1
  <2> QED  BY <1>1, <2>1
<1>3. PICK i \in T : \A j \in T : i <= j
  <2> HIDE DEF T
  <2> QED  BY <1>2, SmallestNumber
<1>4. ASSUME NEW j \in 1 .. i - 1 PROVE samples[j] < cutoff
  <2>1. i \in 1 .. Len(samples) + 1 /\ j \in 1 .. Len(samples) + 1 /\ j < i
    BY <1>1, <1>3
  <2>2. j \notin T
    BY <1>3, <2>1
  <2> QED  BY <1>1, <2>1, <2>2
<1>5. /\ i \in 1 .. Len(samples) + 1
      /\ \A j \in 1 .. i - 1 : samples[j] < cutoff
      /\ i <= Len(samples) => samples[i] >= cutoff
  BY <1>3, <1>4
<1> QED  BY <1>5 DEF FirstKept

\* What pruning leaves of the samples, as a set.
LEMMA PrunedSamples ==
    ASSUME NEW samples \in Seq(Int), NEW cutoff \in Int
    PROVE  LET pruned == PruneOlderThan(samples, cutoff)
           IN  /\ {pruned[i] : i \in 1 .. Len(pruned)} \subseteq {samples[i] : i \in 1 .. Len(samples)}
               /\ \A i \in 1 .. Len(samples) :
                    samples[i] >= cutoff => samples[i] \in {pruned[m] : m \in 1 .. Len(pruned)}
<1> DEFINE k == FirstKept(samples, cutoff)
           pruned == SubSeq(samples, k, Len(samples))
<1>1. /\ k \in 1 .. Len(samples) + 1
      /\ \A j \in 1 .. k - 1 : samples[j] < cutoff
  BY FirstKeptIsThere
<1>2. Len(samples) \in Nat /\ \A i \in 1 .. Len(samples) : samples[i] \in Int
  OBVIOUS
<1> HIDE DEF k
<1>3. /\ Len(pruned) = IF k <= Len(samples) THEN Len(samples) - k + 1 ELSE 0
      /\ \A i \in 1 .. Len(samples) - k + 1 : pruned[i] = samples[k + i - 1]
  <2>1. k \in Int /\ Len(samples) \in Int /\ \A i \in k .. Len(samples) : samples[i] \in Int
    BY <1>1, <1>2
  <2> QED  BY <2>1, SubSeqProperties
<1> HIDE DEF pruned
<1>4. ASSUME NEW i \in 1 .. Len(pruned) PROVE \E m \in 1 .. Len(samples) : pruned[i] = samples[m]
  <2>1. i \in 1 .. Len(samples) - k + 1 /\ k + i - 1 \in 1 .. Len(samples)
    BY <1>1, <1>2, <1>3
  <2> QED  BY <1>3, <2>1
<1>5. ASSUME NEW i \in 1 .. Len(samples), samples[i] >= cutoff
      PROVE  \E m \in 1 .. Len(pruned) : samples[i] = pruned[m]
  <2>1. i \notin 1 .. k - 1
    BY <1>1, <1>2, <1>5
  <2>2. /\ i - k + 1 \in 1 .. Len(pruned) /\ i - k + 1 \in 1 .. Len(samples) - k + 1
        /\ k + (i - k + 1) - 1 = i
    BY <1>1, <1>2, <1>3, <2>1
  <2>3. pruned[i - k + 1] = samples[k + (i - k + 1) - 1]
    BY <1>3, <2>2
  <2> QED  BY <2>2, <2>3
<1>6. pruned = PruneOlderThan(samples, cutoff)
  BY DEF PruneOlderThan, pruned, k
<1>7. {pruned[i] : i \in 1 .. Len(pruned)} \subseteq {samples[i] : i \in 1 .. Len(samples)}
  BY <1>4
<1>8. \A i \in 1 .. Len(samples) :
        samples[i] >= cutoff => samples[i] \in {pruned[m] : m \in 1 .. Len(pruned)}
  BY <1>5
<1> QED  BY <1>6, <1>7, <1>8

\* The buffer holds nothing it was not given.
LEMMA AddHoldsNoOther ==
    ASSUME NEW buffer \in [samples : Seq(Int), dropped : Nat], NEW stamp \in Int
    PROVE  LET new == Add(buffer, stamp)
           IN  /\ new \in [samples : Seq(Int), dropped : Nat]
               /\ \A i \in 1 .. Len(new.samples) :
                     \/ new.samples[i] = stamp
                     \/ \E j \in 1 .. Len(buffer.samples) : new.samples[i] = buffer.samples[j]
<1> DEFINE grown == Append(buffer.samples, stamp)
           cutoff == stamp - Retention
           k == FirstKept(grown, cutoff)
           kept == SubSeq(grown, k, Len(grown))
<1>1. buffer.samples \in Seq(Int) /\ buffer.dropped \in Nat
  OBVIOUS
<1>2. /\ grown \in Seq(Int) /\ Len(grown) = Len(buffer.samples) + 1
      /\ grown[Len(buffer.samples) + 1] = stamp
      /\ \A i \in 1 .. Len(buffer.samples) : grown[i] = buffer.samples[i]
      /\ Len(buffer.samples) \in Nat
  BY <1>1, AppendProperties
<1>3. cutoff \in Int
  BY RetentionAssumption
<1> HIDE DEF grown, cutoff
<1>4. k \in 1 .. Len(grown) + 1
  BY <1>2, <1>3, FirstKeptIsThere
<1>5. kept = PruneOlderThan(grown, cutoff)
  BY DEF PruneOlderThan, k
<1> HIDE DEF k
<1>6. /\ kept \in Seq(Int)
      /\ \A i \in 1 .. Len(kept) : \E j \in 1 .. Len(grown) : kept[i] = grown[j]
  <2>1. k \in Int /\ Len(grown) \in Nat /\ \A i \in k .. Len(grown) : grown[i] \in Int
    BY <1>2, <1>4
  <2>2. /\ kept \in Seq(Int)
        /\ Len(kept) = IF k <= Len(grown) THEN Len(grown) - k + 1 ELSE 0
        /\ \A i \in 1 .. Len(grown) - k + 1 : kept[i] = grown[k + i - 1]
    BY <2>1, SubSeqProperties
  <2> HIDE DEF kept
  <2>3. ASSUME NEW i \in 1 .. Len(kept)
        PROVE  i \in 1 .. Len(grown) - k + 1 /\ k + i - 1 \in 1 .. Len(grown)
    BY <1>4, <2>1, <2>2
  <2> QED  BY <2>2, <2>3
<1> HIDE DEF kept
<1>7. CASE buffer.samples # <<>> /\ stamp < Back(buffer)
  <2>1. Add(buffer, stamp) = [buffer EXCEPT !.dropped = @ + 1]
    BY <1>7 DEF Add
  <2> QED  BY <1>1, <2>1
<1>8. CASE ~ (buffer.samples # <<>> /\ stamp < Back(buffer))
  <2>1. Add(buffer, stamp) = [buffer EXCEPT !.samples = kept]
    BY <1>5, <1>8 DEF Add, grown, cutoff
  <2>2. [buffer EXCEPT !.samples = kept] = [samples |-> kept, dropped |-> buffer.dropped]
    OBVIOUS
  <2>3. \A j \in 1 .. Len(grown) :
            grown[j] = stamp \/ \E m \in 1 .. Len(buffer.samples) : grown[j] = buffer.samples[m]
    <3> TAKE j \in 1 .. Len(grown)
    <3>1. j \in 1 .. Len(buffer.samples) \/ j = Len(buffer.samples) + 1
      BY <1>2
    <3> QED  BY <1>2, <3>1
  <2>4. \A i \in 1 .. Len(kept) :
            kept[i] = stamp \/ \E m \in 1 .. Len(buffer.samples) : kept[i] = buffer.samples[m]
    BY <1>6, <2>3
  <2>5. [samples |-> kept, dropped |-> buffer.dropped] \in [samples : Seq(Int), dropped : Nat]
    BY <1>1, <1>6
  <2> QED  BY <2>1, <2>2, <2>4, <2>5
<1> QED  BY <1>7, <1>8

-----------------------------------------------------------------------------
(* The sample buffer of a stream in order *)

Ordered(seq) == \A i, j \in 1 .. Len(seq) : i <= j => seq[i] <= seq[j]

\* samples are those of all that are no older than Retention before the last.
IsRecent(samples, all) ==
    /\ all = <<>> <=> samples = <<>>
    /\ \E n \in 0 .. Len(all) :
          /\ samples = SubSeq(all, n + 1, Len(all))
          /\ \A i \in 1 .. n : all[i] < all[Len(all)] - Retention
          /\ \A i \in n + 1 .. Len(all) : all[i] >= all[Len(all)] - Retention

\* The newest sample kept is the newest one accepted.
LEMMA LastIsBack ==
    ASSUME NEW all \in Seq(Int), NEW samples \in Seq(Int), IsRecent(samples, all), all # <<>>
    PROVE  samples # <<>> /\ samples[Len(samples)] = all[Len(all)]
<1>1. PICK n \in 0 .. Len(all) : samples = SubSeq(all, n + 1, Len(all))
  BY DEF IsRecent
<1>2. samples # <<>>
  BY DEF IsRecent
<1>3. Len(samples) = Len(all) - n
  BY <1>1
<1>4. Len(samples) \in Nat \ {0} /\ Len(all) \in Nat
  BY <1>2
<1>5. samples[Len(samples)] = all[n + Len(samples)]
  <2>1. /\ n + 1 \in Int /\ Len(samples) \in 1 .. Len(all) - (n + 1) + 1
        /\ (n + 1) + Len(samples) - 1 = n + Len(samples)
    BY <1>3, <1>4
  <2>2. \A i \in n + 1 .. Len(all) : all[i] \in Int
    BY <1>4
  <2>3. SubSeq(all, n + 1, Len(all))[Len(samples)] = all[(n + 1) + Len(samples) - 1]
    BY <1>4, <2>1, <2>2, SubSeqProperties
  <2> QED  BY <1>1, <2>1, <2>3
<1> QED  BY <1>2, <1>3, <1>4, <1>5

LEMMA AddKeepsRecent ==
    ASSUME NEW all \in Seq(Int), NEW samples \in Seq(Int), NEW stamp \in Int,
           Ordered(all), IsRecent(samples, all),
           all # <<>> => all[Len(all)] <= stamp
    PROVE  /\ Ordered(Append(all, stamp))
           /\ PruneOlderThan(Append(samples, stamp), stamp - Retention) \in Seq(Int)
           /\ IsRecent(PruneOlderThan(Append(samples, stamp), stamp - Retention),
                       Append(all, stamp))
<1> DEFINE new == Append(all, stamp)
           grown == Append(samples, stamp)
           cutoff == stamp - Retention
           k == FirstKept(grown, cutoff)
<1>1. /\ new \in Seq(Int) /\ Len(new) = Len(all) + 1 /\ new[Len(new)] = stamp
      /\ \A i \in 1 .. Len(all) : new[i] = all[i]
      /\ Len(all) \in Nat /\ \A i \in 1 .. Len(all) : all[i] \in Int
  OBVIOUS
<1>2. Retention \in Nat
  BY RetentionAssumption
<1>3. PICK n \in 0 .. Len(all) :
          /\ samples = SubSeq(all, n + 1, Len(all))
          /\ \A i \in 1 .. n : all[i] < all[Len(all)] - Retention
          /\ \A i \in n + 1 .. Len(all) : all[i] >= all[Len(all)] - Retention
  BY DEF IsRecent
<1>4. ASSUME NEW i \in 1 .. Len(all) PROVE all[i] <= stamp
  <2>1. all # <<>> /\ Len(all) \in 1 .. Len(all)
    OBVIOUS
  <2>2. all[i] <= all[Len(all)] /\ all[Len(all)] <= stamp
    BY <2>1 DEF Ordered
  <2> QED  BY <1>1, <2>1, <2>2
<1>5. Ordered(new)
  <2> SUFFICES ASSUME NEW i \in 1 .. Len(new), NEW j \in 1 .. Len(new), i <= j
               PROVE  new[i] <= new[j]
    BY DEF Ordered
  <2>1. CASE j \in 1 .. Len(all)
    <3>1. i \in 1 .. Len(all)
      BY <1>1, <2>1
    <3>2. all[i] <= all[j]
      BY <2>1, <3>1 DEF Ordered
    <3> QED  BY <1>1, <2>1, <3>1, <3>2
  <2>2. CASE j = Len(new) /\ i \in 1 .. Len(all)
    BY <1>1, <1>4, <2>2
  <2>3. CASE j = Len(new) /\ i = Len(new)
    BY <1>1, <2>3
  <2> QED  BY <1>1, <2>1, <2>2, <2>3
<1>6. /\ grown \in Seq(Int)
      /\ Len(grown) = Len(new) - n
      /\ \A i \in 1 .. Len(grown) : grown[i] = new[n + i]
  <2>1. /\ Len(samples) = Len(all) - n
        /\ \A i \in 1 .. Len(samples) : samples[i] = all[n + i]
    BY <1>1, <1>3
  <2>2. /\ Len(grown) = Len(samples) + 1 /\ grown[Len(grown)] = stamp
        /\ \A i \in 1 .. Len(samples) : grown[i] = samples[i]
    OBVIOUS
  <2>3. ASSUME NEW i \in 1 .. Len(grown) PROVE grown[i] = new[n + i]
    <3>1. CASE i \in 1 .. Len(samples)
      <4>1. n + i \in 1 .. Len(all)
        BY <1>1, <1>3, <2>1, <3>1
      <4> QED  BY <1>1, <2>1, <2>2, <3>1, <4>1
    <3>2. CASE i = Len(grown)
      <4>1. n + i = Len(new)
        BY <1>1, <1>3, <2>1, <2>2, <3>2
      <4> HIDE DEF new, grown
      <4>2. grown[i] = stamp
        BY <2>2, <3>2
      <4>3. new[n + i] = stamp
        BY <1>1, <4>1
      <4> QED  BY <4>2, <4>3
    <3>3. i \in 1 .. Len(samples) \/ i = Len(grown)
      <4>1. Len(samples) \in Nat
        OBVIOUS
      <4> HIDE DEF grown
      <4> QED  BY <2>2, <4>1
    <3> QED  BY <3>1, <3>2, <3>3
  <2> QED  BY <1>1, <1>3, <2>1, <2>2, <2>3
<1> HIDE DEF new, grown
<1>7. /\ cutoff \in Int /\ k \in 1 .. Len(grown) + 1
      /\ \A j \in 1 .. k - 1 : grown[j] < cutoff
      /\ k <= Len(grown) => grown[k] >= cutoff
  <2>1. cutoff \in Int
    BY <1>2
  <2> HIDE DEF cutoff
  <2> QED  BY <1>6, <2>1, FirstKeptIsThere
<1> HIDE DEF k
<1>8. k <= Len(grown)
  <2> SUFFICES ASSUME k = Len(grown) + 1 PROVE FALSE
    BY <1>6, <1>7
  <2>1. Len(grown) \in 1 .. k - 1 /\ Len(grown) \in 1 .. Len(grown)
    BY <1>1, <1>3, <1>6, <1>7
  <2>2. grown[Len(grown)] = stamp
    <3>1. n + Len(grown) = Len(new)
      BY <1>1, <1>3, <1>6
    <3> QED  BY <1>1, <1>6, <2>1, <3>1
  <2> QED  BY <1>2, <1>7, <2>1, <2>2
<1> DEFINE m == n + k - 1
           kept == SubSeq(grown, k, Len(grown))
<1>9. m \in 0 .. Len(new) - 1
  BY <1>1, <1>3, <1>6, <1>7, <1>8
<1>10. kept \in Seq(Int) /\ kept # <<>> /\ kept = SubSeq(new, m + 1, Len(new))
  <2>1. kept = [i \in 1 .. Len(grown) - k + 1 |-> grown[k + i - 1]]
    BY <1>6, <1>7, <1>8
  <2>2. SubSeq(new, m + 1, Len(new)) = [i \in 1 .. Len(new) - m |-> new[m + i]]
    <3>1. m + 1 \in Int /\ Len(new) - (m + 1) + 1 = Len(new) - m
      BY <1>1, <1>9
    <3> HIDE DEF m
    <3>2. \A i \in 1 .. Len(new) - m : (m + 1) + i - 1 = m + i
      BY <1>1, <1>9
    <3> QED  BY <1>1, <1>9, <3>1, <3>2
  <2>3. Len(grown) - k + 1 = Len(new) - m
    BY <1>1, <1>3, <1>6, <1>7
  <2>4. ASSUME NEW i \in 1 .. Len(new) - m PROVE grown[k + i - 1] = new[m + i]
    <3>1. k + i - 1 \in 1 .. Len(grown) /\ n + (k + i - 1) = m + i
      BY <1>1, <1>3, <1>6, <1>7, <2>3
    <3> QED  BY <1>6, <3>1
  <2>5. kept = SubSeq(new, m + 1, Len(new))
    BY <2>1, <2>2, <2>3, <2>4
  <2>6. kept \in Seq(Int) /\ kept # <<>>
    <3>1. Len(grown) \in Nat /\ k \in 1 .. Len(grown)
      BY <1>6, <1>7, <1>8
    <3>2. Len(kept) = Len(grown) - k + 1 /\ kept \in Seq(Int)
      BY <1>6, <3>1
    <3>3. Len(kept) # 0 /\ Len(<<>>) = 0
      BY <3>1, <3>2
    <3> HIDE DEF kept
    <3> QED  BY <3>2, <3>3
  <2> QED  BY <2>5, <2>6
<1>11. ASSUME NEW i \in 1 .. m PROVE new[i] < new[Len(new)] - Retention
  <2>1. CASE i \in 1 .. n
    <3>1. i \in 1 .. Len(all) /\ Len(all) \in 1 .. Len(all)
      <4>1. Len(all) \in Nat
        OBVIOUS
      <4> HIDE DEF m
      <4> QED  BY <2>1, <4>1
    <3>2. all[i] < all[Len(all)] - Retention /\ all[Len(all)] <= stamp
      BY <1>3, <1>4, <2>1, <3>1
    <3> QED  BY <1>1, <1>2, <3>1, <3>2, SMTT(30)
  <2>2. CASE i \in n + 1 .. m
    <3>1. i - n \in 1 .. k - 1 /\ i - n \in 1 .. Len(grown) /\ n + (i - n) = i
      BY <1>1, <1>3, <1>6, <1>7, <1>8, <2>2
    <3>2. grown[i - n] < cutoff /\ grown[i - n] = new[i]
      BY <1>6, <1>7, <3>1
    <3> QED  BY <1>1, <3>2
  <2> QED  BY <1>3, <1>7, <2>1, <2>2
<1>12. ASSUME NEW i \in m + 1 .. Len(new) PROVE new[i] >= new[Len(new)] - Retention
  <2>1. /\ m + 1 \in 1 .. Len(new) /\ i \in 1 .. Len(new) /\ m + 1 <= i
        /\ new[m + 1] \in Int /\ new[i] \in Int
    BY <1>1, <1>9, SMTT(30)
  <2>2. new[m + 1] <= new[i]
    BY <1>5, <2>1 DEF Ordered
  <2>3. new[m + 1] >= cutoff
    <3>1. k \in 1 .. Len(grown) /\ n + k = m + 1
      BY <1>3, <1>6, <1>7, <1>8
    <3> QED  BY <1>6, <1>7, <3>1
  <2> QED  BY <1>1, <1>2, <2>1, <2>2, <2>3
<1>13. IsRecent(kept, new)
  <2>1. new # <<>> /\ m \in 0 .. Len(new)
    BY <1>1, <1>9
  <2> HIDE DEF kept, m
  <2> QED  BY <1>10, <1>11, <1>12, <2>1 DEF IsRecent
<1>14. kept = PruneOlderThan(grown, cutoff)
  BY DEF PruneOlderThan, k
<1> QED  BY <1>5, <1>10, <1>13, <1>14 DEF new, grown

-----------------------------------------------------------------------------
(* The coverage analyzer *)

\* "ok" is not said of a window without checking every instant of it: between
\* the two tolerated margins each lies between two of the samples given, no
\* further apart than the allowed gap.
THEOREM OkWindowIsInterpolable ==
    ASSUME NEW window \in [start : Int, end : Int], NEW stamps \in SUBSET Int,
           Analyze(window, stamps) = "ok",
           NEW t \in window.start + MaxMissingPrefix .. window.end - MaxMissingSuffix
    PROVE  \E a, b \in stamps : a <= t /\ t <= b /\ b - a <= MaxInternalGap
<1> DEFINE inside == StampsInside(window, stamps)
<1>1. /\ ~ MissingPrefix(window, inside)
      /\ ~ MissingSuffix(window, inside)
      /\ ~ HasInternalGap(inside)
  BY DEF Analyze
<1>2. inside \in SUBSET Int /\ inside \subseteq stamps
  BY DEF StampsInside
<1> HIDE DEF inside
<1>3. /\ window.start \in Int /\ window.end \in Int /\ t \in Int
      /\ window.start + MaxMissingPrefix <= t /\ t <= window.end - MaxMissingSuffix
  BY CoverageAssumption
<1>4. PICK early \in inside : early - window.start <= MaxMissingPrefix
  BY <1>1, <1>2, <1>3, CoverageAssumption DEF MissingPrefix
<1>5. PICK late \in inside : window.end - late <= MaxMissingSuffix
  BY <1>1, <1>2, <1>3, CoverageAssumption DEF MissingSuffix
<1>6. early <= t /\ late >= t
  BY <1>2, <1>3, <1>4, <1>5, CoverageAssumption
<1>7. \E a, b \in inside : a <= t /\ t <= b /\ ~ \E s \in inside : a < s /\ s < b
  <2>1. ASSUME NEW S, S = inside PROVE \E a, b \in S : a <= t /\ t <= b /\ ~ \E s \in S : a < s /\ s < b
    <3>1. S \in SUBSET Int /\ early \in S /\ late \in S
      BY <1>2, <2>1
    <3>2. t \in Int
      BY <1>3
    <3> QED  BY <1>6, <3>1, <3>2, BetweenNeighbours
  <2> QED  BY <2>1
<1>8. PICK a, b \in inside : a <= t /\ t <= b /\ ~ \E s \in inside : a < s /\ s < b
  BY <1>7
<1>9. b - a <= MaxInternalGap
  BY <1>1, <1>2, <1>8, CoverageAssumption DEF HasInternalGap
<1> QED  BY <1>2, <1>8, <1>9

\* The IMU stream runs at least at its expected rate around the window.
IsNominal(window, stamps, period) ==
    \A t \in Int : window.start <= t /\ t + period <= window.end + 1
        => \E s \in stamps : t <= s /\ s < t + period

\* Margins of at least one period are enough for a nominal stream.
LEMMA NominalStreamIsOk ==
    ASSUME NEW period \in Nat \ {0},
           MaxMissingPrefix \in Nat, MaxMissingPrefix >= period,
           MaxMissingSuffix \in Nat, MaxMissingSuffix >= period,
           MaxInternalGap \in Nat, MaxInternalGap >= period,
           NEW window \in [start : Int, end : Int], NEW stamps \in SUBSET Int,
           window.start + period <= window.end,
           IsNominal(window, stamps, period)
    PROVE  Analyze(window, stamps) = "ok"
<1> DEFINE inside == StampsInside(window, stamps)
<1>1. period \in Nat \ {0} /\ MaxInternalGap \in Nat /\ MaxInternalGap >= period
  OBVIOUS
<1>2. MaxMissingPrefix \in Nat /\ MaxMissingPrefix >= period
  OBVIOUS
<1>3. MaxMissingSuffix \in Nat /\ MaxMissingSuffix >= period
  OBVIOUS
<1>4. /\ window.start \in Int /\ window.end \in Int
      /\ window.start + period <= window.end
      /\ IsNominal(window, stamps, period)
  OBVIOUS
<1>5. PICK first \in stamps : window.start <= first /\ first < window.start + period
  BY <1>1, <1>4 DEF IsNominal
<1>6. PICK last \in stamps : window.end - period < last /\ last <= window.end
  <2>1. \E s \in stamps : window.end - period + 1 <= s /\ s < window.end - period + 1 + period
    <3>1. window.end - period + 1 \in Int
      BY <1>1, <1>4
    <3> QED  BY <3>1, <1>1, <1>4 DEF IsNominal
  <2> QED
    <3>1. PICK s \in stamps : /\ window.end - period + 1 <= s
                              /\ s < window.end - period + 1 + period
      BY <2>1
    <3>2. s \in Int
      OBVIOUS
    <3>3. window.end - period < s /\ s <= window.end
      BY <3>1, <3>2, <1>1, <1>4
    <3> QED  BY <3>3
<1>7. first \in inside /\ last \in inside
  BY <1>1, <1>4, <1>5, <1>6 DEF StampsInside, Contains
<1>8. ~ MissingPrefix(window, inside)
  BY <1>1, <1>2, <1>4, <1>5, <1>7 DEF MissingPrefix
<1>9. ~ MissingSuffix(window, inside)
  BY <1>1, <1>3, <1>4, <1>6, <1>7 DEF MissingSuffix
<1>10. ~ HasInternalGap(inside)
  <2> SUFFICES ASSUME NEW a \in inside, NEW b \in inside, b - a > MaxInternalGap
               PROVE  \E t \in inside : a < t /\ t < b
    BY DEF HasInternalGap
  <2>1. a \in Int /\ b \in Int /\ window.start <= a /\ b <= window.end
    BY DEF StampsInside, Contains
  <2>2. PICK t \in stamps : a + 1 <= t /\ t < a + 1 + period
    <3>1. a + 1 \in Int /\ window.start <= a + 1 /\ a + 1 + period <= window.end + 1
      BY <2>1, <1>1, <1>4
    <3> HIDE DEF inside
    <3> QED  BY <3>1, <1>4 DEF IsNominal
  <2>3. a < t /\ t < b
    BY <2>1, <2>2, <1>1
  <2>4. t \in inside
    BY <2>1, <2>3, <1>4 DEF StampsInside, Contains
  <2> QED  BY <2>3, <2>4
<1> QED  BY <1>1, <1>4, <1>7, <1>8, <1>9, <1>10 DEF Analyze
-----------------------------------------------------------------------------
(* A regular stream covers its windows *)

\* Steps that never go back make a sequence that is in order.
LEMMA StepsMakeOrder ==
    ASSUME NEW log \in Seq(Int),
           \A i \in 2 .. Len(log) : log[i] - log[i - 1] >= 0
    PROVE  Ordered(log)
<1> SUFFICES ASSUME NEW i \in 1 .. Len(log), NEW j \in 1 .. Len(log), i <= j
             PROVE  log[i] <= log[j]
  BY DEF Ordered
<1>1. Len(log) \in Nat /\ \A n \in 1 .. Len(log) : log[n] \in Int
  OBVIOUS
<1> DEFINE Falls == {n \in Nat : i + n <= j /\ log[i + n] < log[i]}
<1>2. Falls = {}
  <2> SUFFICES ASSUME Falls # {} PROVE FALSE
    OBVIOUS
  <2>1. PICK n \in Falls : \A m \in Falls : n <= m
    BY SmallestNumber
  <2>2. n \in Nat /\ i + n <= j /\ log[i + n] < log[i]
    BY <2>1
  <2> HIDE DEF Falls
  <2>3. n # 0 /\ n - 1 \in Nat /\ n - 1 \notin Falls
    <3>1. n # 0
      BY <1>1, <2>2
    <3> QED  BY <2>1, <2>2, <3>1
  <2>4. i + n \in 2 .. Len(log) /\ (i + n) - 1 = i + (n - 1) /\ i + (n - 1) \in 1 .. Len(log)
    BY <1>1, <2>2, <2>3, SMTT(30)
  <2>5. log[i + n] - log[i + (n - 1)] >= 0
    BY <2>4
  <2>6. ~ (log[i + (n - 1)] < log[i])
    BY <2>2, <2>3, <2>4 DEF Falls
  <2> QED  BY <1>1, <2>2, <2>4, <2>5, <2>6, SMTT(30)
<1>3. j - i \in Nat /\ i + (j - i) = j
  OBVIOUS
<1>4. ~ (log[j] < log[i])
  <2>1. j - i \notin Falls
    BY <1>2
  <2> QED  BY <1>3, <2>1
<1> QED  BY <1>1, <1>4

\* The stamps up to the k-th that the buffer still has when it arrives.
KeptAt(log, k) == {log[i] : i \in {j \in 1 .. k : log[j] >= log[k] - Retention}}

\* The recent samples are those of the stream the buffer keeps.
LEMMA RecentAreKept ==
    ASSUME NEW all \in Seq(Int), NEW samples, IsRecent(samples, all), all # <<>>
    PROVE  {samples[i] : i \in DOMAIN samples} = KeptAt(all, Len(all))
<1>1. Len(all) \in Nat /\ \A i \in 1 .. Len(all) : all[i] \in Int
  OBVIOUS
<1>2. PICK n \in 0 .. Len(all) :
          /\ samples = SubSeq(all, n + 1, Len(all))
          /\ \A i \in 1 .. n : all[i] < all[Len(all)] - Retention
          /\ \A i \in n + 1 .. Len(all) : all[i] >= all[Len(all)] - Retention
  BY DEF IsRecent
<1> DEFINE last == all[Len(all)]
<1>3. last \in Int /\ Retention \in Int
  <2>1. Len(all) \in 1 .. Len(all)
    OBVIOUS
  <2> QED  BY <1>1, <2>1, RetentionAssumption
<1>4. /\ DOMAIN samples = 1 .. Len(all) - n
      /\ \A i \in 1 .. Len(all) - n : samples[i] = all[n + i]
  <2>1. /\ SubSeq(all, n + 1, Len(all)) = [i \in 1 .. Len(all) - n |-> all[n + i]]
    <3>1. /\ n + 1 \in Int /\ Len(all) - (n + 1) + 1 = Len(all) - n
          /\ \A i \in 1 .. Len(all) - n : (n + 1) + i - 1 = n + i
      BY <1>1
    <3> QED  BY <1>1, <3>1
  <2> QED  BY <1>2, <2>1
<1> HIDE DEF last
<1>5. ASSUME NEW i \in DOMAIN samples PROVE samples[i] \in KeptAt(all, Len(all))
  <2>1. n + i \in 1 .. Len(all) /\ n + i \in n + 1 .. Len(all) /\ samples[i] = all[n + i]
    BY <1>1, <1>4
  <2>2. all[n + i] >= last - Retention
    BY <1>2, <2>1 DEF last
  <2> QED  BY <2>1, <2>2 DEF KeptAt, last
<1>6. ASSUME NEW j \in 1 .. Len(all), all[j] >= last - Retention
      PROVE  \E i \in DOMAIN samples : all[j] = samples[i]
  <2>1. j \notin 1 .. n
    <3>1. ASSUME j \in 1 .. n PROVE FALSE
      <4>1. all[j] < last - Retention
        BY <1>2, <3>1 DEF last
      <4>2. all[j] \in Int
        BY <1>1
      <4> QED  BY <1>3, <1>6, <4>1, <4>2
    <3> QED  BY <3>1
  <2>2. j - n \in DOMAIN samples /\ n + (j - n) = j
    BY <1>1, <1>4, <2>1
  <2> QED  BY <1>4, <2>2
<1>7. KeptAt(all, Len(all)) \subseteq {samples[i] : i \in DOMAIN samples}
  BY <1>6 DEF KeptAt, last
<1> QED  BY <1>5, <1>7

\* The steps of a stream are no longer than a window of time and its margins.
StepsFit(window, log, k) ==
    \A i \in 2 .. k :
        LET step == log[i] - log[i - 1]
        IN  /\ step <= window.end - window.start
            /\ step <= MaxMissingPrefix /\ step <= MaxMissingSuffix
            /\ step <= MaxInternalGap

LEMMA RegularStreamIsOk ==
    ASSUME NEW window \in [start : Int, end : Int], window.start < window.end,
           NEW k \in Nat \ {0}, NEW log,
           \A i \in 1 .. k : log[i] \in Int,
           \A i, j \in 1 .. k : i <= j => log[i] <= log[j],
           log[1] <= window.start + MaxMissingPrefix, log[1] <= window.end,
           StepsFit(window, log, k),
           log[k] >= window.end, log[k] - Retention <= window.start
    PROVE  Analyze(window, KeptAt(log, k)) = "ok"
<1> DEFINE stamps == KeptAt(log, k)
           inside == StampsInside(window, stamps)
           start == window.start
           end == window.end
<1>1. /\ start \in Int /\ end \in Int /\ start < end /\ log[k] >= end
      /\ log[1] <= start + MaxMissingPrefix /\ log[1] <= end
      /\ log[k] - Retention <= start
      /\ 1 \in 1 .. k /\ k \in 1 .. k /\ k \in Nat
      /\ \A i \in 1 .. k : i \in Int /\ log[i] \in Int
      /\ \A i, j \in 1 .. k : i <= j => log[i] <= log[j]
      /\ MaxMissingPrefix \in Int /\ MaxMissingSuffix \in Int /\ MaxInternalGap \in Int
      /\ Retention \in Int
  BY CoverageAssumption, RetentionAssumption
<1>2. ASSUME NEW i \in 2 .. k
      PROVE  /\ i \in 1 .. k /\ i - 1 \in 1 .. k
             /\ log[i] - log[i - 1] <= end - start
             /\ log[i] - log[i - 1] <= MaxMissingPrefix
             /\ log[i] - log[i - 1] <= MaxMissingSuffix
             /\ log[i] - log[i - 1] <= MaxInternalGap
  BY DEF StepsFit
<1>3. ASSUME NEW i \in 1 .. k, start <= log[i], log[i] <= end PROVE log[i] \in inside
  BY <1>1, <1>3 DEF KeptAt, StampsInside, Contains
<1>4. \A t \in inside : start <= t /\ t <= end /\ \E i \in 1 .. k : t = log[i]
  BY DEF KeptAt, StampsInside, Contains
<1> HIDE DEF stamps, inside, start, end
\* The first stamp from the start of the window on.
<1>5. PICK a \in 1 .. k : log[a] >= start /\ \A i \in 1 .. k : log[i] >= start => a <= i
  <2> DEFINE From == {i \in 1 .. k : log[i] >= start}
  <2>1. k \in From /\ From \in SUBSET Nat
    BY <1>1
  <2>2. PICK a \in From : \A i \in From : a <= i
    BY <2>1, SmallestNumber
  <2> QED  BY <2>2
<1>6. log[a] <= end /\ log[a] - start <= MaxMissingPrefix
  <2>1. CASE a = 1
    BY <1>1, <2>1
  <2>2. CASE a \in 2 .. k
    <3>1. a - 1 \in 1 .. k /\ ~ (log[a - 1] >= start)
      BY <1>2, <1>5, <2>2
    <3> QED  BY <1>1, <1>2, <2>2, <3>1
  <2> QED  BY <1>1, <2>1, <2>2
<1>7. log[a] \in inside
  BY <1>3, <1>5, <1>6
\* The next stamp after one before the end of the stream.
<1>8. ASSUME NEW t \in inside, NEW i \in 1 .. k, t < log[i]
      PROVE  \E n \in 2 .. k : n <= i /\ log[n - 1] = t /\ t < log[n]
  <2> DEFINE Later == {n \in 1 .. k : t < log[n]}
  <2>1. i \in Later /\ Later \in SUBSET Nat
    BY <1>1, <1>8
  <2>2. PICK n \in Later : \A m \in Later : n <= m
    BY <2>1, SmallestNumber
  <2>3. PICK m \in 1 .. k : t = log[m]
    BY <1>4
  <2>4. m < n
    BY <1>1, <2>2, <2>3
  <2>5. n \in 2 .. k /\ n - 1 \in 1 .. k /\ m <= n - 1
    BY <1>1, <2>2, <2>4
  <2>6. ~ (t < log[n - 1])
    BY <2>2, <2>5
  <2>7. log[n - 1] = t
    BY <1>1, <2>3, <2>5, <2>6
  <2> QED  BY <2>1, <2>2, <2>5, <2>7
<1>9. ~ MissingPrefix(window, inside)
  BY <1>1, <1>6, <1>7 DEF MissingPrefix, start
<1>10. ~ MissingSuffix(window, inside)
  <2> SUFFICES \E t \in inside : end - t <= MaxMissingSuffix
    <3>1. \A t \in inside : t \in Int
      BY <1>1, <1>4
    <3> QED  BY <1>1, <3>1 DEF MissingSuffix, end
  <2>1. ASSUME NEW i \in 1 .. k, log[i] = end PROVE \E t \in inside : end - t <= MaxMissingSuffix
    <3>1. log[i] \in inside /\ end - log[i] = 0
      BY <1>1, <1>3, <2>1
    <3>2. 0 <= MaxMissingSuffix
      BY CoverageAssumption
    <3> QED  BY <3>1, <3>2
  <2>2. CASE \A i \in 1 .. k : log[i] # end
    <3> DEFINE Past == {i \in 1 .. k : log[i] > end}
    <3>1. k \in Past /\ Past \in SUBSET Nat
      BY <1>1, <2>2
    <3>2. PICK n \in Past : \A m \in Past : n <= m
      BY <3>1, SmallestNumber
    <3>3. n \in 2 .. k /\ a <= n - 1
      <4>1. a \notin Past
        BY <1>1, <1>6
      <4>2. a < n
        <5>1. ~ (n <= a)
          BY <1>1, <1>6, <3>2
        <5> QED  BY <1>1, <5>1
      <4> QED  BY <1>1, <4>2
    <3>4. n - 1 \in 1 .. k /\ n - 1 \notin Past
      BY <1>1, <3>2, <3>3
    <3>5. start <= log[n - 1] /\ log[n - 1] <= end
      BY <1>1, <1>5, <3>3, <3>4
    <3>6. log[n - 1] \in inside
      BY <1>3, <3>4, <3>5
    <3>7. end - log[n - 1] <= MaxMissingSuffix
      BY <1>1, <1>2, <3>2, <3>3, <3>4
    <3> QED  BY <3>6, <3>7
  <2> QED  BY <2>1, <2>2
<1>11. ~ HasInternalGap(inside)
  <2> SUFFICES ASSUME NEW x \in inside, NEW y \in inside, y - x > MaxInternalGap
               PROVE  \E t \in inside : x < t /\ t < y
    BY DEF HasInternalGap
  <2>1. PICK j \in 1 .. k : y = log[j]
    BY <1>4
  <2>2. x \in Int /\ y \in Int /\ start <= x /\ y <= end /\ x < y
    <3>1. x \in Int /\ y \in Int /\ start <= x /\ y <= end
      BY <1>1, <1>4
    <3> QED  BY <3>1, CoverageAssumption
  <2>3. PICK n \in 2 .. k : n <= j /\ log[n - 1] = x /\ x < log[n]
    BY <1>8, <2>1, <2>2
  <2>4. log[n] - x <= MaxInternalGap /\ log[n] <= y /\ log[n] \in Int
    BY <1>1, <1>2, <2>1, <2>3
  <2>5. log[n] < y /\ start <= log[n] /\ log[n] <= end /\ n \in 1 .. k
    BY <1>1, <1>2, <2>2, <2>3, <2>4
  <2> QED  BY <1>3, <2>3, <2>5
<1>12. inside # {}
  BY <1>7
<1> QED  BY <1>1, <1>9, <1>10, <1>11, <1>12 DEF Analyze, inside, stamps, start, end
-----------------------------------------------------------------------------
(* The elements a filter collects *)

UpTo(S, i) == {j \in S : j <= i}

\* The place of a number in a set, which grows with the number.
LEMMA PlacesInSet ==
    ASSUME NEW S \in SUBSET Int, IsFiniteSet(S)
    PROVE  /\ Cardinality(S) \in Nat
           /\ \A i \in S : Cardinality(UpTo(S, i)) \in 1 .. Cardinality(S)
           /\ \A i, j \in S : i < j => Cardinality(UpTo(S, i)) < Cardinality(UpTo(S, j))
<1>1. Cardinality(S) \in Nat
  BY FS_CardinalityType
<1>2. ASSUME NEW i \in S
      PROVE  /\ IsFiniteSet(UpTo(S, i)) /\ Cardinality(UpTo(S, i)) \in Nat
             /\ Cardinality(UpTo(S, i)) \in 1 .. Cardinality(S)
  <2>1. UpTo(S, i) \in SUBSET S /\ i \in UpTo(S, i)
    BY DEF UpTo
  <2>2. /\ IsFiniteSet(UpTo(S, i)) /\ Cardinality(UpTo(S, i)) <= Cardinality(S)
        /\ Cardinality(UpTo(S, i)) \in Nat /\ Cardinality(UpTo(S, i)) # 0
    BY <2>1, FS_Subset, FS_CardinalityType, FS_EmptySet
  <2> QED  BY <1>1, <2>2
<1>3. ASSUME NEW i \in S, NEW j \in S, i < j
      PROVE  Cardinality(UpTo(S, i)) < Cardinality(UpTo(S, j))
  <2>1. UpTo(S, i) \in SUBSET UpTo(S, j) /\ j \in UpTo(S, j) /\ j \notin UpTo(S, i)
    <3>1. i \in Int /\ j \in Int /\ \A k \in S : k \in Int
      OBVIOUS
    <3>2. ~ (j <= i) /\ j <= j /\ \A k \in S : k <= i => k <= j
      BY <1>3, <3>1
    <3> QED  BY <3>2 DEF UpTo
  <2>2. UpTo(S, i) # UpTo(S, j)
    BY <2>1
  <2>3. /\ IsFiniteSet(UpTo(S, j)) /\ Cardinality(UpTo(S, i)) \in Nat
        /\ Cardinality(UpTo(S, j)) \in Nat
    BY <1>2
  <2> QED  BY <2>1, <2>2, <2>3, FS_Subset
<1> QED  BY <1>1, <1>2, <1>3

\* The number at a place is the n-th smallest one, ...
LEMMA NthIs ==
    ASSUME NEW S \in SUBSET Int, IsFiniteSet(S), NEW i \in S, NEW n,
           Cardinality(UpTo(S, i)) = n
    PROVE  Nth(S, n) = i
<1>1. ASSUME NEW j \in S, Cardinality(UpTo(S, j)) = n PROVE j = i
  <2>1. ~ (i < j) /\ ~ (j < i)
    <3>1. ~ (n < n)
      <4>1. n \in Int
        BY PlacesInSet
      <4> QED  BY <4>1
    <3> QED  BY <1>1, <3>1, PlacesInSet
  <2>2. i \in Int /\ j \in Int
    OBVIOUS
  <2> QED  BY <2>1, <2>2
<1>2. Nth(S, n) = CHOOSE j \in S : Cardinality(UpTo(S, j)) = n
  BY DEF Nth, UpTo
<1> QED  BY <1>1, <1>2

\* ... and there is one at every place: the place of a number in the set is an
\* injection, so it takes every value up to the size of the set.
LEMMA NthIsThere ==
    ASSUME NEW S \in SUBSET Int, IsFiniteSet(S), NEW n \in 1 .. Cardinality(S)
    PROVE  Nth(S, n) \in S /\ Cardinality(UpTo(S, Nth(S, n))) = n
<1> DEFINE size == Cardinality(S)
           place == [i \in S |-> Cardinality(UpTo(S, i))]
<1>1. /\ size \in Nat /\ IsFiniteSet(1 .. size) /\ Cardinality(1 .. size) = size
  <2>1. size \in Nat
    BY FS_CardinalityType
  <2> QED  BY <2>1, FS_Interval
<1>2. place \in Injection(S, 1 .. size)
  <2>1. place \in [S -> 1 .. size]
    BY PlacesInSet
  <2>2. ASSUME NEW i \in S, NEW j \in S, place[i] = place[j] PROVE i = j
    <3>1. Cardinality(UpTo(S, i)) = Cardinality(UpTo(S, j))
      BY <2>2
    <3> QED  BY <3>1, NthIs
  <2> HIDE DEF place, size
  <2> QED  BY <2>1, <2>2 DEF Injection, IsInjective
<1>3. place \in Surjection(S, 1 .. size)
  BY <1>1, <1>2, FS_Injection
<1>4. PICK i \in S : Cardinality(UpTo(S, i)) = n
  <2>1. PICK i \in S : place[i] = n
    BY <1>3 DEF Surjection
  <2> QED  BY <2>1
<1> QED  BY <1>4, NthIs

\* Numbers moved by the same distance keep their places.
LEMMA NthMoved ==
    ASSUME NEW S \in SUBSET Int, IsFiniteSet(S), NEW d \in Int,
           NEW T, T = {i + d : i \in S}
    PROVE  /\ Cardinality(T) = Cardinality(S)
           /\ \A n \in 1 .. Cardinality(S) : Nth(T, n) = Nth(S, n) + d
<1>1. ASSUME NEW A \in SUBSET S
      PROVE  /\ IsFiniteSet({i + d : i \in A})
             /\ Cardinality({i + d : i \in A}) = Cardinality(A)
  <2> DEFINE B == {i + d : i \in A}
             move == [i \in A |-> i + d]
  <2>1. IsFiniteSet(A)
    BY FS_Subset
  <2>2. move \in Bijection(A, B)
    <3>1. move \in [A -> B] /\ \A b \in B : \E i \in A : move[i] = b
      OBVIOUS
    <3>2. ASSUME NEW i \in A, NEW j \in A, move[i] = move[j] PROVE i = j
      <4>1. i \in Int /\ j \in Int /\ i + d = j + d
        BY <3>2
      <4> QED  BY <4>1
    <3> HIDE DEF move, B
    <3> QED  BY <3>1, <3>2 DEF Bijection, Injection, IsInjective, Surjection
  <2>3. IsFiniteSet(B) /\ Cardinality(B) = Cardinality(A)
    <3> HIDE DEF move, B
    <3> QED  BY <2>1, <2>2, FS_Bijection DEF ExistsBijection
  <2> QED  BY <2>3
<1>2. T \in SUBSET Int /\ IsFiniteSet(T) /\ Cardinality(T) = Cardinality(S)
  <2>1. IsFiniteSet(T) /\ Cardinality(T) = Cardinality(S)
    <3>1. S \in SUBSET S
      OBVIOUS
    <3> QED  BY <1>1, <3>1, Zenon
  <2>2. T \in SUBSET Int
    OBVIOUS
  <2> QED  BY <2>1, <2>2
<1>3. ASSUME NEW n \in 1 .. Cardinality(S) PROVE Nth(T, n) = Nth(S, n) + d
  <2>1. PICK i \in S : i = Nth(S, n) /\ Cardinality(UpTo(S, i)) = n
    BY NthIsThere
  <2>2. UpTo(T, i + d) = {j + d : j \in UpTo(S, i)}
    <3>1. \A j \in S : j + d <= i + d <=> j <= i
      OBVIOUS
    <3> QED  BY <3>1 DEF UpTo
  <2>3. Cardinality(UpTo(T, i + d)) = n
    BY <1>1, <2>1, <2>2 DEF UpTo
  <2>4. i + d \in T
    OBVIOUS
  <2>5. Nth(T, n) = i + d
    BY <1>2, <2>3, <2>4, NthIs
  <2> QED  BY <2>1, <2>5
<1> QED  BY <1>2, <1>3

\* A number above all of a set stands at the end.
LEMMA NthAppended ==
    ASSUME NEW S \in SUBSET Int, IsFiniteSet(S), NEW m \in Int, \A i \in S : i < m,
           NEW T, T = S \cup {m}
    PROVE  /\ T \in SUBSET Int /\ IsFiniteSet(T) /\ Cardinality(T) = Cardinality(S) + 1
           /\ \A n \in 1 .. Cardinality(S) : Nth(T, n) = Nth(S, n)
           /\ Nth(T, Cardinality(S) + 1) = m
<1>1. /\ T \in SUBSET Int /\ m \notin S
      /\ IsFiniteSet(T) /\ Cardinality(T) = Cardinality(S) + 1
  BY FS_AddElement
<1>2. ASSUME NEW n \in 1 .. Cardinality(S) PROVE Nth(T, n) = Nth(S, n)
  <2>1. PICK i \in S : i = Nth(S, n) /\ Cardinality(UpTo(S, i)) = n
    BY NthIsThere
  <2>2. UpTo(T, i) = UpTo(S, i)
    BY DEF UpTo
  <2> QED  BY <1>1, <2>1, <2>2, NthIs
<1>3. Nth(T, Cardinality(S) + 1) = m
  <2>1. m \in T /\ \A j \in T : j <= m
    OBVIOUS
  <2>2. UpTo(T, m) = T
    BY <2>1 DEF UpTo
  <2> QED  BY <1>1, <2>1, <2>2, NthIs
<1> QED  BY <1>1, <1>2, <1>3
=============================================================================

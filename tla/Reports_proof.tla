---------------------------- MODULE Reports_proof ----------------------------
(***************************************************************************)
(* What the programs tell of what they saw: the session statistics, the    *)
(* judgement over a recording, and the verdict on its way out.             *)
(*                                                                         *)
(* The records the aggregator keeps are those of the decisions made, and   *)
(* its windows miss no sample.  What the offline tool calls deskewable can *)
(* be deskewed, in every recording.  The bridge never makes up a verdict   *)
(* of fields of two, a reader of the report finds the old or the new one,  *)
(* and the report never runs ahead of the topics: for any verdicts,        *)
(* losses, failures and deaths of the monitor.                             *)
(***************************************************************************)
EXTENDS MonitorOutputs, TemporalStatistics, OfflineAnalysis,
        SequenceTheorems, FiniteSetTheorems, TLAPS

Facts == INSTANCE Algorithms_proof
    WITH Retention <- 0, MaxMissingPrefix <- 0, MaxMissingSuffix <- 0, MaxInternalGap <- 0


-----------------------------------------------------------------------------
(* The elements a filter collects *)

\* The facts about places, in the words of this module.
LEMMA Places ==
    ASSUME NEW S \in SUBSET Int, IsFiniteSet(S)
    PROVE  /\ Cardinality(S) \in Nat
           /\ \A n \in 1 .. Cardinality(S) : Nth(S, n) \in S
<1>1. Facts!RetentionAssumption /\ Facts!CoverageAssumption
  BY DEF Facts!RetentionAssumption, Facts!CoverageAssumption
<1>2. Facts!IsFiniteSet(S) /\ Facts!Cardinality(S) = Cardinality(S)
  BY DEF IsFiniteSet, Facts!IsFiniteSet, Cardinality, Facts!Cardinality
<1>3. \A n : Facts!Nth(S, n) = Nth(S, n)
  BY DEF Nth, Facts!Nth, Cardinality, Facts!Cardinality
<1>4. \A n \in 1 .. Cardinality(S) : Facts!Nth(S, n) \in S
  BY <1>1, <1>2, Facts!NthIsThere
<1> QED  BY <1>3, <1>4, FS_CardinalityType

LEMMA PlacesMoved ==
    ASSUME NEW S \in SUBSET Int, IsFiniteSet(S), NEW d \in Int,
           NEW T, T = {i + d : i \in S}
    PROVE  /\ Cardinality(T) = Cardinality(S)
           /\ \A n \in 1 .. Cardinality(S) : Nth(T, n) = Nth(S, n) + d
<1>1. Facts!RetentionAssumption /\ Facts!CoverageAssumption
  BY DEF Facts!RetentionAssumption, Facts!CoverageAssumption
<1>2. /\ Facts!IsFiniteSet(S)
      /\ \A A : Facts!Cardinality(A) = Cardinality(A)
  BY DEF IsFiniteSet, Facts!IsFiniteSet, Cardinality, Facts!Cardinality
<1>3. \A A, n : Facts!Nth(A, n) = Nth(A, n)
  BY DEF Nth, Facts!Nth, Cardinality, Facts!Cardinality
<1>4. /\ Facts!Cardinality(T) = Facts!Cardinality(S)
      /\ \A n \in 1 .. Facts!Cardinality(S) : Facts!Nth(T, n) = Facts!Nth(S, n) + d
  BY <1>1, <1>2, Facts!NthMoved, ZenonT(40)
<1> QED  BY <1>2, <1>3, <1>4

IsAbove(m, S) == \A i \in S : i < m

LEMMA PlacesAppended ==
    ASSUME NEW S \in SUBSET Int, IsFiniteSet(S), NEW m \in Int, IsAbove(m, S),
           NEW T, T = S \cup {m}
    PROVE  /\ Cardinality(T) = Cardinality(S) + 1
           /\ \A n \in 1 .. Cardinality(S) : Nth(T, n) = Nth(S, n)
           /\ Nth(T, Cardinality(S) + 1) = m
<1>1. Facts!RetentionAssumption /\ Facts!CoverageAssumption
  BY DEF Facts!RetentionAssumption, Facts!CoverageAssumption
<1>2. /\ Facts!IsFiniteSet(S)
      /\ \A A : Facts!Cardinality(A) = Cardinality(A)
  BY DEF IsFiniteSet, Facts!IsFiniteSet, Cardinality, Facts!Cardinality
<1>3. \A A, n : Facts!Nth(A, n) = Nth(A, n)
  BY DEF Nth, Facts!Nth, Cardinality, Facts!Cardinality
<1>4. /\ Facts!Cardinality(T) = Facts!Cardinality(S) + 1
      /\ \A n \in 1 .. Facts!Cardinality(S) : Facts!Nth(T, n) = Facts!Nth(S, n)
      /\ Facts!Nth(T, Facts!Cardinality(S) + 1) = m
  <2>1. S \in SUBSET Int /\ m \in Int /\ (\A i \in S : i < m) /\ T = S \cup {m}
    BY DEF IsAbove
  <2> QED  BY <1>1, <1>2, <2>1, Facts!NthAppended, SMTT(60)
<1> QED  BY <1>2, <1>3, <1>4

-----------------------------------------------------------------------------
(* The cloud decisions *)

DecisionTypeOK ==
    /\ decisions \in Seq([outcome : Outcomes, reason : Reasons \cup {NoReason}])
    /\ counters \in [{"total"} \cup Outcomes -> Nat]
    /\ blockReasons \in [ReasonKeys -> Nat]

RecordsInv == DecisionTypeOK /\ RecordsMatchDecisions

LEMMA BlockedAreFinite ==
    ASSUME DecisionTypeOK
    PROVE  /\ Len(decisions) \in Nat
           /\ BlockedClouds \in SUBSET (1 .. Len(decisions)) /\ IsFiniteSet(BlockedClouds)
           /\ Cardinality(BlockedClouds) \in Nat
           /\ \A key : IsFiniteSet(BlockedFor(key)) /\ Cardinality(BlockedFor(key)) \in Nat
           /\ Blocked \in Seq(Nat) /\ Len(Blocked) = Cardinality(BlockedClouds)
<1>1. Len(decisions) \in Nat
  BY DEF DecisionTypeOK
<1>2. BlockedClouds \in SUBSET (1 .. Len(decisions)) /\ IsFiniteSet(BlockedClouds)
  <2>1. BlockedClouds \in SUBSET (1 .. Len(decisions))
    <3>1. \A i \in BlockedClouds : i \in 1 .. Len(decisions)
      BY DEF BlockedClouds
    <3> QED  BY <3>1
  <2>2. IsFiniteSet(1 .. Len(decisions))
    BY <1>1, FS_Interval
  <2>3. IsFiniteSet(BlockedClouds)
    BY <2>1, <2>2, FS_Subset
  <2> QED  BY <2>1, <2>3
<1>3. ASSUME NEW key PROVE IsFiniteSet(BlockedFor(key)) /\ Cardinality(BlockedFor(key)) \in Nat
  BY <1>2, FS_Subset, FS_CardinalityType DEF BlockedFor
<1>4. /\ Cardinality(BlockedClouds) \in Nat
      /\ \A n \in 1 .. Cardinality(BlockedClouds) : Nth(BlockedClouds, n) \in Nat
  <2>1. BlockedClouds \in SUBSET Int /\ BlockedClouds \in SUBSET Nat
    BY <1>1, <1>2
  <2> QED  BY <1>2, <2>1, Places
<1>5. Blocked \in Seq(Nat) /\ Len(Blocked) = Cardinality(BlockedClouds)
  BY <1>4 DEF Blocked
<1> QED  BY <1>1, <1>2, <1>3, <1>4, <1>5

\* What a decision adds to the blocked clouds.
LEMMA DecisionAdds ==
    ASSUME DecisionTypeOK, NEW outcome \in Outcomes, NEW reason \in Reasons \cup {NoReason},
           ObserveCloudDecision(outcome, reason), NEW n, n = Len(decisions) + 1
    PROVE  /\ DecisionTypeOK' /\ Len(decisions') = n
           /\ outcome = "forwarded" => /\ BlockedClouds' = BlockedClouds
                                       /\ \A key : BlockedFor(key)' = BlockedFor(key)
           /\ outcome # "forwarded" =>
                 /\ BlockedClouds' = BlockedClouds \cup {n}
                 /\ \A key : BlockedFor(key)' =
                        IF key = ReasonKey(reason) THEN BlockedFor(key) \cup {n}
                        ELSE BlockedFor(key)
<1> DEFINE decision == [outcome |-> outcome, reason |-> reason]
<1>1. /\ decisions' = Append(decisions, decision)
      /\ counters' = [counters EXCEPT !.total = @ + 1, ![outcome] = @ + 1]
      /\ outcome = "forwarded" => UNCHANGED blockReasons
      /\ outcome # "forwarded" =>
            blockReasons' = [blockReasons EXCEPT ![ReasonKey(reason)] = @ + 1]
  BY DEF ObserveCloudDecision
<1>2. decision \in [outcome : Outcomes, reason : Reasons \cup {NoReason}]
  OBVIOUS
<1>3. /\ decisions' \in Seq([outcome : Outcomes, reason : Reasons \cup {NoReason}])
      /\ Len(decisions') = n /\ Len(decisions) \in Nat /\ n \in Nat
      /\ \A i \in 1 .. Len(decisions) : decisions'[i] = decisions[i]
      /\ decisions'[n].outcome = outcome /\ decisions'[n].reason = reason
  <2>1. decisions \in Seq([outcome : Outcomes, reason : Reasons \cup {NoReason}])
    BY DEF DecisionTypeOK
  <2>2. decision.outcome = outcome /\ decision.reason = reason
    OBVIOUS
  <2> HIDE DEF decision
  <2> QED  BY <1>1, <1>2, <2>1, <2>2, AppendProperties
<1>4. counters' \in [{"total"} \cup Outcomes -> Nat]
  BY <1>1 DEF DecisionTypeOK
<1>5. blockReasons' \in [ReasonKeys -> Nat]
  <2>1. ReasonKey(reason) \in ReasonKeys
    BY DEF ReasonKey, ReasonKeys
  <2> QED  BY <1>1, <2>1 DEF DecisionTypeOK
<1>6. 1 .. n = (1 .. Len(decisions)) \cup {n}
  BY <1>3
<1>7. BlockedClouds' = IF outcome = "forwarded" THEN BlockedClouds ELSE BlockedClouds \cup {n}
  BY <1>3, <1>6 DEF BlockedClouds
<1>8. ASSUME NEW key
      PROVE  BlockedFor(key)' = IF outcome # "forwarded" /\ key = ReasonKey(reason)
                                THEN BlockedFor(key) \cup {n} ELSE BlockedFor(key)
  <2>1. \A i \in BlockedClouds : decisions'[i] = decisions[i] /\ i # n
    BY <1>3 DEF BlockedClouds
  <2>2. ReasonKey(decisions'[n].reason) = ReasonKey(reason)
    BY <1>3
  <2>3. BlockedFor(key)' = {i \in BlockedClouds' : ReasonKey(decisions'[i].reason) = key}
    BY DEF BlockedFor, ReasonKey
  <2> QED  BY <1>7, <2>1, <2>2, <2>3 DEF BlockedFor
<1> QED  BY <1>3, <1>4, <1>5, <1>7, <1>8 DEF DecisionTypeOK

\* The latest of a sequence that KeepRecent leaves.
Latest(B) == SubSeq(B, IF Len(B) > RecentLimit THEN Len(B) - RecentLimit + 1 ELSE 1, Len(B))

LEMMA LatestFrom ==
    ASSUME NEW B, NEW first,
           first = IF Len(B) > RecentLimit THEN Len(B) - RecentLimit + 1 ELSE 1
    PROVE  Latest(B) = SubSeq(B, first, Len(B))
BY Zenon DEF Latest

LEMMA LatestKept ==
    ASSUME NEW B \in Seq(Nat), NEW n \in Nat, NEW C, C = Append(B, n)
    PROVE  KeepRecent(Append(Latest(B), n)) = Latest(C)
<1> DEFINE limit == RecentLimit
           size == Len(B)
           kept == Latest(B)
           A == Append(kept, n)
<1>1. limit \in Nat \ {0} /\ size \in Nat
  BY AggregatorAssumption DEF RecentLimit
<1>2. /\ C \in Seq(Nat) /\ Len(C) = size + 1 /\ C[size + 1] = n
      /\ \A i \in 1 .. size : C[i] = B[i]
  BY AppendProperties
<1>3. CASE size < limit
  <2>1. kept = B
    <3>1. kept = SubSeq(B, 1, size)
      <4>1. 1 = IF Len(B) > RecentLimit THEN Len(B) - RecentLimit + 1 ELSE 1
        BY <1>1, <1>3
      <4> QED  BY <4>1, LatestFrom
    <3> QED  BY <3>1, SubSeqFull
  <2>2. Latest(C) = C
    <3>1. Latest(C) = SubSeq(C, 1, Len(C))
      <4>1. 1 = IF Len(C) > RecentLimit THEN Len(C) - RecentLimit + 1 ELSE 1
        BY <1>1, <1>2, <1>3
      <4> QED  BY <4>1, LatestFrom
    <3> QED  BY <1>2, <3>1, SubSeqFull
  <2>3. KeepRecent(C) = C
    BY <1>1, <1>2, <1>3 DEF KeepRecent
  <2> QED  BY <2>1, <2>2, <2>3
<1>4. CASE size >= limit
  <2>1. /\ kept \in Seq(Nat) /\ Len(kept) = limit
        /\ \A i \in 1 .. limit : kept[i] = B[i + (size - limit)]
    <3>1. kept = SubSeq(B, size - limit + 1, size)
      <4>1. size - limit + 1 = IF Len(B) > RecentLimit THEN Len(B) - RecentLimit + 1 ELSE 1
        BY <1>1, <1>4
      <4> QED  BY <4>1, LatestFrom
    <3>2. \A i \in 1 .. limit : i + (size - limit) \in 1 .. size
      BY <1>1, <1>4
    <3> HIDE DEF kept, limit, size
    <3>3. size - limit + 1 \in 1 .. size + 1 /\ size \in size - limit .. size
      BY <1>1, <1>4
    <3> QED  BY <1>1, <1>4, <3>1, <3>2, <3>3, SubSeqProperties, SMTT(30) DEF size
  <2>2. /\ A \in Seq(Nat) /\ Len(A) = limit + 1 /\ A[limit + 1] = n
        /\ \A i \in 1 .. limit : A[i] = kept[i]
    <3> HIDE DEF kept, limit
    <3> QED  BY <2>1, AppendProperties
  <2>3. KeepRecent(A) = SubSeq(A, 2, limit + 1)
    <3>1. Len(A) > RecentLimit /\ Len(A) - RecentLimit + 1 = 2
      <4> HIDE DEF A
      <4> QED  BY <1>1, <2>2
    <3> QED  BY <2>2, <3>1 DEF KeepRecent
  <2>4. Latest(C) = SubSeq(C, size + 1 - limit + 1, size + 1)
    <3>1. size + 1 - limit + 1
             = IF Len(C) > RecentLimit THEN Len(C) - RecentLimit + 1 ELSE 1
      BY <1>1, <1>2, <1>4
    <3>2. Latest(C) = SubSeq(C, size + 1 - limit + 1, Len(C))
      BY <3>1, LatestFrom
    <3> QED  BY <1>2, <3>2
  <2> HIDE DEF A, kept, limit, size
  <2>5. /\ Len(SubSeq(A, 2, limit + 1)) = limit
        /\ \A i \in 1 .. limit : SubSeq(A, 2, limit + 1)[i] = A[i + 1]
        /\ SubSeq(A, 2, limit + 1) \in Seq(Nat)
    BY <1>1, <2>2, SubSeqProperties, SMTT(30)
  <2>6. /\ Len(SubSeq(C, size + 1 - limit + 1, size + 1)) = limit
        /\ \A i \in 1 .. limit :
              SubSeq(C, size + 1 - limit + 1, size + 1)[i] = C[i + (size + 1 - limit)]
        /\ SubSeq(C, size + 1 - limit + 1, size + 1) \in Seq(Nat)
    BY <1>1, <1>2, <1>4, SubSeqProperties, SMTT(30)
  <2>7. ASSUME NEW i \in 1 .. limit PROVE A[i + 1] = C[i + (size + 1 - limit)]
    <3>1. CASE i = limit
      <4>1. i + 1 = limit + 1 /\ i + (size + 1 - limit) = size + 1
        BY <1>1, <3>1
      <4> QED  BY <1>2, <2>2, <4>1 DEF size
    <3>2. CASE i # limit
      <4>1. /\ i + 1 \in 1 .. limit /\ i + 1 + (size - limit) = i + (size + 1 - limit)
            /\ i + (size + 1 - limit) \in 1 .. size
        BY <1>1, <1>4, <3>2
      <4>2. A[i + 1] = B[i + 1 + (size - limit)]
        BY <2>1, <2>2, <4>1
      <4> QED  BY <1>2, <4>1, <4>2
    <3> QED  BY <3>1, <3>2
  <2>8. SubSeq(A, 2, limit + 1) = SubSeq(C, size + 1 - limit + 1, size + 1)
    <3> DEFINE left == SubSeq(A, 2, limit + 1)
               right == SubSeq(C, size + 1 - limit + 1, size + 1)
    <3>1. /\ left \in Seq(Nat) /\ right \in Seq(Nat)
          /\ Len(left) = limit /\ Len(right) = limit
      BY <2>5, <2>6
    <3>2. \A i \in 1 .. limit : left[i] = right[i]
      BY <2>5, <2>6, <2>7
    <3> HIDE DEF left, right
    <3>3. left = right
      BY <3>1, <3>2, SeqEqual
    <3> QED  BY <3>3 DEF left, right
  <2> QED  BY <2>3, <2>4, <2>8 DEF A, kept
<1> QED  BY <1>1, <1>3, <1>4

\* The elements of a set in their order.
ListOf(S) == [n \in 1 .. Cardinality(S) |-> Nth(S, n)]

LEMMA ListAppended ==
    ASSUME NEW S \in SUBSET Nat, IsFiniteSet(S), NEW m \in Nat, IsAbove(m, S),
           NEW T, T = S \cup {m}
    PROVE  /\ Cardinality(T) = Cardinality(S) + 1
           /\ ListOf(T) = Append(ListOf(S), m)
<1> DEFINE size == Cardinality(S)
           list == [n \in 1 .. size |-> Nth(S, n)]
           longer == [n \in 1 .. size + 1 |-> Nth(T, n)]
<1>1. /\ Cardinality(T) = size + 1
      /\ \A n \in 1 .. size : Nth(T, n) = Nth(S, n)
      /\ Nth(T, size + 1) = m
  BY PlacesAppended
<1>2. size \in Nat /\ \A n \in 1 .. size : Nth(S, n) \in Nat
  <2>1. S \in SUBSET Int
    OBVIOUS
  <2>2. Cardinality(S) \in Nat /\ \A n \in 1 .. Cardinality(S) : Nth(S, n) \in S
    BY <2>1, Places
  <2> QED  BY <2>2
<1>3. list \in Seq(Nat) /\ Len(list) = size
  BY <1>2
<1>4. longer \in Seq(Nat) /\ Len(longer) = size + 1
  <2>1. \A n \in 1 .. size + 1 : n \in 1 .. size \/ n = size + 1
    BY <1>2
  <2>2. \A n \in 1 .. size + 1 : Nth(T, n) \in Nat
    BY <1>1, <1>2, <2>1
  <2> DEFINE k == size + 1
  <2>3. k \in Nat
    BY <1>2
  <2>4. \A n \in 1 .. k : Nth(T, n) \in Nat
    BY <2>2
  <2>5. longer \in [1 .. k -> Nat]
    BY <2>4
  <2> HIDE DEF k, longer
  <2>6. longer \in Seq(Nat) /\ Len(longer) = k
    BY <2>3, <2>5
  <2> QED  BY <2>6 DEF k
<1>5. /\ Append(list, m) \in Seq(Nat) /\ Len(Append(list, m)) = size + 1
      /\ \A n \in 1 .. size : Append(list, m)[n] = list[n]
      /\ Append(list, m)[size + 1] = m
  <2> HIDE DEF list, size
  <2> QED  BY <1>3, AppendProperties
<1>6. ASSUME NEW n \in 1 .. size + 1 PROVE longer[n] = Append(list, m)[n]
  <2>1. longer[n] = Nth(T, n)
    OBVIOUS
  <2>2. CASE n = size + 1
    BY <1>1, <1>5, <2>1, <2>2
  <2>3. CASE n # size + 1
    <3>1. n \in 1 .. size
      BY <1>2, <2>3
    <3>2. list[n] = Nth(S, n)
      BY <3>1
    <3> QED  BY <1>1, <1>5, <2>1, <3>1, <3>2
  <2> QED  BY <2>2, <2>3
<1>7. longer = Append(list, m)
  <2> DEFINE appended == Append(list, m)
  <2> HIDE DEF longer, list, size, appended
  <2>1. /\ longer \in Seq(Nat) /\ appended \in Seq(Nat)
        /\ Len(longer) = Len(appended) /\ Len(longer) = size + 1
        /\ \A n \in 1 .. size + 1 : longer[n] = appended[n]
    BY <1>4, <1>5, <1>6 DEF appended
  <2>2. longer = appended
    BY <2>1, SeqEqual
  <2> QED  BY <2>2 DEF appended
<1> QED  BY <1>1, <1>7 DEF ListOf

LEMMA StatisticsInitRecords ==
    ASSUME StatisticsInit
    PROVE  RecordsInv
<1>1. DecisionTypeOK
  BY DEF StatisticsInit, DecisionTypeOK
<1>2. Len(decisions) = 0 /\ BlockedClouds = {} /\ \A key : BlockedFor(key) = {}
  <2>1. Len(decisions) = 0
    BY DEF StatisticsInit
  <2> QED  BY <2>1 DEF BlockedClouds, BlockedFor
<1>3. Cardinality(BlockedClouds) = 0 /\ \A key : Cardinality(BlockedFor(key)) = 0
  BY <1>2, FS_EmptySet
<1>4. Blocked = <<>>
  BY <1>3 DEF Blocked
<1>5. recent = Latest(Blocked)
  <2>1. Latest(<<>>) = SubSeq(<<>>, 1, 0)
    <3>1. 1 = IF Len(<<>>) > RecentLimit THEN Len(<<>>) - RecentLimit + 1 ELSE 1
      BY AggregatorAssumption DEF RecentLimit
    <3> QED  BY <3>1, LatestFrom
  <2>2. recent = <<>>
    BY DEF StatisticsInit
  <2> QED  BY <1>4, <2>1, <2>2
<1>6. RecentAreTheLatestBlocked
  BY <1>5, Zenon DEF RecentAreTheLatestBlocked, Latest
<1>7. /\ counters.total = 0
      /\ counters["forwarded"] = 0 /\ counters["blocked_warmup"] = 0
      /\ counters["blocked_by_gate"] = 0
      /\ \A key \in ReasonKeys : blockReasons[key] = 0
  BY DEF StatisticsInit, Outcomes
<1> QED  BY <1>1, <1>2, <1>3, <1>4, <1>6, <1>7 DEF RecordsInv, RecordsMatchDecisions

\* What a decision changes, counter by counter.
LEMMA DecisionCounts ==
    ASSUME DecisionTypeOK, NEW outcome \in Outcomes, NEW reason \in Reasons \cup {NoReason},
           ObserveCloudDecision(outcome, reason)
    PROVE  /\ counters'.total = counters.total + 1
           /\ \A o \in Outcomes : counters'[o] = counters[o] + (IF o = outcome THEN 1 ELSE 0)
           /\ outcome = "forwarded" => blockReasons' = blockReasons /\ recent' = recent
           /\ outcome # "forwarded" =>
                 \A key \in ReasonKeys : blockReasons'[key] =
                     blockReasons[key] + (IF key = ReasonKey(reason) THEN 1 ELSE 0)
           /\ outcome # "forwarded" => recent' = KeepRecent(Append(recent, Len(decisions')))
<1>1. /\ counters' = [counters EXCEPT !.total = @ + 1, ![outcome] = @ + 1]
      /\ outcome # "forwarded" =>
            blockReasons' = [blockReasons EXCEPT ![ReasonKey(reason)] = @ + 1]
      /\ outcome = "forwarded" => blockReasons' = blockReasons /\ recent' = recent
      /\ outcome # "forwarded" => recent' = KeepRecent(Append(recent, Len(decisions')))
  BY DEF ObserveCloudDecision
<1>2. ReasonKey(reason) \in ReasonKeys
  BY DEF ReasonKey, ReasonKeys
<1>3. "total" \notin Outcomes
  BY DEF Outcomes
<1>4. counters \in [{"total"} \cup Outcomes -> Nat] /\ blockReasons \in [ReasonKeys -> Nat]
  BY DEF DecisionTypeOK
<1>5. counters'.total = counters.total + 1
  BY <1>1, <1>3, <1>4
<1>6. ASSUME NEW o \in Outcomes
      PROVE  counters'[o] = counters[o] + (IF o = outcome THEN 1 ELSE 0)
  BY <1>1, <1>3, <1>4
<1>7. ASSUME NEW key \in ReasonKeys, outcome # "forwarded"
      PROVE  blockReasons'[key] = blockReasons[key] + (IF key = ReasonKey(reason) THEN 1 ELSE 0)
  BY <1>1, <1>2, <1>4, <1>7
<1> QED  BY <1>1, <1>5, <1>6, <1>7

LEMMA DecisionKeepsRecords ==
    ASSUME RecordsInv, NEW outcome \in Outcomes, NEW reason \in Reasons \cup {NoReason},
           ObserveCloudDecision(outcome, reason)
    PROVE  RecordsInv'
<1>1. PICK n : n = Len(decisions) + 1
  OBVIOUS
<1>2. /\ DecisionTypeOK
      /\ counters.total = Len(decisions)
      /\ counters.total = counters["forwarded"] + counters["blocked_warmup"]
                            + counters["blocked_by_gate"]
      /\ Len(Blocked) = counters["blocked_warmup"] + counters["blocked_by_gate"]
      /\ \A key \in ReasonKeys : blockReasons[key] = Cardinality(BlockedFor(key))
      /\ RecentAreTheLatestBlocked
  BY DEF RecordsInv, RecordsMatchDecisions
<1>3. /\ Len(decisions) \in Nat /\ n \in Nat
      /\ BlockedClouds \in SUBSET (1 .. Len(decisions)) /\ IsFiniteSet(BlockedClouds)
      /\ Cardinality(BlockedClouds) \in Nat
      /\ \A key : IsFiniteSet(BlockedFor(key)) /\ Cardinality(BlockedFor(key)) \in Nat
      /\ Blocked \in Seq(Nat) /\ Len(Blocked) = Cardinality(BlockedClouds)
  BY <1>1, <1>2, BlockedAreFinite
<1>4. /\ DecisionTypeOK' /\ Len(decisions') = n
      /\ outcome = "forwarded" => /\ BlockedClouds' = BlockedClouds
                                  /\ \A key : BlockedFor(key)' = BlockedFor(key)
      /\ outcome # "forwarded" =>
            /\ BlockedClouds' = BlockedClouds \cup {n}
            /\ \A key : BlockedFor(key)' =
                   IF key = ReasonKey(reason) THEN BlockedFor(key) \cup {n} ELSE BlockedFor(key)
  BY <1>1, <1>2, DecisionAdds
<1>5. /\ counters'.total = counters.total + 1
      /\ \A o \in Outcomes : counters'[o] = counters[o] + (IF o = outcome THEN 1 ELSE 0)
      /\ outcome = "forwarded" => blockReasons' = blockReasons /\ recent' = recent
      /\ outcome # "forwarded" =>
            \A key \in ReasonKeys : blockReasons'[key] =
                blockReasons[key] + (IF key = ReasonKey(reason) THEN 1 ELSE 0)
      /\ outcome # "forwarded" => recent' = KeepRecent(Append(recent, Len(decisions')))
  BY <1>2, DecisionCounts
<1>6. \A i \in BlockedClouds : i \in Nat /\ i < n
  BY <1>1, <1>3
<1>7. Blocked' = IF outcome = "forwarded" THEN Blocked ELSE Append(Blocked, n)
  <2>1. CASE outcome = "forwarded"
    <3>1. BlockedClouds' = BlockedClouds
      BY <1>4, <2>1
    <3> QED  BY <2>1, <3>1 DEF Blocked
  <2>2. CASE outcome # "forwarded"
    <3>1. BlockedClouds' = BlockedClouds \cup {n}
      BY <1>4, <2>2
    <3>2. BlockedClouds \in SUBSET Nat
      BY <1>6
    <3>3. ListOf(BlockedClouds') = Append(ListOf(BlockedClouds), n)
      <4>1. PICK T : T = BlockedClouds'
        OBVIOUS
      <4>2. T = BlockedClouds \cup {n} /\ IsAbove(n, BlockedClouds) /\ n \in Nat
        BY <1>3, <1>6, <3>1, <4>1 DEF IsAbove
      <4>3. BlockedClouds \in SUBSET Nat /\ IsFiniteSet(BlockedClouds)
        BY <1>3, <3>2
      <4>4. ListOf(T) = Append(ListOf(BlockedClouds), n)
        BY <4>2, <4>3, ListAppended
      <4> QED  BY <4>1, <4>4
    <3>4. Blocked = ListOf(BlockedClouds) /\ Blocked' = ListOf(BlockedClouds')
      BY DEF Blocked, ListOf
    <3> QED  BY <2>2, <3>3, <3>4
  <2> QED  BY <2>1, <2>2
<1>8. counters'.total = Len(decisions')
  BY <1>1, <1>2, <1>4, <1>5
<1>9. /\ counters'.total = counters'["forwarded"] + counters'["blocked_warmup"]
                             + counters'["blocked_by_gate"]
      /\ Len(Blocked') = counters'["blocked_warmup"] + counters'["blocked_by_gate"]
  <2>1. /\ counters["forwarded"] \in Nat /\ counters["blocked_warmup"] \in Nat
        /\ counters["blocked_by_gate"] \in Nat
    BY <1>2 DEF DecisionTypeOK, Outcomes
  <2>2. outcome \in {"forwarded", "blocked_warmup", "blocked_by_gate"}
    BY DEF Outcomes
  <2>3. Len(Blocked') = Len(Blocked) + (IF outcome = "forwarded" THEN 0 ELSE 1)
    <3>1. Len(Append(Blocked, n)) = Len(Blocked) + 1
      BY <1>3, AppendProperties
    <3> QED  BY <1>3, <1>7, <3>1
  <2>4. \A o \in {"forwarded", "blocked_warmup", "blocked_by_gate"} :
           counters'[o] = counters[o] + (IF o = outcome THEN 1 ELSE 0)
    BY <1>5 DEF Outcomes
  <2>5. /\ counters'["forwarded"] = counters["forwarded"] + (IF "forwarded" = outcome THEN 1 ELSE 0)
        /\ counters'["blocked_warmup"]
              = counters["blocked_warmup"] + (IF "blocked_warmup" = outcome THEN 1 ELSE 0)
        /\ counters'["blocked_by_gate"]
              = counters["blocked_by_gate"] + (IF "blocked_by_gate" = outcome THEN 1 ELSE 0)
    BY <2>4
  <2>6. /\ counters'.total = counters.total + 1
        /\ counters.total = counters["forwarded"] + counters["blocked_warmup"]
                              + counters["blocked_by_gate"]
        /\ Len(Blocked) = counters["blocked_warmup"] + counters["blocked_by_gate"]
    BY <1>2, <1>5
  <2>7. CASE outcome = "forwarded"
    <3>1. /\ counters'["forwarded"] = counters["forwarded"] + 1
          /\ counters'["blocked_warmup"] = counters["blocked_warmup"] + 0
          /\ counters'["blocked_by_gate"] = counters["blocked_by_gate"] + 0
          /\ Len(Blocked') = Len(Blocked) + 0
      BY <2>3, <2>5, <2>7
    <3>2. counters'.total = counters'["forwarded"] + counters'["blocked_warmup"]
                              + counters'["blocked_by_gate"]
      BY <2>1, <2>6, <3>1, SMTT(30)
    <3>3. Len(Blocked') = counters'["blocked_warmup"] + counters'["blocked_by_gate"]
      BY <2>1, <2>6, <3>1
    <3> QED  BY <3>2, <3>3
  <2>8. CASE outcome = "blocked_warmup"
    <3>1. /\ counters'["forwarded"] = counters["forwarded"] + 0
          /\ counters'["blocked_warmup"] = counters["blocked_warmup"] + 1
          /\ counters'["blocked_by_gate"] = counters["blocked_by_gate"] + 0
          /\ Len(Blocked') = Len(Blocked) + 1
      BY <2>3, <2>5, <2>8
    <3>2. counters'.total = counters'["forwarded"] + counters'["blocked_warmup"]
                              + counters'["blocked_by_gate"]
      BY <2>1, <2>6, <3>1, SMTT(30)
    <3>3. Len(Blocked') = counters'["blocked_warmup"] + counters'["blocked_by_gate"]
      BY <2>1, <2>6, <3>1
    <3> QED  BY <3>2, <3>3
  <2>9. CASE outcome = "blocked_by_gate"
    <3>1. /\ counters'["forwarded"] = counters["forwarded"] + 0
          /\ counters'["blocked_warmup"] = counters["blocked_warmup"] + 0
          /\ counters'["blocked_by_gate"] = counters["blocked_by_gate"] + 1
          /\ Len(Blocked') = Len(Blocked) + 1
      BY <2>3, <2>5, <2>9
    <3>2. counters'.total = counters'["forwarded"] + counters'["blocked_warmup"]
                              + counters'["blocked_by_gate"]
      BY <2>1, <2>6, <3>1, SMTT(30)
    <3>3. Len(Blocked') = counters'["blocked_warmup"] + counters'["blocked_by_gate"]
      BY <2>1, <2>6, <3>1, SMTT(30)
    <3> QED  BY <3>2, <3>3
  <2> QED  BY <2>2, <2>7, <2>8, <2>9
<1>10. ASSUME NEW key \in ReasonKeys PROVE blockReasons'[key] = Cardinality(BlockedFor(key)')
  <2>1. CASE outcome = "forwarded"
    BY <1>2, <1>4, <1>5, <2>1
  <2>2. CASE outcome # "forwarded"
    <3>1. n \notin BlockedFor(key)
      BY <1>1, <1>3, <1>6 DEF BlockedFor
    <3>2. IsFiniteSet(BlockedFor(key)) /\ Cardinality(BlockedFor(key)) \in Nat
      BY <1>3
    <3>3. Cardinality(BlockedFor(key) \cup {n}) = Cardinality(BlockedFor(key)) + 1
      BY <3>1, <3>2, FS_AddElement
    <3>4. /\ blockReasons'[key] = Cardinality(BlockedFor(key))
                                    + (IF key = ReasonKey(reason) THEN 1 ELSE 0)
          /\ BlockedFor(key)' =
                IF key = ReasonKey(reason) THEN BlockedFor(key) \cup {n} ELSE BlockedFor(key)
      BY <1>2, <1>4, <1>5, <2>2
    <3>5. CASE key = ReasonKey(reason)
      BY <3>3, <3>4, <3>5
    <3>6. CASE key # ReasonKey(reason)
      BY <3>2, <3>4, <3>6
    <3> QED  BY <3>5, <3>6
  <2> QED  BY <2>1, <2>2
<1>11. RecentAreTheLatestBlocked'
  <2>1. recent = Latest(Blocked)
    BY <1>2, Zenon DEF RecentAreTheLatestBlocked, Latest
  <2>2. recent' = Latest(Blocked')
    <3>1. CASE outcome = "forwarded"
      BY <1>5, <1>7, <2>1, <3>1
    <3>2. CASE outcome # "forwarded"
      <4>1. recent' = KeepRecent(Append(Latest(Blocked), n)) /\ Blocked' = Append(Blocked, n)
        BY <1>4, <1>5, <1>7, <2>1, <3>2
      <4> QED  BY <1>3, <4>1, LatestKept
    <3> QED  BY <3>1, <3>2
  <2> QED  BY <2>2, Zenon DEF RecentAreTheLatestBlocked, Latest
<1> QED  BY <1>4, <1>8, <1>9, <1>10, <1>11 DEF RecordsInv, RecordsMatchDecisions

LEMMA StatisticsKeepsRecords ==
    ASSUME RecordsInv, [StatisticsNext]_statisticsVars
    PROVE  RecordsInv'
<1>1. CASE \E outcome \in Outcomes, reason \in Reasons \cup {NoReason} :
              ObserveCloudDecision(outcome, reason)
  BY <1>1, DecisionKeepsRecords
<1>2. CASE UNCHANGED <<counters, blockReasons, recent, decisions>>
  BY <1>2 DEF RecordsInv, DecisionTypeOK, RecordsMatchDecisions, RecentAreTheLatestBlocked,
              Blocked, BlockedClouds, BlockedFor
<1>3. \/ UNCHANGED <<counters, blockReasons, recent, decisions>>
      \/ \E outcome \in Outcomes, reason \in Reasons \cup {NoReason} :
            ObserveCloudDecision(outcome, reason)
  BY DEF StatisticsNext, statisticsVars, ObserveAndSnapshot
<1> QED  BY <1>1, <1>2, <1>3

\* What the aggregator keeps of the decisions agrees with all of them, whatever
\* the number of decisions and the limit on recent events.
THEOREM StatisticsKeepRecords == StatisticsSpec => []RecordsMatchDecisions
<1>1. RecordsInv => RecordsMatchDecisions
  BY DEF RecordsInv
<1> QED  BY <1>1, StatisticsInitRecords, StatisticsKeepsRecords, PTL DEF StatisticsSpec
-----------------------------------------------------------------------------
(* The windows *)

Samples == [at : ClockStamps, status : {o.status : o \in Observations},
            coverage : {o.coverage : o \in Observations}]

\* What is left of a sequence when its first d elements are dropped.
IsRest(r, s, d) ==
    /\ d \in 0 .. Len(s) /\ Len(r) = Len(s) - d
    /\ \A i \in 1 .. Len(r) : r[i] = s[i + d]

\* A sequence with one more element at its end.
Extends(longer, s, e) ==
    /\ Len(longer) = Len(s) + 1
    /\ \A i \in 1 .. Len(s) : longer[i] = s[i]
    /\ longer[Len(s) + 1] = e

LEMMA WidthsAreNumbers ==
    /\ WiderWindow \in Nat
    /\ AtLeastZero(ShortWindow) \in Nat /\ AtLeastZero(ShortWindow) <= WiderWindow
    /\ AtLeastZero(MediumWindow) \in Nat /\ AtLeastZero(MediumWindow) <= WiderWindow
BY AggregatorAssumption DEF WiderWindow, AtLeastZero

LEMMA StampsOfSamples ==
    ASSUME NEW s \in Seq(Samples), NEW i \in 1 .. Len(s)
    PROVE  s[i].at \in Int
<1>1. s[i] \in Samples
  OBVIOUS
<1> QED  BY <1>1, AggregatorAssumption DEF Samples

\* Pruning drops samples that are too old, and only from the front.
LEMMA PruningDropsOld ==
    ASSUME NEW s \in Seq(Samples), NEW now \in Int
    PROVE  /\ PruneRollingSamples(s, now) \in Seq(Samples)
           /\ \E d \in 0 .. Len(s) :
                 /\ IsRest(PruneRollingSamples(s, now), s, d)
                 /\ \A i \in 1 .. d : s[i].at < now - WiderWindow
<1> DEFINE size == Len(s)
           stays(i) == s[i].at >= now - WiderWindow
           ends(n) == /\ n \in 1 .. size => stays(n)
                      /\ \A i \in 1 .. n - 1 : ~stays(i)
           first == CHOOSE n \in 1 .. size + 1 : ends(n)
<1>1. size \in Nat
  OBVIOUS
<1>2. \E n \in 1 .. size + 1 : ends(n)
  <2> DEFINE enough == {n \in 1 .. size + 1 : n \in 1 .. size => stays(n)}
  <2>1. size + 1 \in enough /\ enough \in SUBSET Nat
    BY <1>1
  <2>2. PICK n \in enough : \A m \in enough : n <= m
    <3>1. Facts!RetentionAssumption /\ Facts!CoverageAssumption
      BY DEF Facts!RetentionAssumption, Facts!CoverageAssumption
    <3>2. enough # {}
      BY <2>1
    <3> HIDE DEF enough
    <3> QED  BY <2>1, <3>1, <3>2, Facts!SmallestNumber
  <2>3. ASSUME NEW i \in 1 .. n - 1 PROVE ~stays(i)
    <3>1. n \in 1 .. size + 1
      OBVIOUS
    <3>2. i \in 1 .. size /\ i \in 1 .. size + 1 /\ ~(n <= i)
      BY <1>1, <3>1
    <3>3. i \notin enough
      BY <2>2, <3>2
    <3> HIDE DEF stays
    <3> QED  BY <3>2, <3>3
  <2>4. n \in 1 .. size + 1 /\ (n \in 1 .. size => stays(n))
    OBVIOUS
  <2> QED  BY <2>3, <2>4
<1>3. first \in 1 .. size + 1 /\ ends(first)
  <2> HIDE DEF ends
  <2> QED  BY <1>2
<1>4. PruneRollingSamples(s, now) = SubSeq(s, first, size)
  BY DEF PruneRollingSamples
<1>5. \A i \in 1 .. first - 1 : s[i].at < now - WiderWindow
  <2> SUFFICES ASSUME NEW i \in 1 .. first - 1 PROVE s[i].at < now - WiderWindow
    OBVIOUS
  <2>1. ~stays(i)
    BY <1>3
  <2>2. s[i].at \in Int
    <3> HIDE DEF first
    <3>1. i \in 1 .. Len(s)
      BY <1>1, <1>3
    <3> QED  BY <3>1, StampsOfSamples
  <2> QED  BY <2>1, <2>2, WidthsAreNumbers
<1> HIDE DEF first
<1>6. /\ first \in Int /\ size \in Int /\ \A i \in first .. size : s[i] \in Samples
      /\ first - 1 \in 0 .. size
  BY <1>1, <1>3
<1>7. SubSeq(s, first, size) \in Seq(Samples) /\ IsRest(SubSeq(s, first, size), s, first - 1)
  <2>1. /\ SubSeq(s, first, size) \in Seq(Samples)
        /\ Len(SubSeq(s, first, size)) = IF first <= size THEN size - first + 1 ELSE 0
        /\ \A i \in 1 .. size - first + 1 : SubSeq(s, first, size)[i] = s[first + i - 1]
    BY <1>6, SubSeqProperties
  <2>2. Len(SubSeq(s, first, size)) = size - first + 1
    BY <1>1, <1>3, <2>1
  <2>3. \A i \in 1 .. size - first + 1 : first + i - 1 = i + (first - 1)
    BY <1>6
  <2>4. size - first + 1 = size - (first - 1)
    BY <1>6
  <2> QED  BY <1>6, <2>1, <2>2, <2>3, <2>4 DEF IsRest
<1> QED  BY <1>4, <1>5, <1>6, <1>7

\* Samples that are too old for a window can be dropped before it is taken.
LEMMA SinceIgnoresOld ==
    ASSUME NEW s \in Seq(Samples), NEW r \in Seq(Samples), NEW d, IsRest(r, s, d),
           NEW cutoff \in Int, \A i \in 1 .. d : s[i].at < cutoff
    PROVE  SamplesSince(r, cutoff) = SamplesSince(s, cutoff)
<1> DEFINE P == {i \in DOMAIN r : r[i].at >= cutoff}
           Q == {i \in DOMAIN s : s[i].at >= cutoff}
<1>1. /\ d \in Nat /\ Len(s) \in Nat /\ Len(r) \in Nat /\ d <= Len(s) /\ Len(r) = Len(s) - d
      /\ \A i \in 1 .. Len(r) : r[i] = s[i + d]
      /\ DOMAIN r = 1 .. Len(r) /\ DOMAIN s = 1 .. Len(s)
  BY DEF IsRest
<1>2. P \in SUBSET (1 .. Len(r)) /\ P \in SUBSET Int /\ IsFiniteSet(P)
  <2>1. P \in SUBSET (1 .. Len(r))
    BY <1>1
  <2>2. IsFiniteSet(1 .. Len(r)) /\ 1 .. Len(r) \in SUBSET Int
    BY <1>1, FS_Interval
  <2> HIDE DEF P
  <2>3. P \in SUBSET Int /\ IsFiniteSet(P)
    BY <2>1, <2>2, FS_Subset
  <2> QED  BY <2>1, <2>3
<1>3. Q = {i + d : i \in P}
  <2>1. ASSUME NEW i \in P PROVE i + d \in Q
    <3>1. i \in 1 .. Len(r) /\ r[i].at >= cutoff
      BY <1>1
    <3>2. i + d \in 1 .. Len(s) /\ s[i + d] = r[i]
      BY <1>1, <3>1
    <3> QED  BY <1>1, <3>1, <3>2
  <2>2. ASSUME NEW j \in Q PROVE j - d \in P /\ j = (j - d) + d
    <3>1. j \in 1 .. Len(s) /\ s[j].at >= cutoff /\ s[j].at \in Int
      BY <1>1, StampsOfSamples
    <3>2. ~(j \in 1 .. d)
      BY <3>1
    <3>3. j - d \in 1 .. Len(r) /\ j = (j - d) + d
      BY <1>1, <3>1, <3>2
    <3>4. r[j - d] = s[j]
      BY <1>1, <3>3
    <3> QED  BY <1>1, <3>1, <3>3, <3>4
  <2> HIDE DEF P, Q
  <2>3. \A j : j \in Q <=> j \in {i + d : i \in P}
    BY <2>1, <2>2
  <2> QED  BY <2>3
<1>4. /\ Cardinality(Q) = Cardinality(P)
      /\ \A n \in 1 .. Cardinality(P) : Nth(Q, n) = Nth(P, n) + d
      /\ \A n \in 1 .. Cardinality(P) : Nth(P, n) \in P
  <2> HIDE DEF P, Q
  <2>1. P \in SUBSET Int /\ IsFiniteSet(P) /\ d \in Int
    BY <1>1, <1>2
  <2>2. \A n \in 1 .. Cardinality(P) : Nth(P, n) \in P
    BY <2>1, Places
  <2>3. /\ Cardinality(Q) = Cardinality(P)
        /\ \A n \in 1 .. Cardinality(P) : Nth(Q, n) = Nth(P, n) + d
    BY <2>1, <1>3, PlacesMoved, ZenonT(60)
  <2> QED  BY <2>2, <2>3
<1>5. \A n \in 1 .. Cardinality(P) : r[Nth(P, n)] = s[Nth(Q, n)]
  <2> HIDE DEF P, Q
  <2> QED  BY <1>1, <1>2, <1>4
<1>6. SamplesSince(r, cutoff) = Selected(r, P) /\ SamplesSince(s, cutoff) = Selected(s, Q)
  BY DEF SamplesSince
<1>7. Selected(r, P) = Selected(s, Q)
  <2> HIDE DEF P, Q
  <2> QED  BY <1>4, <1>5, Zenon DEF Selected
<1> QED  BY <1>6, <1>7

\* The rolling samples are the latest of the session, and only samples too old
\* for every window are missing, as long as the clock never went back.
RollingIsComplete ==
    ClockNeverWentBack =>
        \E d \in 0 .. Len(session) :
            /\ IsRest(rolling, session, d)
            /\ \A i \in 1 .. d : session[i].at < session[Len(session)].at - WiderWindow

WindowsInv ==
    /\ session \in Seq(Samples) /\ rolling \in Seq(Samples)
    /\ RollingIsComplete
    /\ WindowsAreComplete

LEMMA StatisticsInitWindows ==
    ASSUME StatisticsInit
    PROVE  WindowsInv
<1>1. session = <<>> /\ rolling = <<>>
  BY DEF StatisticsInit
<1>2. session \in Seq(Samples) /\ rolling \in Seq(Samples) /\ Len(session) = 0
  BY <1>1
<1>3. IsRest(rolling, session, 0)
  BY <1>1, <1>2 DEF IsRest
<1>4. RollingIsComplete
  <2>1. \A i \in 1 .. 0 : session[i].at < session[Len(session)].at - WiderWindow
    OBVIOUS
  <2> QED  BY <1>2, <1>3, <2>1 DEF RollingIsComplete
<1> QED  BY <1>1, <1>2, <1>4 DEF WindowsInv, WindowsAreComplete

\* One round of the timer.
LEMMA TimerKeepsRest ==
    ASSUME NEW s \in Seq(Samples), NEW r \in Seq(Samples), NEW sample \in Samples,
           NEW d, IsRest(r, s, d),
           NEW longer, Extends(longer, s, sample), NEW more, Extends(more, r, sample),
           NEW k, NEW q, IsRest(q, more, k)
    PROVE  /\ d + k \in Nat
           /\ IsRest(q, longer, d + k)
           /\ \A i \in 1 .. k : more[i] = longer[i + d]
<1>1. /\ Len(s) \in Nat /\ Len(r) \in Nat /\ d \in Nat /\ Len(r) = Len(s) - d
      /\ \A i \in 1 .. Len(r) : r[i] = s[i + d]
  BY DEF IsRest
<1>2. /\ Len(longer) = Len(s) + 1
      /\ \A i \in 1 .. Len(s) : longer[i] = s[i]
      /\ longer[Len(s) + 1] = sample
  BY DEF Extends
<1>3. /\ Len(more) = Len(r) + 1
      /\ \A i \in 1 .. Len(r) : more[i] = r[i]
      /\ more[Len(r) + 1] = sample
  BY DEF Extends
<1>4. /\ k \in Nat /\ k <= Len(more) /\ Len(q) = Len(more) - k
      /\ \A i \in 1 .. Len(q) : q[i] = more[i + k]
  BY <1>3 DEF IsRest
<1>5. ASSUME NEW i \in 1 .. Len(more) PROVE more[i] = longer[i + d]
  <2>1. CASE i = Len(r) + 1
    <3>1. i + d = Len(s) + 1
      BY <1>1, <2>1
    <3> QED  BY <1>2, <1>3, <2>1, <3>1
  <2>2. CASE i # Len(r) + 1
    <3>1. i \in 1 .. Len(r) /\ i + d \in 1 .. Len(s)
      BY <1>1, <1>3, <2>2
    <3> QED  BY <1>1, <1>2, <1>3, <3>1
  <2> QED  BY <2>1, <2>2
<1>6. \A i \in 1 .. Len(q) : q[i] = longer[i + (d + k)]
  <2> SUFFICES ASSUME NEW i \in 1 .. Len(q) PROVE q[i] = longer[i + (d + k)]
    OBVIOUS
  <2>1. i + k \in 1 .. Len(more) /\ i + k + d = i + (d + k)
    BY <1>1, <1>3, <1>4
  <2> QED  BY <1>4, <1>5, <2>1
<1>7. d + k \in 0 .. Len(longer) /\ Len(q) = Len(longer) - (d + k)
  BY <1>1, <1>2, <1>3, <1>4
<1>8. \A i \in 1 .. k : more[i] = longer[i + d]
  BY <1>3, <1>4, <1>5, <1>1
<1>9. IsRest(q, longer, d + k)
  BY <1>6, <1>7, Zenon DEF IsRest
<1>10. d + k \in Nat
  BY <1>1, <1>4
<1> QED  BY <1>8, <1>9, <1>10

LEMMA TimerKeepsWindows ==
    ASSUME WindowsInv, NEW now \in ClockStamps, NEW observation \in Observations,
           ObserveAndSnapshot(now, observation)
    PROVE  WindowsInv'
<1> DEFINE sample == [at |-> now, status |-> observation.status,
                      coverage |-> observation.coverage]
           size == Len(session)
           more == Append(rolling, sample)
<1>1. sample \in Samples /\ sample.at = now /\ now \in Int
  BY AggregatorAssumption DEF Samples
<1>2. /\ session' = Append(session, sample)
      /\ rolling' = PruneRollingSamples(more, now)
      /\ snapshot'.short = WindowStatistics(SamplesSince(rolling', now - AtLeastZero(ShortWindow)))
      /\ snapshot'.medium = WindowStatistics(SamplesSince(rolling', now - AtLeastZero(MediumWindow)))
  BY DEF ObserveAndSnapshot
<1> HIDE DEF sample
<1>3. session \in Seq(Samples) /\ rolling \in Seq(Samples) /\ RollingIsComplete /\ size \in Nat
  BY DEF WindowsInv
<1>4. /\ session' \in Seq(Samples) /\ Len(session') = size + 1
      /\ \A i \in 1 .. size : session'[i] = session[i]
      /\ session'[size + 1] = sample /\ Extends(session', session, sample)
  BY <1>1, <1>2, <1>3, AppendProperties DEF Extends
<1>5. more \in Seq(Samples) /\ Extends(more, rolling, sample)
  BY <1>1, <1>3, AppendProperties DEF Extends
<1> HIDE DEF more
<1>6. /\ rolling' \in Seq(Samples)
      /\ \E k \in 0 .. Len(more) : /\ IsRest(rolling', more, k)
                                   /\ \A i \in 1 .. k : more[i].at < now - WiderWindow
  BY <1>1, <1>2, <1>5, PruningDropsOld
<1>7. ASSUME ClockNeverWentBack'
      PROVE  \E e \in 0 .. Len(session') :
                 /\ IsRest(rolling', session', e)
                 /\ \A i \in 1 .. e : session'[i].at < now - WiderWindow
  <2>1. ClockNeverWentBack /\ \A i \in 1 .. size : session[i].at <= now
    <3>1. \A i, j \in 1 .. Len(session') : i < j => session'[i].at <= session'[j].at
      BY <1>7 DEF ClockNeverWentBack
    <3>2. \A i, j \in 1 .. size : i < j => session[i].at <= session[j].at
      BY <1>3, <1>4, <3>1
    <3>3. \A i \in 1 .. size : session[i].at <= now
      <4> SUFFICES ASSUME NEW i \in 1 .. size PROVE session[i].at <= now
        OBVIOUS
      <4>1. i \in 1 .. Len(session') /\ size + 1 \in 1 .. Len(session') /\ i < size + 1
        BY <1>3, <1>4
      <4>2. session'[i].at <= session'[size + 1].at
        BY <3>1, <4>1
      <4> QED  BY <1>1, <1>4, <4>2
    <3> QED  BY <3>2, <3>3 DEF ClockNeverWentBack
  <2>2. PICK d \in 0 .. size :
            /\ IsRest(rolling, session, d)
            /\ \A i \in 1 .. d : session[i].at < session[size].at - WiderWindow
    BY <1>3, <2>1 DEF RollingIsComplete
  <2>3. PICK k \in 0 .. Len(more) : /\ IsRest(rolling', more, k)
                                    /\ \A i \in 1 .. k : more[i].at < now - WiderWindow
    BY <1>6
  <2>4. /\ d + k \in Nat /\ IsRest(rolling', session', d + k)
        /\ \A i \in 1 .. k : more[i] = session'[i + d]
    <3>1. /\ sample \in Samples /\ session \in Seq(Samples) /\ rolling \in Seq(Samples)
          /\ IsRest(rolling, session, d) /\ IsRest(rolling', more, k)
          /\ Extends(session', session, sample) /\ Extends(more, rolling, sample)
      BY <1>1, <1>3, <1>4, <1>5, <2>2, <2>3
    <3>2. PICK longer, q : longer = session' /\ q = rolling'
      OBVIOUS
    <3>3. /\ IsRest(q, more, k) /\ Extends(longer, session, sample)
      BY <3>1, <3>2
    <3>4. /\ d + k \in Nat /\ IsRest(q, longer, d + k)
          /\ \A i \in 1 .. k : more[i] = longer[i + d]
      BY <3>1, <3>3, TimerKeepsRest, SMTT(60)
    <3> QED  BY <3>2, <3>4
  <2>5. ASSUME NEW i \in 1 .. d + k PROVE session'[i].at < now - WiderWindow
    <3>1. CASE i \in 1 .. d
      <4>1. i \in 1 .. size /\ size \in 1 .. size
        BY <1>3, <3>1
      <4>2. session[i].at \in Int /\ session[size].at \in Int
        BY <1>3, <4>1, StampsOfSamples
      <4>3. session[i].at < session[size].at - WiderWindow /\ session[size].at <= now
        BY <2>1, <2>2, <3>1, <4>1
      <4>4. session[i].at < now - WiderWindow
        BY <1>1, <4>2, <4>3, WidthsAreNumbers, SMTT(30)
      <4> QED  BY <1>4, <4>1, <4>4
    <3>2. CASE i \notin 1 .. d
      <4>1. i - d \in 1 .. k /\ (i - d) + d = i
        BY <1>3, <2>2, <2>3, <3>2
      <4>2. more[i - d] = session'[i] /\ more[i - d].at < now - WiderWindow
        BY <2>3, <2>4, <4>1
      <4> QED  BY <4>2
    <3> QED  BY <3>1, <3>2
  <2>6. d + k \in 0 .. Len(session')
    BY <2>4 DEF IsRest
  <2> QED  BY <2>4, <2>5, <2>6
<1>8. RollingIsComplete'
  <2>1. session'[Len(session')].at = now
    BY <1>1, <1>4
  <2> QED  BY <1>7, <2>1 DEF RollingIsComplete
<1>9. WindowsAreComplete'
  <2> SUFFICES ASSUME ClockNeverWentBack'
               PROVE  /\ snapshot'.short = WindowStatistics(
                              SamplesSince(session', now - AtLeastZero(ShortWindow)))
                      /\ snapshot'.medium = WindowStatistics(
                              SamplesSince(session', now - AtLeastZero(MediumWindow)))
    <3>1. session'[Len(session')].at = now
      BY <1>1, <1>4
    <3> QED  BY <3>1 DEF WindowsAreComplete
  <2>1. PICK e \in 0 .. Len(session') :
            /\ IsRest(rolling', session', e)
            /\ \A i \in 1 .. e : session'[i].at < now - WiderWindow
    BY <1>7
  <2>2. ASSUME NEW width \in Nat, width <= WiderWindow
        PROVE  SamplesSince(rolling', now - width) = SamplesSince(session', now - width)
    <3>1. ASSUME NEW i \in 1 .. e PROVE session'[i].at < now - width
      <4>1. i \in 1 .. Len(session')
        BY <1>3, <1>4, <2>1
      <4>2. session'[i].at \in Int
        BY <1>4, <4>1, StampsOfSamples
      <4>3. session'[i].at < now - WiderWindow
        BY <2>1
      <4> QED  BY <1>1, <2>2, <4>2, <4>3, WidthsAreNumbers
    <3>2. now - width \in Int
      BY <1>1
    <3> QED  BY <1>4, <1>6, <2>1, <3>1, <3>2, SinceIgnoresOld
  <2> QED  BY <1>2, <2>2, WidthsAreNumbers
<1> QED  BY <1>4, <1>6, <1>8, <1>9 DEF WindowsInv

LEMMA StatisticsKeepsWindows ==
    ASSUME WindowsInv, [StatisticsNext]_statisticsVars
    PROVE  WindowsInv'
<1>1. CASE \E now \in ClockStamps, observation \in Observations :
              ObserveAndSnapshot(now, observation)
  BY <1>1, TimerKeepsWindows
<1>2. CASE UNCHANGED <<rolling, session, snapshot>>
  BY <1>2 DEF WindowsInv, RollingIsComplete, ClockNeverWentBack, WindowsAreComplete
<1>3. \/ UNCHANGED <<rolling, session, snapshot>>
      \/ \E now \in ClockStamps, observation \in Observations :
            ObserveAndSnapshot(now, observation)
  BY DEF StatisticsNext, statisticsVars, ObserveCloudDecision
<1> QED  BY <1>1, <1>2, <1>3

\* While the clock never goes back, both windows of the report are computed
\* from all samples of the session that fall into them, for any widths.
THEOREM StatisticsWindowsAreComplete == StatisticsSpec => []WindowsAreComplete
<1>1. WindowsInv => WindowsAreComplete
  BY DEF WindowsInv
<1> QED  BY <1>1, StatisticsInitWindows, StatisticsKeepsWindows, PTL DEF StatisticsSpec


-----------------------------------------------------------------------------
(* Offline analysis: the windows that are covered *)

Windows == [start : Int, end : Int]

\* ImuCoverageAnalyzer's "ok" means what a mapper needs: every instant of the
\* window, but for its margins, has a sample on each side, close enough.
LEMMA OkIsCovered ==
    ASSUME NEW edge \in Nat, NEW window \in Windows, NEW stamps \in SUBSET Int,
           Coverage(edge)!Analyze(window, stamps) = "ok"
    PROVE  /\ window.start < window.end
           /\ \A t \in window.start + edge .. window.end - edge :
                 \E a, b \in stamps : a <= t /\ t <= b /\ b - a <= MaxInternalGap
<1> DEFINE inside == {t \in stamps : window.start <= t /\ t <= window.end}
<1>1. /\ ~ (window.end <= window.start)
      /\ ~ (\A t \in inside : t - window.start > edge)
      /\ ~ (\A t \in inside : window.end - t > edge)
      /\ ~ (\E a, b \in inside : /\ b - a > MaxInternalGap
                                 /\ ~ \E t \in inside : a < t /\ t < b)
  BY DEF Coverage!Analyze, Coverage!StampsInside, Coverage!Contains, Coverage!MissingPrefix,
         Coverage!MissingSuffix, Coverage!HasInternalGap
<1>2. inside \in SUBSET Int /\ inside \subseteq stamps /\ window.start \in Int /\ window.end \in Int
  BY DEF Windows
<1>3. ASSUME NEW t \in window.start + edge .. window.end - edge
      PROVE  \E a, b \in stamps : a <= t /\ t <= b /\ b - a <= MaxInternalGap
  <2>1. t \in Int /\ window.start + edge <= t /\ t <= window.end - edge
    BY <1>2
  <2>2. PICK early \in inside : early - window.start <= edge
    BY <1>1, <1>2
  <2>3. PICK late \in inside : window.end - late <= edge
    BY <1>1, <1>2
  <2> HIDE DEF inside
  <2>4. early <= t /\ late >= t
    BY <1>2, <2>1, <2>2, <2>3
  <2>5. PICK a, b \in inside : a <= t /\ t <= b /\ ~ \E s \in inside : a < s /\ s < b
    <3>1. Facts!RetentionAssumption /\ Facts!CoverageAssumption
      BY DEF Facts!RetentionAssumption, Facts!CoverageAssumption
    <3> QED  BY <1>2, <2>1, <2>4, <3>1, Facts!BetweenNeighbours
  <2>6. a \in Int /\ b \in Int /\ b - a <= MaxInternalGap
    BY <1>1, <1>2, <2>5, AnalysisAssumption
  <2> QED  BY <1>2, <2>5, <2>6
<1> HIDE DEF inside
<1> QED  BY <1>1, <1>2, <1>3

\* What a function with finitely many arguments yields is finite.
LEMMA ImageIsFinite ==
    ASSUME NEW S, IsFiniteSet(S), NEW f, NEW T, f \in [S -> T], \A t \in T : \E s \in S : f[s] = t
    PROVE  IsFiniteSet(T)
<1>1. f \in Surjection(S, T)
  BY DEF Surjection
<1> QED  BY <1>1, FS_Surjection

\* A finite set of numbers has a least and a greatest one.
LEMMA HasBounds ==
    ASSUME NEW S \in SUBSET Int, IsFiniteSet(S), S # {}
    PROVE  \E a, b \in S : \A t \in S : a <= t /\ t <= b
<1>1. /\ Facts!RetentionAssumption /\ Facts!CoverageAssumption
      /\ Facts!IsFiniteSet(S)
      /\ \A T : Facts!Cardinality(T) = Cardinality(T)
  BY DEF Facts!RetentionAssumption, Facts!CoverageAssumption, IsFiniteSet, Facts!IsFiniteSet,
         Cardinality, Facts!Cardinality
<1> DEFINE size == Cardinality(S)
<1>2. size \in Nat /\ size # 0
  BY FS_CardinalityType, FS_EmptySet
<1>3. ASSUME NEW n \in 1 .. size
      PROVE  \E i \in S : Cardinality({j \in S : j <= i}) = n
  <2>1. Facts!Nth(S, n) \in S /\ Cardinality(Facts!UpTo(S, Facts!Nth(S, n))) = n
    BY <1>1, Facts!NthIsThere
  <2> QED  BY <2>1 DEF Facts!UpTo
<1>4. PICK b \in S : Cardinality({j \in S : j <= b}) = size
  BY <1>2, <1>3
<1>5. \A t \in S : t <= b
  <2>1. {j \in S : j <= b} \in SUBSET S
    OBVIOUS
  <2>2. {j \in S : j <= b} = S
    BY <1>4, <2>1, FS_Subset
  <2> QED  BY <2>2
<1>6. PICK a \in S : Cardinality({j \in S : j <= a}) = 1
  BY <1>2, <1>3
<1>7. \A t \in S : a <= t
  <2> SUFFICES ASSUME NEW t \in S, ~ (a <= t) PROVE FALSE
    OBVIOUS
  <2>1. t < a /\ a \in Int /\ t \in Int
    OBVIOUS
  <2>2. {t, a} \in SUBSET {j \in S : j <= a}
    BY <2>1
  <2>3. IsFiniteSet({j \in S : j <= a})
    <3>1. {j \in S : j <= a} \in SUBSET S
      OBVIOUS
    <3> QED  BY <3>1, FS_Subset
  <2>4. {j \in S : j <= a} = {a}
    <3> DEFINE low == {j \in S : j <= a}
    <3>1. a \in low /\ low = low
      BY <2>1
    <3>2. {a} \in SUBSET low /\ IsFiniteSet(low) /\ Cardinality(low) = 1 /\ Cardinality({a}) = 1
      BY <1>6, <2>3, <3>1, FS_Singleton
    <3> HIDE DEF low
    <3>3. {a} = low
      BY <3>2, FS_Subset
    <3> QED  BY <3>3 DEF low
  <2> QED  BY <2>1, <2>2, <2>4
<1> QED  BY <1>5, <1>7

-----------------------------------------------------------------------------
(* The margin at the ends of a window *)

\* Some positive period is the nearest rank: the greatest one is enough.
LEMMA MarginIsANumber ==
    ASSUME imuSamples \in Seq(Int)
    PROVE  EdgeTolerance \in Nat
<1> DEFINE period(i) == imuSamples[i + 1] - imuSamples[i]
           positive == {i \in 1 .. Len(imuSamples) - 1 : period(i) > 0}
           values == {period(i) : i \in positive}
           IsEnough(p) == 100 * Cardinality({i \in positive : period(i) <= p})
                              >= 95 * Cardinality(positive)
           rank == CHOOSE p \in values :
                       /\ IsEnough(p)
                       /\ \A i \in positive : IsEnough(period(i)) => p <= period(i)
<1>1. ObservedImuPeriodP95 = IF positive = {} THEN 0 ELSE rank
  BY DEF ObservedImuPeriodP95
<1>2. /\ Len(imuSamples) \in Nat
      /\ \A i \in 1 .. Len(imuSamples) - 1 : period(i) \in Int
  <2>1. Len(imuSamples) \in Nat
    OBVIOUS
  <2>2. ASSUME NEW i \in 1 .. Len(imuSamples) - 1 PROVE period(i) \in Int
    <3>1. i \in 1 .. Len(imuSamples) /\ i + 1 \in 1 .. Len(imuSamples)
      BY <2>1
    <3> QED  BY <3>1
  <2> QED  BY <2>1, <2>2
<1>3. positive \in SUBSET (1 .. Len(imuSamples) - 1) /\ IsFiniteSet(positive)
  <2>1. positive \in SUBSET (1 .. Len(imuSamples) - 1)
    OBVIOUS
  <2>2. IsFiniteSet(1 .. Len(imuSamples) - 1)
    BY <1>2, FS_Interval
  <2> HIDE DEF positive
  <2> QED  BY <2>1, <2>2, FS_Subset
<1>4. values \in SUBSET Nat /\ IsFiniteSet(values)
  <2>1. \A i \in positive : period(i) \in Nat
    BY <1>2
  <2> HIDE DEF positive, period
  <2>2. IsFiniteSet(values)
    <3> DEFINE f == [i \in positive |-> period(i)]
    <3>1. f \in [positive -> values] /\ \A p \in values : \E i \in positive : f[i] = p
      OBVIOUS
    <3> HIDE DEF f, values
    <3> QED  BY <1>3, <3>1, ImageIsFinite
  <2> QED  BY <2>1, <2>2
<1>5. ASSUME positive # {} PROVE rank \in values
  <2> DEFINE enough == {p \in values : IsEnough(p)}
  <2>1. values # {} /\ values \in SUBSET Int
    <3>1. PICK i : i \in positive
      BY <1>5
    <3>2. period(i) \in values
      BY <3>1
    <3> HIDE DEF values
    <3> QED  BY <1>4, <3>2
  <2>2. PICK top \in values : \A t \in values : t <= top
    <3> HIDE DEF values
    <3> QED  BY <1>4, <2>1, HasBounds
  <2>3. {i \in positive : period(i) <= top} = positive
    BY <2>2
  <2>4. Cardinality(positive) \in Nat
    BY <1>3, FS_CardinalityType
  <2>5. IsEnough(top)
    <3> DEFINE upTo == {i \in positive : period(i) <= top}
    <3>1. IsEnough(top) <=> 100 * Cardinality(upTo) >= 95 * Cardinality(positive)
      OBVIOUS
    <3>2. upTo = positive
      BY <2>3
    <3> HIDE DEF positive, upTo, IsEnough
    <3> QED  BY <2>4, <3>1, <3>2
  <2>6. enough \in SUBSET Nat /\ enough # {}
    BY <1>4, <2>2, <2>5
  <2>7. PICK p \in enough : \A q \in enough : p <= q
    <3>1. Facts!RetentionAssumption /\ Facts!CoverageAssumption
      BY DEF Facts!RetentionAssumption, Facts!CoverageAssumption
    <3> HIDE DEF enough
    <3> QED  BY <2>6, <3>1, Facts!SmallestNumber
  <2>8. \A i \in positive : IsEnough(period(i)) => p <= period(i)
    <3> HIDE DEF IsEnough, positive
    <3> QED  BY <2>7
  <2>9. p \in values /\ IsEnough(p)
    <3> HIDE DEF IsEnough, values
    <3> QED  BY <2>7
  <2> HIDE DEF IsEnough, values, positive, period
  <2> QED  BY <2>8, <2>9
<1> HIDE DEF rank, values, positive
<1>6. ObservedImuPeriodP95 \in Nat
  BY <1>1, <1>4, <1>5
<1>7. (3 * ObservedImuPeriodP95) \div 2 \in Int
  BY <1>6
<1> QED  BY <1>7, AnalysisAssumption DEF EdgeTolerance

-----------------------------------------------------------------------------
(* The windows of the clouds *)

\* What a bag may hold of a cloud.
LEMMA CloudFacts ==
    ASSUME NEW cloud \in Messages, cloud.kind = "cloud"
    PROVE  /\ cloud.header \in Int
           /\ TimeFields(cloud) \in SUBSET Int /\ IsFiniteSet(TimeFields(cloud))
           /\ \A offset \in DOMAIN cloud.values :
                 IsFiniteSet(cloud.values[offset]) /\ cloud.values[offset] \in SUBSET Int
<1>1. /\ cloud.header \in Int
      /\ cloud.fields \in Seq([name : STRING, datatype : STRING, offset : Nat])
      /\ \A offset \in DOMAIN cloud.values :
            IsFiniteSet(cloud.values[offset]) /\ cloud.values[offset] \in SUBSET Int
  BY MessagesAssumption
<1>2. DOMAIN cloud.fields = 1 .. Len(cloud.fields) /\ Len(cloud.fields) \in Nat
  BY <1>1
<1>3. TimeFields(cloud) \in SUBSET (1 .. Len(cloud.fields))
  BY <1>2 DEF TimeFields
<1>4. IsFiniteSet(1 .. Len(cloud.fields)) /\ 1 .. Len(cloud.fields) \in SUBSET Int
  BY <1>2, FS_Interval
<1>5. IsFiniteSet(TimeFields(cloud)) /\ TimeFields(cloud) \in SUBSET Int
  BY <1>3, <1>4, FS_Subset
<1> QED  BY <1>1, <1>5

\* Point times that were read give a window of numbers, ...
LEMMA ScanIsAWindow ==
    ASSUME NEW cloud \in Messages, cloud.kind = "cloud"
    PROVE  PointScan(cloud) \in {NoScan} \cup Windows
<1> DEFINE field == FirstTimeField(cloud)
           role == TimeRoleForFieldName(field.name)
           raw == IF field.offset \in DOMAIN cloud.values /\ PointTime!IsConvertible(role, field.datatype)
                  THEN cloud.values[field.offset] ELSE {}
           times == PointTime!TimesByRole(cloud, field, role)
<1>1. raw \in SUBSET Int /\ IsFiniteSet(raw) /\ cloud.header \in Int
  BY CloudFacts, FS_EmptySet
<1>2. times = raw \/ times = {cloud.header + offset : offset \in raw}
  BY DEF PointTime!TimesByRole
<1>3. PointScan(cloud) = PointTime!WindowOf(times)
  BY DEF PointScan
<1> HIDE DEF raw, times
<1>4. times \in SUBSET Int /\ IsFiniteSet(times)
  <2>1. CASE times = raw
    BY <1>1, <2>1
  <2>2. CASE times = {cloud.header + offset : offset \in raw}
    <3>1. times \in SUBSET Int
      BY <1>1, <2>2
    <3>2. IsFiniteSet(times)
      <4> DEFINE f == [offset \in raw |-> cloud.header + offset]
      <4>1. f \in [raw -> times] /\ \A t \in times : \E offset \in raw : f[offset] = t
        BY <2>2
      <4> HIDE DEF f
      <4>2. IsFiniteSet(raw)
        BY <1>1
      <4>3. ASSUME NEW S, S = raw, NEW T, T = times PROVE IsFiniteSet(T)
        <5>1. IsFiniteSet(S) /\ f \in [S -> T] /\ \A t \in T : \E s \in S : f[s] = t
          BY <4>1, <4>2, <4>3
        <5> QED  BY <5>1, ImageIsFinite
      <4> QED  BY <4>3
    <3> QED  BY <3>1, <3>2
  <2> QED  BY <1>2, <2>1, <2>2
<1>5. CASE times = {}
  BY <1>3, <1>5 DEF PointTime!WindowOf
<1>6. CASE times # {}
  <2>1. PICK a \in times, b \in times : \A t \in times : a <= t /\ t <= b
    BY <1>4, <1>6, HasBounds
  <2>2. PointTime!Min(times) \in Int /\ PointTime!Max(times) \in Int
    BY <1>4, <2>1 DEF PointTime!Min, PointTime!Max
  <2>3. PointTime!WindowOf(times)
          = [start |-> PointTime!Min(times), end |-> PointTime!Max(times)]
    BY <1>6 DEF PointTime!WindowOf
  <2> QED  BY <1>3, <2>2, <2>3 DEF Windows
<1> QED  BY <1>5, <1>6

\* ... and so does the estimate from the headers.
LEMMA EstimateIsAWindow ==
    ASSUME NEW previous \in Int \cup {NoStamp}, NEW stamp \in Int
    PROVE  Scan!Estimate(previous, stamp).window \in Windows
<1>1. ASSUME NEW duration \in Int
      PROVE  Scan!BuildLidarScanWindow(stamp, duration) \in Windows
  BY <1>1 DEF Scan!BuildLidarScanWindow, Windows
<1>2. FallbackScanDuration \in Int
  BY PartsAssumption DEF Scan!ScanWindowAssumption
<1>3. CASE Scan!UsablePeriod(previous, stamp)
  <2>1. stamp - previous \in Int
    BY <1>3 DEF Scan!UsablePeriod
  <2> QED  BY <1>1, <1>3, <2>1 DEF Scan!Estimate
<1>4. CASE ~ Scan!UsablePeriod(previous, stamp)
  BY <1>1, <1>2, <1>4 DEF Scan!Estimate
<1> QED  BY <1>3, <1>4

\* Where the two programs choose the same field, they find the same window.
LEMMA ReadAlike ==
    ASSUME NEW cloud \in Messages, cloud.kind = "cloud", IsReadAlike(cloud)
    PROVE  PointScan(cloud) = PointTime!Extract(cloud, NodeField(cloud))
<1> DEFINE field == FirstTimeField(cloud)
           role == TimeRoleForFieldName(field.name)
<1>1. TimeFields(cloud) # {} /\ NodeField(cloud) = field /\ field.name # "time"
  BY DEF IsReadAlike
<1>2. role # "none"
  <2>1. /\ Facts!RetentionAssumption /\ Facts!CoverageAssumption
        /\ Facts!IsFiniteSet(TimeFields(cloud)) <=> IsFiniteSet(TimeFields(cloud))
        /\ Facts!Cardinality(TimeFields(cloud)) = Cardinality(TimeFields(cloud))
    BY DEF Facts!RetentionAssumption, Facts!CoverageAssumption, IsFiniteSet, Facts!IsFiniteSet,
           Cardinality, Facts!Cardinality
  <2>5. Facts!Nth(TimeFields(cloud), 1) = Nth(TimeFields(cloud), 1)
    BY DEF Nth, Facts!Nth, Cardinality, Facts!Cardinality
  <2>2. TimeFields(cloud) \in SUBSET Int /\ IsFiniteSet(TimeFields(cloud))
    BY CloudFacts
  <2>3. 1 \in 1 .. Cardinality(TimeFields(cloud))
    BY <1>1, <2>2, FS_CardinalityType, FS_EmptySet
  <2>4. Nth(TimeFields(cloud), 1) \in TimeFields(cloud)
    BY <2>1, <2>2, <2>3, <2>5, Facts!NthIsThere
  <2> QED  BY <2>4 DEF TimeFields, FirstTimeField
<1>3. role = PointTime!ResolveTimeFieldRole(field)
  BY <1>1, <1>2 DEF TimeRoleForFieldName, PointTime!ResolveTimeFieldRole,
                    PointTime!DetectTimeFieldRole
<1> HIDE DEF field, role
<1>4. PointScan(cloud) = PointTime!WindowOf(PointTime!TimesByRole(cloud, field, role))
  BY DEF PointScan, field, role
<1> QED  BY <1>1, <1>3, <1>4 DEF PointTime!Extract, PointTime!PointTimes

-----------------------------------------------------------------------------
(* What a filter collects when one element is added *)

\* The elements of a place are the same in both.
AgreeOn(S, f, g) == \A i \in S : g[i] = f[i]

IsOneMore(T, S, m) == T = S \cup {m}

LEMMA SelectedAlike ==
    ASSUME NEW S \in SUBSET Int, IsFiniteSet(S), NEW f, NEW g, AgreeOn(S, f, g)
    PROVE  Selected(g, S) = Selected(f, S)
<1>1. \A n \in 1 .. Cardinality(S) : g[Nth(S, n)] = f[Nth(S, n)]
  BY Places DEF AgreeOn
<1> QED  BY <1>1, Zenon DEF Selected

\* A filter over a vector that has grown by one element that passes.
LEMMA SelectedAppended ==
    ASSUME NEW S \in SUBSET Int, IsFiniteSet(S), NEW m \in Int, IsAbove(m, S),
           NEW T, IsOneMore(T, S, m), NEW f, NEW g, AgreeOn(S, f, g),
           NEW W, Selected(f, S) \in Seq(W), g[m] \in W
    PROVE  Selected(g, T) = Append(Selected(f, S), g[m])
<1> DEFINE size == Cardinality(S)
           old == Selected(f, S)
           new == Selected(g, T)
           more == Append(old, g[m])
<1>1. /\ Cardinality(T) = size + 1
      /\ \A n \in 1 .. size : Nth(T, n) = Nth(S, n)
      /\ Nth(T, size + 1) = m
  BY PlacesAppended DEF IsOneMore
<1>2. size \in Nat /\ \A n \in 1 .. size : Nth(S, n) \in S
  BY Places
<1>3. old = [n \in 1 .. size |-> f[Nth(S, n)]]
  BY DEF Selected
<1>4. Len(old) = size /\ \A n \in 1 .. size : old[n] = f[Nth(S, n)]
  BY <1>2, <1>3
<1>5. new = [n \in 1 .. size + 1 |-> g[Nth(T, n)]]
  BY <1>1 DEF Selected
<1>6. \A n \in 1 .. size + 1 : new[n] = g[Nth(T, n)]
  BY <1>5
<1> HIDE DEF size, old, new
<1>7. /\ more \in Seq(W) /\ Len(more) = size + 1
      /\ \A n \in 1 .. size : more[n] = old[n]
      /\ more[size + 1] = g[m]
  BY <1>4, AppendProperties DEF old
<1>8. ASSUME NEW n \in 1 .. size + 1 PROVE new[n] = more[n]
  <2>1. CASE n = size + 1
    BY <1>1, <1>6, <1>7, <2>1
  <2>2. CASE n # size + 1
    <3>1. n \in 1 .. size
      BY <1>2, <2>2
    <3>2. new[n] = g[Nth(S, n)] /\ Nth(S, n) \in S
      BY <1>1, <1>2, <1>6, <3>1
    <3>3. g[Nth(S, n)] = f[Nth(S, n)]
      BY <3>2 DEF AgreeOn
    <3> QED  BY <1>4, <1>7, <3>1, <3>2, <3>3
  <2> QED  BY <2>1, <2>2
<1> HIDE DEF more
<1>9. DOMAIN more = 1 .. size + 1
  BY <1>2, <1>7
<1>10. new = more
  <2>1. more = [n \in 1 .. size + 1 |-> more[n]]
    BY <1>7, <1>9
  <2> QED  BY <1>5, <1>6, <1>8, <2>1, Zenon
<1> QED  BY <1>10 DEF new, more, old

-----------------------------------------------------------------------------
(* Reading the bag *)

Counts == {"total", "estimated", "withPointTime", "outliers"}

OfflineType ==
    /\ bag \in Seq(Messages)
    /\ imuSamples \in Seq(Int)
    /\ lastEstimated \in Int \cup {NoStamp}
    /\ windows \in Seq(Windows)
    /\ tally \in [Counts -> Nat]

\* The tool made none of its evidence up.
BagGaveEvidence ==
    /\ \A i \in 1 .. Len(imuSamples) : imuSamples[i] \in ImuOfBag
    /\ tally.withPointTime # 0 =>
          \E i \in CloudsOfBag : TimeFields(bag[i]) # {} /\ PointScan(bag[i]) # NoScan

NodeScan(cloud) == PointTime!Extract(cloud, NodeField(cloud))

\* One more message at the end: what stands before it is as it was.
LEMMA BagGrows ==
    ASSUME bag \in Seq(Messages), NEW message \in Messages, Read(message),
           NEW n, n = Len(bag) + 1
    PROVE  /\ bag' \in Seq(Messages) /\ n \in Nat
           /\ \A i \in 1 .. Len(bag) : bag'[i] = bag[i]
           /\ bag'[n] = message
           /\ CloudsOfBag \in SUBSET (1 .. Len(bag)) /\ CloudsOfBag \in SUBSET Int
           /\ IsFiniteSet(CloudsOfBag) /\ IsAbove(n, CloudsOfBag)
           /\ CloudsOfBag' = IF message.kind = "cloud" THEN CloudsOfBag \cup {n} ELSE CloudsOfBag
           /\ ImuOfBag \subseteq ImuOfBag'
           /\ message.kind = "imu" => message.stamp \in ImuOfBag'
<1>1. bag' = Append(bag, message)
  BY DEF Read
<1>2. /\ bag' \in Seq(Messages) /\ Len(bag') = n /\ Len(bag) \in Nat /\ n \in Nat
      /\ \A i \in 1 .. Len(bag) : bag'[i] = bag[i]
      /\ bag'[n] = message
  BY <1>1, AppendProperties
<1>3. /\ DOMAIN bag = 1 .. Len(bag) /\ DOMAIN bag' = 1 .. n
      /\ 1 .. n = (1 .. Len(bag)) \cup {n} /\ n \notin 1 .. Len(bag)
  BY <1>2
<1>4. CloudsOfBag \in SUBSET (1 .. Len(bag)) /\ IsFiniteSet(CloudsOfBag)
  <2>1. CloudsOfBag \in SUBSET (1 .. Len(bag))
    BY <1>3 DEF CloudsOfBag
  <2>2. IsFiniteSet(1 .. Len(bag))
    BY <1>2, FS_Interval
  <2>3. IsFiniteSet(CloudsOfBag)
    BY <2>1, <2>2, FS_Subset
  <2> QED  BY <2>1, <2>3
<1>5. IsAbove(n, CloudsOfBag) /\ CloudsOfBag \in SUBSET Int
  BY <1>2, <1>4 DEF IsAbove
<1>6. CloudsOfBag' = IF message.kind = "cloud" THEN CloudsOfBag \cup {n} ELSE CloudsOfBag
  BY <1>2, <1>3 DEF CloudsOfBag
<1>7. ImuOfBag \subseteq ImuOfBag'
  <2> SUFFICES ASSUME NEW i \in 1 .. Len(bag), bag[i].kind = "imu"
               PROVE  bag[i].stamp \in ImuOfBag'
    BY <1>3 DEF ImuOfBag
  <2>1. i \in DOMAIN bag' /\ bag'[i].kind = "imu" /\ bag'[i].stamp = bag[i].stamp
    BY <1>2, <1>3
  <2> QED  BY <2>1 DEF ImuOfBag
<1>8. message.kind = "imu" => message.stamp \in ImuOfBag'
  <2>1. n \in DOMAIN bag'
    BY <1>3
  <2> QED  BY <1>2, <2>1 DEF ImuOfBag
<1> QED  BY <1>2, <1>4, <1>5, <1>6, <1>7, <1>8

\* The windows the node would have found, in words easier to reason about.
AllAlike == \A i \in CloudsOfBag : IsReadAlike(bag[i])
NodeScans == [i \in CloudsOfBag |-> NodeScan(bag[i])]
WithScan == {i \in CloudsOfBag : NodeScan(bag[i]) # NoScan}

LEMMA NodesWindows == WindowsAreTheNodes <=> (AllAlike => windows = Selected(NodeScans, WithScan))
<1>1. NodeScans = [i \in CloudsOfBag |-> PointTime!Extract(bag[i], NodeField(bag[i]))]
  BY DEF NodeScans, NodeScan
<1>2. WithScan = {i \in CloudsOfBag : NodeScans[i] # NoScan}
  BY DEF WithScan, NodeScans
<1> QED  BY <1>1, <1>2, Zenon DEF WindowsAreTheNodes, AllAlike

\* The same of the state after a step.
LEMMA NodesWindowsAfter ==
    WindowsAreTheNodes' <=> (AllAlike' => windows' = Selected(NodeScans', WithScan'))
<1>1. NodeScans' = [i \in CloudsOfBag' |-> PointTime!Extract(bag'[i], NodeField(bag'[i]))]
  BY DEF NodeScans, NodeScan, NodeField
<1>2. WithScan' = {i \in CloudsOfBag' : NodeScans'[i] # NoScan}
  BY DEF WithScan, NodeScans, NodeScan
<1> QED  BY <1>1, <1>2, Zenon DEF WindowsAreTheNodes, AllAlike, NodeField, IsReadAlike

\* A reading step appends the node's window of the cloud, if there is one.
LEMMA ReadKeepsNodes ==
    ASSUME OfflineType, WindowsAreTheNodes, NEW message \in Messages, Read(message),
           message.kind = "cloud" /\ IsReadAlike(message) =>
               windows' = IF PointScan(message) = NoScan THEN windows
                          ELSE Append(windows, PointScan(message)),
           message.kind # "cloud" => windows' = windows
    PROVE  AllAlike' => windows' = Selected(NodeScans', WithScan')
<1> SUFFICES ASSUME AllAlike' PROVE windows' = Selected(NodeScans', WithScan')
  OBVIOUS
<1>1. PICK n : n = Len(bag) + 1
  OBVIOUS
<1>2. bag \in Seq(Messages) /\ windows \in Seq(Windows)
  BY DEF OfflineType
<1>3. /\ bag' \in Seq(Messages) /\ n \in Nat
      /\ \A i \in 1 .. Len(bag) : bag'[i] = bag[i]
      /\ bag'[n] = message
      /\ CloudsOfBag \in SUBSET (1 .. Len(bag)) /\ CloudsOfBag \in SUBSET Int
      /\ IsFiniteSet(CloudsOfBag) /\ IsAbove(n, CloudsOfBag)
      /\ CloudsOfBag' = IF message.kind = "cloud" THEN CloudsOfBag \cup {n} ELSE CloudsOfBag
  BY <1>1, <1>2, BagGrows
<1>4. \A i \in CloudsOfBag : bag'[i] = bag[i] /\ i \in CloudsOfBag'
  BY <1>3
<1>5. \A i \in CloudsOfBag' : IsReadAlike(bag'[i])
  BY DEF AllAlike, IsReadAlike
<1>6. \A i \in CloudsOfBag : IsReadAlike(bag[i])
  BY <1>4, <1>5
<1>7. windows = Selected(NodeScans, WithScan)
  BY <1>6, NodesWindows DEF AllAlike
<1>8. /\ DOMAIN NodeScans' = CloudsOfBag' /\ \A i \in CloudsOfBag' : NodeScans'[i] = NodeScan(bag'[i])
      /\ \A i \in CloudsOfBag : NodeScans[i] = NodeScan(bag[i])
      /\ WithScan' = {i \in CloudsOfBag' : NodeScan(bag'[i]) # NoScan}
  BY DEF NodeScans, WithScan, NodeScan, NodeField
<1>9. /\ \A i \in WithScan : NodeScans'[i] = NodeScans[i]
      /\ WithScan \in SUBSET CloudsOfBag /\ WithScan \in SUBSET Int /\ IsFiniteSet(WithScan)
      /\ IsAbove(n, WithScan)
  <2>1. WithScan \in SUBSET CloudsOfBag
    BY DEF WithScan
  <2>2. WithScan \in SUBSET Int /\ IsFiniteSet(WithScan) /\ IsAbove(n, WithScan)
    BY <1>3, <2>1, FS_Subset DEF IsAbove
  <2>3. \A i \in WithScan : NodeScans'[i] = NodeScans[i]
    BY <1>4, <1>8, <2>1
  <2> QED  BY <2>1, <2>2, <2>3
<1>10. CASE WithScan' = WithScan /\ windows' = windows
  <2>1. Selected(NodeScans', WithScan) = Selected(NodeScans, WithScan)
    <3>1. PICK g : g = NodeScans'
      OBVIOUS
    <3>2. AgreeOn(WithScan, NodeScans, g)
      BY <1>9, <3>1 DEF AgreeOn
    <3> QED  BY <1>9, <3>1, <3>2, SelectedAlike
  <2> QED  BY <1>7, <1>10, <2>1
<1>11. CASE message.kind # "cloud"
  <2>1. CloudsOfBag' = CloudsOfBag
    BY <1>3, <1>11
  <2>2. WithScan' = WithScan
    BY <1>4, <1>8, <2>1 DEF WithScan
  <2> QED  BY <1>10, <1>11, <2>2
<1>12. CASE message.kind = "cloud"
  <2>1. CloudsOfBag' = CloudsOfBag \cup {n} /\ n \in CloudsOfBag' /\ IsReadAlike(message)
    BY <1>3, <1>5, <1>12
  <2>2. PointScan(message) = NodeScan(message)
    BY <1>12, <2>1, ReadAlike DEF NodeScan
  <2>3. WithScan' = IF NodeScan(message) = NoScan THEN WithScan ELSE WithScan \cup {n}
    BY <1>3, <1>4, <1>8, <2>1 DEF WithScan
  <2>4. CASE PointScan(message) = NoScan
    BY <1>10, <1>12, <2>1, <2>2, <2>3, <2>4
  <2>5. CASE PointScan(message) # NoScan
    <3>1. /\ WithScan' = WithScan \cup {n}
          /\ windows' = Append(windows, PointScan(message))
      BY <1>12, <2>1, <2>2, <2>3, <2>5
    <3>2. NodeScans'[n] = PointScan(message)
      BY <1>3, <1>8, <2>1, <2>2
    <3>3. NodeScans'[n] \in Windows
      BY <1>12, <2>5, <3>2, ScanIsAWindow
    <3>4. Selected(NodeScans', WithScan') = Append(Selected(NodeScans, WithScan), NodeScans'[n])
      <4>1. PICK g, T : g = NodeScans' /\ T = WithScan'
        OBVIOUS
      <4>2. PICK S, f : S = WithScan /\ f = NodeScans
        OBVIOUS
      <4>3. /\ n \in Int /\ IsOneMore(T, S, n) /\ AgreeOn(S, f, g)
            /\ S \in SUBSET Int /\ IsFiniteSet(S) /\ IsAbove(n, S)
            /\ Selected(f, S) \in Seq(Windows) /\ g[n] \in Windows
        BY <1>2, <1>3, <1>7, <1>9, <3>1, <3>3, <4>1, <4>2 DEF AgreeOn, IsOneMore
      <4>4. Selected(g, T) = Append(Selected(f, S), g[n])
        BY <4>3, SelectedAppended
      <4> QED  BY <4>1, <4>2, <4>4
    <3> QED  BY <1>7, <3>1, <3>2, <3>4
  <2> QED  BY <2>4, <2>5
<1> QED  BY <1>11, <1>12

\* What holds of the evidence, whatever has been read.
EvidenceSound == OfflineType /\ BagGaveEvidence /\ WindowsAreTheNodes

\* What the bag gave stays given.
LEMMA StaysGiven ==
    ASSUME EvidenceSound, NEW message \in Messages, Read(message)
    PROVE  /\ bag' \in Seq(Messages)
           /\ \A i \in 1 .. Len(imuSamples) : imuSamples[i] \in ImuOfBag'
           /\ tally.withPointTime # 0 =>
                 \E i \in CloudsOfBag' : TimeFields(bag'[i]) # {} /\ PointScan(bag'[i]) # NoScan
           /\ message.kind = "imu" => message.stamp \in ImuOfBag'
           /\ message.kind = "cloud" /\ TimeFields(message) # {} /\ PointScan(message) # NoScan =>
                 \E i \in CloudsOfBag' : TimeFields(bag'[i]) # {} /\ PointScan(bag'[i]) # NoScan
<1>1. PICK n : n = Len(bag) + 1
  OBVIOUS
<1>2. bag \in Seq(Messages)
  BY DEF EvidenceSound, OfflineType
<1>3. /\ bag' \in Seq(Messages) /\ n \in Nat
      /\ \A i \in 1 .. Len(bag) : bag'[i] = bag[i]
      /\ bag'[n] = message
      /\ CloudsOfBag \in SUBSET (1 .. Len(bag))
      /\ CloudsOfBag' = IF message.kind = "cloud" THEN CloudsOfBag \cup {n} ELSE CloudsOfBag
      /\ ImuOfBag \subseteq ImuOfBag'
      /\ message.kind = "imu" => message.stamp \in ImuOfBag'
  BY <1>1, <1>2, BagGrows
<1>4. \A i \in CloudsOfBag : bag'[i] = bag[i] /\ i \in CloudsOfBag'
  BY <1>3
<1>5. \A i \in 1 .. Len(imuSamples) : imuSamples[i] \in ImuOfBag'
  BY <1>3 DEF EvidenceSound, BagGaveEvidence
<1>6. ASSUME tally.withPointTime # 0
      PROVE  \E i \in CloudsOfBag' : TimeFields(bag'[i]) # {} /\ PointScan(bag'[i]) # NoScan
  <2>1. PICK i \in CloudsOfBag : TimeFields(bag[i]) # {} /\ PointScan(bag[i]) # NoScan
    BY <1>6 DEF EvidenceSound, BagGaveEvidence
  <2>2. i \in CloudsOfBag' /\ bag'[i] = bag[i]
    BY <1>4, <2>1
  <2> QED  BY <2>1, <2>2
<1>7. ASSUME message.kind = "cloud", TimeFields(message) # {}, PointScan(message) # NoScan
      PROVE  \E i \in CloudsOfBag' : TimeFields(bag'[i]) # {} /\ PointScan(bag'[i]) # NoScan
  <2>1. n \in CloudsOfBag' /\ bag'[n] = message
    BY <1>3, <1>7
  <2> QED  BY <1>7, <2>1
<1> QED  BY <1>3, <1>5, <1>6, <1>7

LEMMA SkipCorruptKeepsEvidence ==
    ASSUME EvidenceSound, NEW message \in Messages, SkipCorrupt(message)
    PROVE  EvidenceSound'
<1>1. /\ Read(message) /\ message.kind = "corrupt" /\ message.kind # "cloud"
      /\ UNCHANGED <<imuSamples, lastEstimated, windows, tally>>
  BY DEF SkipCorrupt, evidence
<1>2. OfflineType'
  BY <1>1, StaysGiven DEF EvidenceSound, OfflineType
<1>3. BagGaveEvidence'
  BY <1>1, StaysGiven DEF BagGaveEvidence
<1>4. WindowsAreTheNodes'
  <2>1. AllAlike' => windows' = Selected(NodeScans', WithScan')
    BY <1>1, ReadKeepsNodes DEF EvidenceSound
  <2> QED  BY <2>1, NodesWindowsAfter
<1> QED  BY <1>2, <1>3, <1>4 DEF EvidenceSound

LEMMA ReadImuKeepsEvidence ==
    ASSUME EvidenceSound, NEW message \in Messages, ReadImu(message)
    PROVE  EvidenceSound'
<1>1. /\ Read(message) /\ message.kind = "imu" /\ message.kind # "cloud"
      /\ UNCHANGED <<lastEstimated, windows, tally>>
      /\ imuSamples' = Append(imuSamples, message.stamp)
  BY DEF ReadImu
<1>2. message.stamp \in Int /\ imuSamples \in Seq(Int)
  BY <1>1, MessagesAssumption DEF EvidenceSound, OfflineType
<1>3. /\ imuSamples' \in Seq(Int) /\ Len(imuSamples') = Len(imuSamples) + 1
      /\ \A i \in 1 .. Len(imuSamples) : imuSamples'[i] = imuSamples[i]
      /\ imuSamples'[Len(imuSamples) + 1] = message.stamp
  BY <1>1, <1>2, AppendProperties
<1>4. OfflineType'
  BY <1>1, <1>3, StaysGiven DEF EvidenceSound, OfflineType
<1>5. BagGaveEvidence'
  <2>1. ASSUME NEW i \in 1 .. Len(imuSamples') PROVE imuSamples'[i] \in ImuOfBag'
    <3>1. i \in 1 .. Len(imuSamples) \/ i = Len(imuSamples) + 1
      BY <1>2, <1>3
    <3> QED  BY <1>1, <1>3, <3>1, StaysGiven
  <2>2. tally'.withPointTime # 0 =>
            \E i \in CloudsOfBag' : TimeFields(bag'[i]) # {} /\ PointScan(bag'[i]) # NoScan
    BY <1>1, StaysGiven
  <2> QED  BY <2>1, <2>2 DEF BagGaveEvidence
<1>6. WindowsAreTheNodes'
  <2>1. AllAlike' => windows' = Selected(NodeScans', WithScan')
    BY <1>1, ReadKeepsNodes DEF EvidenceSound
  <2> QED  BY <2>1, NodesWindowsAfter
<1> QED  BY <1>4, <1>5, <1>6 DEF EvidenceSound

LEMMA ReadTimedCloudKeepsEvidence ==
    ASSUME EvidenceSound, NEW message \in Messages, ReadTimedCloud(message)
    PROVE  EvidenceSound'
<1> DEFINE scan == PointScan(message)
<1>1. /\ Read(message) /\ message.kind = "cloud" /\ TimeFields(message) # {}
      /\ UNCHANGED <<imuSamples, lastEstimated>>
      /\ windows' = IF scan = NoScan THEN windows ELSE Append(windows, scan)
  BY DEF ReadTimedCloud
<1>2. scan \in {NoScan} \cup Windows
  BY <1>1, ScanIsAWindow
<1>3. /\ windows \in Seq(Windows)
      /\ tally \in [Counts -> Nat]
  BY DEF EvidenceSound, OfflineType
<1>4. /\ tally' \in [Counts -> Nat]
      /\ scan = NoScan => tally'.withPointTime = tally.withPointTime
  <2>1. CASE scan = NoScan
    BY <1>3, <2>1 DEF ReadTimedCloud, Counts
  <2>2. CASE scan # NoScan
    <3> DEFINE more == [tally EXCEPT
                  !.total = @ + 1, !.estimated = @ + 1, !.withPointTime = @ + 1,
                  !.outliers = IF Duration(scan) > OutlierDuration THEN @ + 1 ELSE @]
    <3>1. tally' = more
      BY <2>2 DEF ReadTimedCloud
    <3>2. more \in [Counts -> Nat]
      <4> DEFINE outliers == IF Duration(scan) > OutlierDuration
                             THEN tally.outliers + 1 ELSE tally.outliers
      <4>1. outliers \in Nat
        BY <1>3 DEF Counts
      <4>2. more = [tally EXCEPT !.total = @ + 1, !.estimated = @ + 1,
                                 !.withPointTime = @ + 1, !.outliers = outliers]
        OBVIOUS
      <4> HIDE DEF outliers, more
      <4>3. /\ more = [count \in Counts |-> more[count]]
            /\ more.total = tally.total + 1 /\ more.estimated = tally.estimated + 1
            /\ more.withPointTime = tally.withPointTime + 1 /\ more.outliers = outliers
        BY <1>3, <4>2 DEF Counts
      <4> QED  BY <1>3, <4>1, <4>3 DEF Counts
    <3> HIDE DEF more, scan
    <3> QED  BY <2>2, <3>1, <3>2
  <2> QED  BY <2>1, <2>2
<1> HIDE DEF scan
<1>5. windows' \in Seq(Windows)
  BY <1>1, <1>2, <1>3, AppendProperties
<1>6. OfflineType'
  BY <1>1, <1>4, <1>5, StaysGiven DEF EvidenceSound, OfflineType
<1>7. BagGaveEvidence'
  <2>1. \A i \in 1 .. Len(imuSamples') : imuSamples'[i] \in ImuOfBag'
    BY <1>1, StaysGiven
  <2>2. tally'.withPointTime # 0 =>
            \E i \in CloudsOfBag' : TimeFields(bag'[i]) # {} /\ PointScan(bag'[i]) # NoScan
    BY <1>1, <1>4, StaysGiven DEF scan
  <2> QED  BY <2>1, <2>2 DEF BagGaveEvidence
<1>8. WindowsAreTheNodes'
  <2>1. AllAlike' => windows' = Selected(NodeScans', WithScan')
    BY <1>1, ReadKeepsNodes DEF EvidenceSound, scan
  <2> QED  BY <2>1, NodesWindowsAfter
<1> QED  BY <1>6, <1>7, <1>8 DEF EvidenceSound

LEMMA ReadPlainCloudKeepsEvidence ==
    ASSUME EvidenceSound, NEW message \in Messages, ReadPlainCloud(message)
    PROVE  EvidenceSound'
<1> DEFINE window == Scan!Estimate(lastEstimated, message.header).window
<1>1. /\ Read(message) /\ message.kind = "cloud" /\ ~ IsReadAlike(message)
      /\ UNCHANGED imuSamples
      /\ windows' = Append(windows, window)
      /\ lastEstimated' = message.header
  BY DEF ReadPlainCloud, IsReadAlike
<1>2. message.header \in Int
  BY <1>1, MessagesAssumption
<1>3. /\ windows \in Seq(Windows) /\ lastEstimated \in Int \cup {NoStamp}
      /\ tally \in [Counts -> Nat]
  BY DEF EvidenceSound, OfflineType
<1>4. window \in Windows
  BY <1>2, <1>3, EstimateIsAWindow
<1> HIDE DEF window
<1>5. /\ tally' \in [Counts -> Nat]
      /\ tally'.withPointTime = tally.withPointTime
  <2> DEFINE more == [tally EXCEPT !.total = @ + 1, !.estimated = @ + 1]
  <2>1. tally' = more
    BY DEF ReadPlainCloud
  <2>2. /\ more = [count \in Counts |-> more[count]]
        /\ more.total = tally.total + 1 /\ more.estimated = tally.estimated + 1
        /\ more.withPointTime = tally.withPointTime /\ more.outliers = tally.outliers
    BY <1>3 DEF Counts
  <2> HIDE DEF more
  <2> QED  BY <1>3, <2>1, <2>2 DEF Counts
<1>6. windows' \in Seq(Windows)
  BY <1>1, <1>3, <1>4, AppendProperties
<1>7. OfflineType'
  BY <1>1, <1>2, <1>5, <1>6, StaysGiven DEF EvidenceSound, OfflineType
<1>8. BagGaveEvidence'
  BY <1>1, <1>5, StaysGiven DEF BagGaveEvidence
<1>9. WindowsAreTheNodes'
  <2>1. AllAlike' => windows' = Selected(NodeScans', WithScan')
    BY <1>1, ReadKeepsNodes DEF EvidenceSound
  <2> QED  BY <2>1, NodesWindowsAfter
<1> QED  BY <1>7, <1>8, <1>9 DEF EvidenceSound

\* Whatever does not read leaves the evidence alone.
LEMMA UnreadKeepsEvidence ==
    ASSUME EvidenceSound, UNCHANGED <<bag, evidence>>
    PROVE  EvidenceSound'
<1>1. UNCHANGED <<bag, imuSamples, lastEstimated, windows, tally>>
  BY DEF evidence
<1>2. OfflineType'
  BY <1>1 DEF EvidenceSound, OfflineType
<1>3. BagGaveEvidence'
  BY <1>1 DEF EvidenceSound, BagGaveEvidence, ImuOfBag, CloudsOfBag
<1>4. WindowsAreTheNodes'
  BY <1>1 DEF EvidenceSound, WindowsAreTheNodes, IsReadAlike, NodeField, CloudsOfBag
<1> QED  BY <1>2, <1>3, <1>4 DEF EvidenceSound

-----------------------------------------------------------------------------
(* The judgement *)

\* The windows the tool counts as faults, and those a mapper cannot use.
NotCovered == {i \in DOMAIN windows : WindowVerdict(windows[i], EdgeTolerance) # "ok"}
NotDeskewable == {i \in DOMAIN windows : ~ IsDeskewable(windows[i])}

\* The coverage report counts the windows that are not covered.
LEMMA FaultsAreCounted ==
    ASSUME EvidenceSound, NEW coverage, coverage = ImuCoverageReport
    PROVE  /\ NotCovered \in SUBSET (DOMAIN windows) /\ IsFiniteSet(NotCovered)
           /\ coverage.total = Len(windows) /\ Len(windows) \in Nat
           /\ coverage.invalid \in Nat /\ coverage.degraded \in Int
           /\ coverage.degraded + coverage.invalid = Cardinality(NotCovered)
<1> DEFINE all == DOMAIN windows
           ok == {i \in all : WindowVerdict(windows[i], EdgeTolerance) = "ok"}
           invalid == {i \in all : WindowVerdict(windows[i], EdgeTolerance) = "invalid_scan_window"}
<1>1. windows \in Seq(Windows)
  BY DEF EvidenceSound, OfflineType
<1>2. /\ Len(windows) \in Nat /\ all = 1 .. Len(windows)
      /\ IsFiniteSet(all) /\ Cardinality(all) = Len(windows)
  <2>1. Len(windows) \in Nat /\ all = 1 .. Len(windows)
    BY <1>1
  <2>2. PICK n \in Nat : n = Len(windows)
    BY <2>1
  <2>3. IsFiniteSet(1 .. n) /\ Cardinality(1 .. n) = n
    BY FS_Interval
  <2> QED  BY <2>1, <2>2, <2>3
<1>3. /\ coverage.total = Len(windows)
      /\ coverage.invalid = Cardinality(invalid)
      /\ coverage.degraded = Len(windows) - Cardinality(ok) - Cardinality(invalid)
  BY DEF ImuCoverageReport
<1>4. /\ ok \in SUBSET all /\ invalid \in SUBSET all /\ NotCovered \in SUBSET all
      /\ NotCovered = all \ ok
  BY DEF NotCovered
<1> HIDE DEF all, ok, invalid
<1>5. /\ IsFiniteSet(ok) /\ IsFiniteSet(invalid) /\ IsFiniteSet(NotCovered)
      /\ Cardinality(ok) \in Nat /\ Cardinality(invalid) \in Nat
  BY <1>2, <1>4, FS_Subset, FS_CardinalityType
<1>6. Cardinality(NotCovered) = Len(windows) - Cardinality(ok)
  <2>1. all \cap ok = ok
    BY <1>4
  <2>2. Cardinality(all \ ok) = Cardinality(all) - Cardinality(all \cap ok)
    BY <1>2, FS_Difference
  <2> QED  BY <1>2, <1>4, <2>1, <2>2
<1> QED  BY <1>2, <1>3, <1>4, <1>5, <1>6 DEF all

\* A covered window can be deskewed, by IMU messages of the bag.
LEMMA CoveredIsDeskewable ==
    ASSUME EvidenceSound
    PROVE  NotDeskewable \subseteq NotCovered
<1> DEFINE stamps == {imuSamples[i] : i \in DOMAIN imuSamples}
<1>1. imuSamples \in Seq(Int) /\ windows \in Seq(Windows)
  BY DEF EvidenceSound, OfflineType
<1>2. EdgeTolerance \in Nat
  BY <1>1, MarginIsANumber
<1>3. stamps \in SUBSET Int
  <2>1. \A i \in DOMAIN imuSamples : imuSamples[i] \in Int
    BY <1>1
  <2> QED  BY <2>1
<1>4. stamps \subseteq ImuOfBag
  <2>1. DOMAIN imuSamples = 1 .. Len(imuSamples)
    BY <1>1
  <2> QED  BY <2>1 DEF EvidenceSound, BagGaveEvidence
<1>5. ASSUME NEW i \in DOMAIN windows, WindowVerdict(windows[i], EdgeTolerance) = "ok"
      PROVE  IsDeskewable(windows[i])
  <2>1. windows[i] \in Windows
    BY <1>1
  <2>2. Coverage(EdgeTolerance)!Analyze(windows[i], stamps) = "ok"
    BY <1>5 DEF WindowVerdict
  <2> HIDE DEF stamps
  <2>3. /\ windows[i].start < windows[i].end
        /\ \A t \in windows[i].start + EdgeTolerance .. windows[i].end - EdgeTolerance :
              \E a, b \in stamps : a <= t /\ t <= b /\ b - a <= MaxInternalGap
    BY <1>2, <1>3, <2>1, <2>2, OkIsCovered
  <2>4. \A t \in windows[i].start + EdgeTolerance .. windows[i].end - EdgeTolerance :
            \E a, b \in ImuOfBag : a <= t /\ t <= b /\ b - a <= MaxInternalGap
    BY <1>4, <2>3
  <2> QED  BY <2>3, <2>4, Zenon DEF IsDeskewable
<1> QED  BY <1>5 DEF NotDeskewable, NotCovered

\* What the cases of BuildDatasetVerdict rule out.
LEMMA DatasetVerdictFacts ==
    ASSUME NEW topicsFound \in BOOLEAN, NEW coverage, NEW judgement,
           judgement = DatasetVerdict(topicsFound, coverage)
    PROVE  /\ judgement.recommended /\ ~ (tally.outliers > 0) =>
                 ~ TooMany(coverage.degraded + coverage.invalid, coverage.total)
           /\ judgement.health = "OK" =>
                 /\ ~ (coverage.degraded + coverage.invalid > 0)
                 /\ tally.withPointTime # 0
BY DEF DatasetVerdict

\* The counts of the report bound the windows that cannot be deskewed.
LEMMA FinishJudges ==
    ASSUME EvidenceSound, Finish
    PROVE  RecommendedScansAreDeskewable' /\ OkScansAreDeskewable'
<1> DEFINE coverage == ImuCoverageReport
<1>1. PICK topicsFound \in BOOLEAN :
          report' = [coverage |-> coverage, verdict |-> DatasetVerdict(topicsFound, coverage)]
  BY Zenon DEF Finish
<1> HIDE DEF coverage
<1>2. PICK judgement : judgement = DatasetVerdict(topicsFound, coverage)
  OBVIOUS
<1>3. report'.verdict = judgement
  BY <1>1, <1>2
<1>4. /\ judgement.recommended /\ ~ (tally.outliers > 0) =>
             ~ TooMany(coverage.degraded + coverage.invalid, coverage.total)
      /\ judgement.health = "OK" =>
             ~ (coverage.degraded + coverage.invalid > 0) /\ tally.withPointTime # 0
  BY <1>2, DatasetVerdictFacts
<1>5. UNCHANGED <<bag, imuSamples, windows, tally>>
  BY DEF Finish, evidence
<1> DEFINE faults == coverage.degraded + coverage.invalid
<1>6. /\ NotCovered \in SUBSET (DOMAIN windows) /\ IsFiniteSet(NotCovered)
      /\ coverage.total = Len(windows) /\ Len(windows) \in Nat
      /\ faults = Cardinality(NotCovered)
  BY FaultsAreCounted DEF coverage
<1> HIDE DEF faults
<1>7. /\ IsFiniteSet(NotDeskewable) /\ Cardinality(NotDeskewable) <= Cardinality(NotCovered)
      /\ Cardinality(NotDeskewable) \in Nat /\ Cardinality(NotCovered) \in Nat
  <2>1. NotDeskewable \in SUBSET NotCovered
    BY CoveredIsDeskewable
  <2> QED  BY <1>6, <2>1, FS_Subset, FS_CardinalityType
<1>8. NotDeskewable' = NotDeskewable /\ Len(windows') = Len(windows) /\ tally'.outliers = tally.outliers
  BY <1>5 DEF NotDeskewable, IsDeskewable, EdgeTolerance, ObservedImuPeriodP95, ImuOfBag
<1>9. RecommendedScansAreDeskewable'
  <2> SUFFICES ASSUME judgement.recommended, tally.outliers = 0
               PROVE  100 * Cardinality(NotDeskewable) < FaultPercent * Len(windows)
    <3>1. RecommendedScansAreDeskewable' <=>
              (Judged' /\ report'.verdict.recommended /\ tally'.outliers = 0 =>
                   100 * Cardinality(NotDeskewable') < FaultPercent * Len(windows'))
      BY DEF RecommendedScansAreDeskewable, NotDeskewable, IsDeskewable
    <3> QED  BY <1>3, <1>8, <3>1
  <2>1. ~ (100 * faults >= FaultPercent * coverage.total)
    BY <1>4 DEF TooMany, faults
  <2>2. PICK limit \in Int : limit = FaultPercent * Len(windows)
    BY <1>6, AnalysisAssumption
  <2>3. ~ (100 * Cardinality(NotCovered) >= limit)
    BY <1>6, <2>1, <2>2
  <2>4. 100 * Cardinality(NotDeskewable) < limit
    BY <1>7, <2>3
  <2> QED  BY <2>2, <2>4
<1>10. OkScansAreDeskewable'
  <2> SUFFICES ASSUME judgement.health = "OK"
               PROVE  /\ \A i \in DOMAIN windows' : IsDeskewable(windows[i])'
                      /\ \E i \in CloudsOfBag' :
                            TimeFields(bag'[i]) # {} /\ PointScan(bag'[i]) # NoScan
    BY <1>3 DEF OkScansAreDeskewable
  <2>1. ~ (faults > 0) /\ tally.withPointTime # 0
    BY <1>4 DEF faults
  <2>2. NotDeskewable = {}
    <3>1. Cardinality(NotDeskewable) = 0
      BY <1>6, <1>7, <2>1
    <3> QED  BY <1>7, <3>1, FS_EmptySet
  <2>3. \A i \in DOMAIN windows' : IsDeskewable(windows[i])'
    BY <1>8, <2>2 DEF NotDeskewable
  <2>4. \E i \in CloudsOfBag' : TimeFields(bag'[i]) # {} /\ PointScan(bag'[i]) # NoScan
    BY <1>5, <2>1 DEF EvidenceSound, BagGaveEvidence, CloudsOfBag
  <2> QED  BY <2>3, <2>4
<1> QED  BY <1>9, <1>10

\* A judgement is made once, when all has been read.
JudgementSound == RecommendedScansAreDeskewable /\ OkScansAreDeskewable

LEMMA JudgedStays ==
    ASSUME JudgementSound, UNCHANGED <<bag, evidence, report>>
    PROVE  JudgementSound'
<1>1. UNCHANGED <<bag, imuSamples, windows, tally, report>>
  BY DEF evidence
<1>2. RecommendedScansAreDeskewable'
  <2>1. NotDeskewable' = NotDeskewable
    BY <1>1 DEF NotDeskewable, IsDeskewable, EdgeTolerance, ObservedImuPeriodP95, ImuOfBag
  <2>2. Judged /\ report.verdict.recommended /\ tally.outliers = 0 =>
            100 * Cardinality(NotDeskewable) < FaultPercent * Len(windows)
    BY DEF JudgementSound, RecommendedScansAreDeskewable, NotDeskewable
  <2>3. Judged' /\ report'.verdict.recommended /\ tally'.outliers = 0 =>
            100 * Cardinality(NotDeskewable') < FaultPercent * Len(windows')
    BY <1>1, <2>1, <2>2 DEF Judged
  <2> QED  BY <2>3 DEF RecommendedScansAreDeskewable, NotDeskewable
<1>3. OkScansAreDeskewable'
  <2>1. \A window : IsDeskewable(window)' <=> IsDeskewable(window)
    BY <1>1 DEF IsDeskewable, EdgeTolerance, ObservedImuPeriodP95, ImuOfBag
  <2>2. ASSUME Judged', report'.verdict.health = "OK"
        PROVE  \A i \in DOMAIN windows' : IsDeskewable(windows[i])'
    BY <1>1, <2>1, <2>2 DEF JudgementSound, OkScansAreDeskewable, Judged
  <2>3. ASSUME Judged', report'.verdict.health = "OK"
        PROVE  \E i \in CloudsOfBag' : TimeFields(bag'[i]) # {} /\ PointScan(bag'[i]) # NoScan
    BY <1>1, <2>3 DEF JudgementSound, OkScansAreDeskewable, Judged, CloudsOfBag
  <2> QED  BY <2>2, <2>3 DEF OkScansAreDeskewable
<1> QED  BY <1>2, <1>3 DEF JudgementSound

LEMMA SoundStep ==
    ASSUME EvidenceSound, JudgementSound, [AnalysisNext]_analysisVars
    PROVE  EvidenceSound' /\ JudgementSound'
<1>1. CASE UNCHANGED <<bag, evidence, report>>
  BY <1>1, UnreadKeepsEvidence, JudgedStays
<1>2. ASSUME NEW message \in Messages, Read(message)
      PROVE  JudgementSound'
  <2>1. ~ Judged'
    BY <1>2 DEF Read, outputs, Judged
  <2> QED  BY <2>1 DEF JudgementSound, RecommendedScansAreDeskewable, OkScansAreDeskewable
<1>3. ASSUME NEW message \in Messages, SkipCorrupt(message)
      PROVE  EvidenceSound' /\ JudgementSound'
  <2>1. Read(message)
    BY <1>3 DEF SkipCorrupt
  <2> QED  BY <1>2, <1>3, <2>1, SkipCorruptKeepsEvidence
<1>4. ASSUME NEW message \in Messages, ReadImu(message)
      PROVE  EvidenceSound' /\ JudgementSound'
  <2>1. Read(message)
    BY <1>4 DEF ReadImu
  <2> QED  BY <1>2, <1>4, <2>1, ReadImuKeepsEvidence
<1>5. ASSUME NEW message \in Messages, ReadTimedCloud(message)
      PROVE  EvidenceSound' /\ JudgementSound'
  <2>1. Read(message)
    BY <1>5 DEF ReadTimedCloud
  <2> QED  BY <1>2, <1>5, <2>1, ReadTimedCloudKeepsEvidence
<1>6. ASSUME NEW message \in Messages, ReadPlainCloud(message)
      PROVE  EvidenceSound' /\ JudgementSound'
  <2>1. Read(message)
    BY <1>6 DEF ReadPlainCloud
  <2> QED  BY <1>2, <1>6, <2>1, ReadPlainCloudKeepsEvidence
<1>7. CASE FailToRead
  BY <1>1, <1>7 DEF FailToRead
<1>8. CASE Finish
  <2>1. UNCHANGED <<bag, evidence>>
    BY <1>8 DEF Finish
  <2> QED  BY <1>8, <2>1, UnreadKeepsEvidence, FinishJudges DEF JudgementSound
<1>9. CASE WriteJson
  BY <1>1, <1>9 DEF WriteJson, FailToOpen, FillFile
<1>10. CASE WriteHtml
  BY <1>1, <1>10 DEF WriteHtml, FailToOpen, FillFile
<1>11. CASE UNCHANGED analysisVars
  BY <1>1, <1>11 DEF analysisVars, outputs
<1> QED  BY <1>3, <1>4, <1>5, <1>6, <1>7, <1>8, <1>9, <1>10, <1>11 DEF AnalysisNext

LEMMA SoundInit ==
    ASSUME AnalysisInit
    PROVE  EvidenceSound /\ JudgementSound
<1>1. OfflineType
  <2>1. [total |-> 0, estimated |-> 0, withPointTime |-> 0, outliers |-> 0]
            = [count \in Counts |-> 0]
    BY DEF Counts
  <2>2. tally \in [Counts -> Nat]
    BY <2>1 DEF AnalysisInit
  <2> QED  BY <2>2 DEF AnalysisInit, OfflineType
<1>2. BagGaveEvidence
  BY DEF AnalysisInit, BagGaveEvidence
<1>3. WindowsAreTheNodes
  <2>1. CloudsOfBag = {} /\ WithScan = {}
    BY DEF AnalysisInit, CloudsOfBag, WithScan
  <2>2. Selected(NodeScans, WithScan) = [n \in 1 .. 0 |-> NodeScans[Nth(WithScan, n)]]
    BY <2>1, FS_EmptySet DEF Selected
  <2>3. Selected(NodeScans, WithScan) = <<>>
    BY <2>2
  <2> QED  BY <2>3, NodesWindows DEF AnalysisInit
<1>4. ~ Judged
  BY DEF AnalysisInit, Judged
<1> QED  BY <1>1, <1>2, <1>3, <1>4
         DEF EvidenceSound, JudgementSound, RecommendedScansAreDeskewable, OkScansAreDeskewable

\* The inductive invariant: the judgement rests on evidence the bag gave.
LEMMA OfflineSound == AnalysisSpec => [](EvidenceSound /\ JudgementSound)
<1>1. AnalysisInit => EvidenceSound /\ JudgementSound
  BY SoundInit
<1>2. EvidenceSound /\ JudgementSound /\ [AnalysisNext]_analysisVars
          => (EvidenceSound /\ JudgementSound)'
  BY SoundStep
<1> QED  BY <1>1, <1>2, PTL DEF AnalysisSpec

\* WindowsAreTheNodes: where both programs choose the same field of every cloud,
\* the tool judges the windows the node extracts, in their order.
THEOREM OfflineWindowsAreTheNodes == AnalysisSpec => []WindowsAreTheNodes
<1>1. EvidenceSound /\ JudgementSound => WindowsAreTheNodes
  BY DEF EvidenceSound
<1> QED  BY <1>1, OfflineSound, PTL

\* RecommendedScansAreDeskewable: a recommended dataset without outliers has
\* fewer scans a mapper cannot deskew than the limit allows.
THEOREM RecommendedDatasetsAreDeskewable == AnalysisSpec => []RecommendedScansAreDeskewable
<1>1. EvidenceSound /\ JudgementSound => RecommendedScansAreDeskewable
  BY DEF JudgementSound
<1> QED  BY <1>1, OfflineSound, PTL

\* OkScansAreDeskewable: every scan of an OK dataset can be deskewed, and the
\* times of some cloud were read from its points.
THEOREM OkDatasetsAreDeskewable == AnalysisSpec => []OkScansAreDeskewable
<1>1. EvidenceSound /\ JudgementSound => OkScansAreDeskewable
  BY DEF JudgementSound
<1> QED  BY <1>1, OfflineSound, PTL


-----------------------------------------------------------------------------
(* What a verdict says *)

\* OK and WARNING allow the map update, so an ERROR level needs a worse health.
LEMMA VerdictFacts ==
    ASSUME NEW v \in Verdicts
    PROVE  /\ v.health \in Statuses
           /\ v.allowed \in BOOLEAN
           /\ v.health \in {"OK", "WARNING"} => v.allowed = TRUE
  <1>1. PICK j \in Judgements :
            v = [health |-> j.health, allowed |-> DecideMapUpdate(j.health, j.blocker).allowed]
    BY DEF Verdicts
  <1> DEFINE health == j.health
             blocker == j.blocker
  <1>3. health \in Statuses /\ blocker \in BOOLEAN
    BY JudgementsAssumption
  <1>4. v = [health |-> health, allowed |-> DecideMapUpdate(health, blocker).allowed]
    BY <1>1
  <1> HIDE DEF health, blocker
  <1>2. DecideMapUpdate(health, blocker).allowed
            = (health \in {"OK", "WARNING"} \/ (health = "DEGRADED" /\ ~blocker))
    BY DEF DecideMapUpdate
  <1> QED BY <1>2, <1>3, <1>4 DEF Statuses

\* What the bridge makes of any two fields.
LEMMA LevelFacts ==
    ASSUME NEW health, NEW allowed \in BOOLEAN
    PROVE  /\ Level(health, allowed) \in {"OK", "WARN", "ERROR"}
           /\ Level(health, allowed) = "OK" <=> health = "OK" /\ allowed
           /\ Level(health, allowed) = "WARN" <=> health = "WARNING" /\ allowed
  BY DEF Level

-----------------------------------------------------------------------------
(* Type correctness *)

MessagesOf == Verdicts \cup {None}
StatusesOf == {[level |-> level, message |-> Message(level)] :
                  level \in {"OK", "WARN", "ERROR", "STALE"}}
QueuesOf == {queue \in Seq(Verdicts) : Len(queue) <= Depth}

\* A queue takes a verdict, and gives one away.
LEMMA QueueFacts ==
    ASSUME NEW queue \in QueuesOf, NEW v \in Verdicts
    PROVE  /\ Queued(queue, v) \in QueuesOf
           /\ queue # <<>> => Head(queue) \in Verdicts /\ Tail(queue) \in QueuesOf
  <1>1. queue \in Seq(Verdicts) /\ Len(queue) \in Nat /\ Len(queue) <= Depth
    BY DEF QueuesOf
  <1>2. queue # <<>> => /\ Head(queue) \in Verdicts
                        /\ Tail(queue) \in Seq(Verdicts)
                        /\ Len(Tail(queue)) = Len(queue) - 1
    BY <1>1, HeadTailProperties
  <1>3. CASE Len(queue) < Depth
    BY <1>1, <1>3, AppendProperties, DepthAssumption DEF Queued, QueuesOf
  <1>4. CASE Len(queue) >= Depth
    <2>1. queue # <<>>
      BY <1>1, <1>4, EmptySeq, DepthAssumption
    <2>2. Queued(queue, v) = Append(Tail(queue), v)
      BY <1>1, <1>4, DepthAssumption DEF Queued
    <2> QED
      BY <1>1, <1>2, <2>1, <2>2, AppendProperties, DepthAssumption DEF QueuesOf
  <1> QED BY <1>1, <1>2, <1>3, <1>4, DepthAssumption DEF QueuesOf

\* BridgeTypeOK in parts the provers need not look into.
BridgeTypes ==
    /\ verdict \in MessagesOf
    /\ unsent \in {<<>>, <<"temporal_health">>, <<"map_update_allowed", "temporal_health">>}
    /\ unsent # <<>> => verdict # None
    /\ held \in [Topics -> MessagesOf]
    /\ underWay \in [Topics -> QueuesOf]
    /\ latest \in [Topics -> MessagesOf]
    /\ status \in {None} \cup StatusesOf

LEMMA BridgeParts == (BridgeTypeOK <=> BridgeTypes) /\ (BridgeTypeOK' <=> BridgeTypes')
  BY DEF BridgeTypeOK, BridgeTypes, MessagesOf, StatusesOf, QueuesOf

LEMMA BridgeInitType == BridgeInit => BridgeTypeOK
  <1>1. <<>> \in QueuesOf
    BY DepthAssumption DEF QueuesOf
  <1> QED BY <1>1, BridgeParts DEF BridgeTypes, BridgeInit, Empty, MessagesOf

\* The next topic is one of the two, and the rest of the topics one of the
\* sequences a callback has still to serve.
LEMMA NextTopic ==
    ASSUME unsent \in {<<>>, <<"temporal_health">>,
                       <<"map_update_allowed", "temporal_health">>},
           unsent # <<>>
    PROVE  /\ Head(unsent) \in Topics
           /\ Tail(unsent) \in {<<>>, <<"temporal_health">>}
  <1>1. CASE unsent = <<"temporal_health">>
    BY <1>1 DEF Topics
  <1>2. CASE unsent = <<"map_update_allowed", "temporal_health">>
    BY <1>2 DEF Topics
  <1> QED BY <1>1, <1>2

\* What the timer of the bridge announces, by the fields it holds.
LEMMA Announced ==
    ASSUME latest \in [Topics -> MessagesOf], PublishDiagnostics
    PROVE  \E level \in {"OK", "WARN", "ERROR", "STALE"} :
              /\ status' = [level |-> level, message |-> Message(level)]
              /\ level # "STALE" =>
                    /\ \A t \in Topics : latest[t] \in Verdicts
                    /\ level = Level(latest["temporal_health"].health,
                                     latest["map_update_allowed"].allowed)
  <1> DEFINE level == IF \E t \in Topics : latest[t] = None THEN "STALE"
                      ELSE Level(latest["temporal_health"].health,
                                 latest["map_update_allowed"].allowed)
  <1>1. status' = [level |-> level, message |-> Message(level)]
    BY DEF PublishDiagnostics
  <1>2. CASE \E t \in Topics : latest[t] = None
    BY <1>1, <1>2
  <1>3. CASE \A t \in Topics : latest[t] # None
    <2>1. \A t \in Topics : latest[t] \in Verdicts
      BY <1>3 DEF MessagesOf
    <2>2. level = Level(latest["temporal_health"].health, latest["map_update_allowed"].allowed)
      BY <1>3
    <2>3. latest["map_update_allowed"].allowed \in BOOLEAN
      BY <2>1, VerdictFacts DEF Topics
    <2>4. level \in {"OK", "WARN", "ERROR"}
      BY <2>2, <2>3, LevelFacts
    <2> HIDE DEF level
    <2> QED BY <1>1, <2>1, <2>2, <2>4
  <1> QED BY <1>2, <1>3

LEMMA BridgeNextType == BridgeTypeOK /\ [BridgeNext]_bridgeVars => BridgeTypeOK'
  <1> SUFFICES ASSUME BridgeTypeOK, [BridgeNext]_bridgeVars PROVE BridgeTypeOK'
    OBVIOUS
  <1> USE BridgeParts DEF BridgeTypes
  <1>1. ASSUME NEW v \in Verdicts, Decide(v) PROVE BridgeTypeOK'
    BY <1>1, NoneAssumption DEF Decide, MessagesOf
  <1>2. CASE PublishNext
    <2>1. verdict \in Verdicts /\ Head(unsent) \in Topics
      BY <1>2, NextTopic DEF PublishNext, MessagesOf
    <2>2. Queued(underWay[Head(unsent)], verdict) \in QueuesOf
      BY <2>1, QueueFacts
    <2>3. verdict \in MessagesOf /\ Tail(unsent) \in {<<>>, <<"temporal_health">>}
      BY <1>2, <2>1, NextTopic DEF PublishNext, MessagesOf
    <2> QED BY <1>2, <2>1, <2>2, <2>3 DEF PublishNext
  <1>3. ASSUME NEW t \in Topics, Lose(t) \/ Deliver(t) PROVE BridgeTypeOK'
    <2>1. underWay[t] # <<>> /\ underWay[t] \in QueuesOf
      BY <1>3 DEF Lose, Deliver
    <2>2. Head(underWay[t]) \in MessagesOf /\ Tail(underWay[t]) \in QueuesOf
      <3>1. \E v : v \in Verdicts
        BY <2>1, HeadTailProperties DEF QueuesOf
      <3> QED BY <2>1, <3>1, QueueFacts DEF MessagesOf
    <2> QED BY <1>3, <2>2 DEF Lose, Deliver
  <1>5. CASE PublishDiagnostics
    <2>1. status' \in StatusesOf
      BY <1>5, Announced DEF StatusesOf
    <2> QED BY <1>5, <2>1 DEF PublishDiagnostics, StatusesOf
  <1>6. CASE MonitorDies
    BY <1>6 DEF MonitorDies, Empty, MessagesOf
  <1>7. CASE UNCHANGED bridgeVars
    BY <1>7 DEF bridgeVars
  <1> QED BY <1>1, <1>2, <1>3, <1>5, <1>6, <1>7 DEF BridgeNext

\* The bridge only ever holds verdicts, and announces one of four levels.
LEMMA BridgeTypeCorrect == BridgeSpec => []BridgeTypeOK
  BY BridgeInitType, BridgeNextType, PTL DEF BridgeSpec

-----------------------------------------------------------------------------
(* What the bridge announces *)

\* Only the timer of the bridge changes what it announced.
LEMMA OnlyTheTimerAnnounces == [BridgeNext]_bridgeVars /\ status' # status => PublishDiagnostics
  BY DEF BridgeNext, Decide, PublishNext, MonitorDies, Lose, Deliver, bridgeVars

\* An OK or WARN is never made up of two verdicts of which one blocks the map
\* update: PublishDiagnostics joins temporal_health and map_update_allowed, and
\* a health that passes for OK or WARN allowed it in its own verdict too.
LEMMA BridgeReassurance == BridgeSpec => NoFalseReassurance
  <1> DEFINE Reassures == status' # status /\ status'.level \in {"OK", "WARN"} =>
                /\ \A t \in Topics : latest[t].allowed
                /\ latest["temporal_health"].health
                      = (IF status'.level = "OK" THEN "OK" ELSE "WARNING")
  <1>1. ASSUME BridgeTypeOK, [BridgeNext]_bridgeVars PROVE Reassures
    <2> SUFFICES ASSUME status' # status, status'.level \in {"OK", "WARN"} PROVE Reassures
      OBVIOUS
    <2>1. PublishDiagnostics
      BY <1>1, OnlyTheTimerAnnounces
    <2>2. latest \in [Topics -> MessagesOf]
      BY <1>1, BridgeParts DEF BridgeTypes
    <2>3. PICK level \in {"OK", "WARN", "ERROR", "STALE"} :
              /\ status' = [level |-> level, message |-> Message(level)]
              /\ level # "STALE" =>
                    /\ \A t \in Topics : latest[t] \in Verdicts
                    /\ level = Level(latest["temporal_health"].health,
                                     latest["map_update_allowed"].allowed)
      BY <2>1, <2>2, Announced
    <2>4. /\ latest["temporal_health"] \in Verdicts /\ latest["map_update_allowed"] \in Verdicts
          /\ level \in {"OK", "WARN"} /\ status'.level = level
      BY <2>3 DEF Topics
    <2>5. /\ latest["map_update_allowed"].allowed = TRUE
          /\ latest["temporal_health"].health = (IF level = "OK" THEN "OK" ELSE "WARNING")
      <3>1. latest["map_update_allowed"].allowed \in BOOLEAN
        BY <2>4, VerdictFacts
      <3> QED BY <2>3, <2>4, <3>1, LevelFacts
    <2>6. latest["temporal_health"].allowed = TRUE
      BY <2>4, <2>5, VerdictFacts
    <2> QED BY <2>4, <2>5, <2>6 DEF Topics
  <1> HIDE DEF Reassures
  <1>2. BridgeTypeOK /\ [BridgeNext]_bridgeVars => [Reassures]_bridgeVars
    BY <1>1
  <1>3. BridgeSpec => [][Reassures]_bridgeVars
    BY <1>2, BridgeTypeCorrect, PTL DEF BridgeSpec
  <1> QED BY <1>3 DEF NoFalseReassurance, Reassures

\* Nor is an ERROR: one of the verdicts was worse than a WARNING.
LEMMA BridgeAlarm == BridgeSpec => NoFalseAlarm
  <1> DEFINE Alarms == status' # status /\ status'.level = "ERROR" =>
                \E t \in Topics : latest[t].health \in {"DEGRADED", "INVALID"}
  <1>1. ASSUME BridgeTypeOK, [BridgeNext]_bridgeVars PROVE Alarms
    <2> SUFFICES ASSUME status' # status, status'.level = "ERROR" PROVE Alarms
      OBVIOUS
    <2>1. PublishDiagnostics
      BY <1>1, OnlyTheTimerAnnounces
    <2>2. latest \in [Topics -> MessagesOf]
      BY <1>1, BridgeParts DEF BridgeTypes
    <2>3. PICK level \in {"OK", "WARN", "ERROR", "STALE"} :
              /\ status' = [level |-> level, message |-> Message(level)]
              /\ level # "STALE" =>
                    /\ \A t \in Topics : latest[t] \in Verdicts
                    /\ level = Level(latest["temporal_health"].health,
                                     latest["map_update_allowed"].allowed)
      BY <2>1, <2>2, Announced
    <2>4. /\ latest["temporal_health"] \in Verdicts /\ latest["map_update_allowed"] \in Verdicts
          /\ level = "ERROR"
      BY <2>3 DEF Topics
    <2>5. latest["map_update_allowed"].allowed = TRUE
             => latest["temporal_health"].health \notin {"OK", "WARNING"}
      <3>1. latest["map_update_allowed"].allowed \in BOOLEAN
        BY <2>4, VerdictFacts
      <3> QED BY <2>3, <2>4, <3>1, LevelFacts
    <2>6. \A v \in Verdicts :
              /\ v.health \in {"DEGRADED", "INVALID"} \/ v.health \in {"OK", "WARNING"}
              /\ v.allowed = TRUE \/ v.health \in {"DEGRADED", "INVALID"}
      BY VerdictFacts DEF Statuses
    <2> QED BY <2>4, <2>5, <2>6 DEF Topics
  <1> HIDE DEF Alarms
  <1>2. BridgeTypeOK /\ [BridgeNext]_bridgeVars => [Alarms]_bridgeVars
    BY <1>1
  <1>3. BridgeSpec => [][Alarms]_bridgeVars
    BY <1>2, BridgeTypeCorrect, PTL DEF BridgeSpec
  <1> QED BY <1>3 DEF NoFalseAlarm, Alarms

-----------------------------------------------------------------------------
(* The report *)


\* Before the rename the output is still the old one; the temporary file
\* belongs to this call from the moment it is opened, and is whole when nothing
\* is left in the buffer or was lost with it.
InCall ==
    /\ pc # "idle" => calls > 0 /\ output = before
    /\ pc \in {"writing", "closing", "renaming"} =>
          temporary \in {Content(calls, TRUE), Content(calls, FALSE)}
    /\ pc = "closing" /\ ~unflushed => temporary = Content(calls, TRUE)
    /\ pc = "renaming" => flushLost \/ temporary = Content(calls, TRUE)

WriterInv ==
    /\ WriterTypeOK
    /\ InCall
    /\ ReaderSeesOldOrNew
    /\ FailureLeavesOutputAlone

\* What a call writes and returns has the right type.
LEMMA CallHasType ==
    ASSUME NEW call \in 1 .. MaxCalls, NEW b \in BOOLEAN
    PROVE  Content(call, b) \in Files /\ [ok |-> b, call |-> call] \in Results
  BY DEF Content, Files, Results

LEMMA WriterInitInv == WriterInit => WriterInv
  <1> SUFFICES ASSUME WriterInit PROVE WriterInv
    OBVIOUS
  <1>1. output \in Files /\ temporary \in Files /\ before \in Files /\ result \in Results
    BY DEF WriterInit, Files, Results
  <1>2. calls \in 0 .. MaxCalls
    BY CallsAssumption DEF WriterInit
  <1>3. /\ pc \in {"idle", "opening", "writing", "closing", "renaming"}
        /\ unflushed \in BOOLEAN /\ flushLost \in BOOLEAN /\ unflushed # TRUE
    BY DEF WriterInit
  <1>4. WriterTypeOK
    BY <1>1, <1>2, <1>3 DEF WriterTypeOK
  <1>5. InCall /\ ReaderSeesOldOrNew /\ FailureLeavesOutputAlone
    BY DEF WriterInit, InCall, ReaderSeesOldOrNew, FailureLeavesOutputAlone
  <1> QED BY <1>4, <1>5 DEF WriterInv

\* The results of earlier calls say nothing of the new one.
LEMMA CallStep == WriterInv /\ Call => WriterInv'
  <1> SUFFICES ASSUME WriterInv, Call PROVE WriterInv'
    OBVIOUS
  <1>1. /\ WriterTypeOK /\ pc = "idle" /\ unflushed = FALSE
        /\ calls' \in 1 .. MaxCalls /\ pc' \in {"idle", "opening"} /\ output' = before'
    BY CallsAssumption DEF WriterInv, WriterTypeOK, Call
  <1>2. [ok |-> FALSE, call |-> calls'] \in Results
    BY <1>1, CallHasType
  <1>3. WriterTypeOK'
    <2>1. calls' \in 0 .. MaxCalls
      BY <1>1, CallsAssumption
    <2>2. result' \in Results /\ unflushed' = FALSE
      BY <1>1, <1>2 DEF Call, WriterTypeOK
    <2> QED BY <1>1, <2>1, <2>2 DEF Call, WriterTypeOK
  <1>4. InCall'
    <2>1. calls' > 0
      BY <1>1, CallsAssumption
    <2> QED BY <1>1, <2>1 DEF InCall
  <1>5. ReaderSeesOldOrNew' /\ FailureLeavesOutputAlone'
    BY <1>1 DEF ReaderSeesOldOrNew, FailureLeavesOutputAlone
  <1> QED BY <1>3, <1>4, <1>5 DEF WriterInv

LEMMA OpenStep == WriterInv /\ Open => WriterInv'
  <1> SUFFICES ASSUME WriterInv, Open PROVE WriterInv'
    OBVIOUS
  <1>1. WriterTypeOK /\ calls \in 1 .. MaxCalls /\ output = before
    BY CallsAssumption DEF WriterInv, InCall, WriterTypeOK, Open
  <1>2. /\ Content(calls, TRUE) \in Files /\ Content(calls, FALSE) \in Files
        /\ [ok |-> FALSE, call |-> calls] \in Results
    BY <1>1, CallHasType
  <1>3. UNCHANGED <<output, before, calls>>
    BY DEF Open
  <1>4. WriterTypeOK'
    BY <1>1, <1>2, <1>3 DEF Open, Return, WriterTypeOK
  <1>5. InCall'
    BY <1>1, <1>3 DEF WriterInv, InCall, WriterTypeOK, Open, Return
  <1>6. ReaderSeesOldOrNew' /\ FailureLeavesOutputAlone'
    BY <1>1, <1>3 DEF ReaderSeesOldOrNew, FailureLeavesOutputAlone
  <1> QED BY <1>4, <1>5, <1>6 DEF WriterInv

LEMMA WriteStep == WriterInv /\ Write => WriterInv'
  <1> SUFFICES ASSUME WriterInv, Write PROVE WriterInv'
    OBVIOUS
  <1>1. WriterTypeOK /\ calls \in 1 .. MaxCalls /\ output = before
    BY CallsAssumption DEF WriterInv, InCall, WriterTypeOK, Write
  <1>2. /\ Content(calls, TRUE) \in Files /\ Content(calls, FALSE) \in Files
        /\ [ok |-> FALSE, call |-> calls] \in Results
    BY <1>1, CallHasType
  <1>3. UNCHANGED <<output, before, calls>>
    BY DEF Write
  <1>4. WriterTypeOK'
    BY <1>1, <1>2, <1>3 DEF Write, Return, WriterTypeOK
  <1>5. InCall'
    BY <1>1, <1>3 DEF WriterInv, InCall, WriterTypeOK, Write, Return
  <1>6. ReaderSeesOldOrNew' /\ FailureLeavesOutputAlone'
    BY <1>1, <1>3 DEF ReaderSeesOldOrNew, FailureLeavesOutputAlone
  <1> QED BY <1>4, <1>5, <1>6 DEF WriterInv

LEMMA CloseStep == WriterInv /\ Close => WriterInv'
  <1> SUFFICES ASSUME WriterInv, Close PROVE WriterInv'
    OBVIOUS
  <1>1. WriterTypeOK /\ calls \in 1 .. MaxCalls /\ output = before
    BY CallsAssumption DEF WriterInv, InCall, WriterTypeOK, Close
  <1>2. /\ Content(calls, TRUE) \in Files /\ Content(calls, FALSE) \in Files
        /\ [ok |-> FALSE, call |-> calls] \in Results
    BY <1>1, CallHasType
  <1>3. UNCHANGED <<output, before, calls>>
    BY DEF Close
  <1>4. WriterTypeOK'
    BY <1>1, <1>2, <1>3 DEF Close, WriterTypeOK
  <1>5. InCall'
    BY <1>1, <1>3 DEF WriterInv, InCall, WriterTypeOK, Close
  <1>6. ReaderSeesOldOrNew' /\ FailureLeavesOutputAlone'
    BY <1>1, <1>3 DEF ReaderSeesOldOrNew, FailureLeavesOutputAlone
  <1> QED BY <1>4, <1>5, <1>6 DEF WriterInv

\* The only step that changes the output.  What it moves there is whole unless
\* a buffer was lost.
LEMMA RenameStep == WriterInv /\ Rename => WriterInv'
  <1> SUFFICES ASSUME WriterInv, Rename PROVE WriterInv'
    OBVIOUS
  <1>1. /\ WriterTypeOK /\ pc = "renaming" /\ calls \in 1 .. MaxCalls /\ output = before /\ ~unflushed
        /\ temporary \in {Content(calls, TRUE), Content(calls, FALSE)}
        /\ flushLost \/ temporary = Content(calls, TRUE)
    <2>1. WriterTypeOK /\ pc = "renaming" /\ calls \in 1 .. MaxCalls /\ ~unflushed
      BY CallsAssumption DEF Rename, WriterInv, InCall, WriterTypeOK
    <2>2. /\ output = before
          /\ temporary \in {Content(calls, TRUE), Content(calls, FALSE)}
          /\ flushLost \/ temporary = Content(calls, TRUE)
      BY <2>1 DEF WriterInv, InCall
    <2> QED BY <2>1, <2>2
  <1>0. [ok |-> TRUE, call |-> calls] \in Results /\ [ok |-> FALSE, call |-> calls] \in Results
    BY <1>1, CallHasType
  <1>2. /\ temporary' = Absent /\ pc' = "idle"
        /\ UNCHANGED <<calls, before, unflushed, flushLost>>
    BY DEF Rename, Return
  <1>3. CASE output' = temporary /\ result' = [ok |-> TRUE, call |-> calls]
    <2>1. WriterTypeOK'
      BY <1>0, <1>1, <1>2, <1>3 DEF WriterTypeOK, Files
    <2>2. ReaderSeesOldOrNew'
      BY <1>1, <1>2, <1>3 DEF ReaderSeesOldOrNew, Content
    <2>3. InCall' /\ FailureLeavesOutputAlone'
      BY <1>2, <1>3 DEF InCall, FailureLeavesOutputAlone
    <2> QED BY <2>1, <2>2, <2>3 DEF WriterInv
  <1>4. CASE UNCHANGED output /\ result' = [ok |-> FALSE, call |-> calls]
    <2>1. WriterTypeOK'
      BY <1>0, <1>1, <1>2, <1>4 DEF WriterTypeOK, Files
    <2>2. ReaderSeesOldOrNew' /\ FailureLeavesOutputAlone' /\ InCall'
      BY <1>1, <1>2, <1>4 DEF ReaderSeesOldOrNew, FailureLeavesOutputAlone, InCall
    <2> QED BY <2>1, <2>2 DEF WriterInv
  <1> QED BY <1>3, <1>4 DEF Rename, Return

LEMMA CrashStep == WriterInv /\ Crash => WriterInv'
  BY CallsAssumption
  DEF Crash, WriterInv, WriterTypeOK, InCall, ReaderSeesOldOrNew, FailureLeavesOutputAlone, Files

LEMMA WriterNextInv == WriterInv /\ [WriterNext]_writerVars => WriterInv'
  <1>1. ASSUME WriterInv, UNCHANGED writerVars PROVE WriterInv'
    <2>1. WriterTypeOK'
      BY <1>1 DEF writerVars, WriterInv, WriterTypeOK
    <2>2. InCall'
      BY <1>1 DEF writerVars, WriterInv, InCall
    <2>3. ReaderSeesOldOrNew' /\ FailureLeavesOutputAlone'
      BY <1>1 DEF writerVars, WriterInv, ReaderSeesOldOrNew, FailureLeavesOutputAlone
    <2> QED BY <2>1, <2>2, <2>3 DEF WriterInv
  <1> QED
    BY <1>1, CallStep, OpenStep, WriteStep, CloseStep, RenameStep, CrashStep DEF WriterNext

\* The invariant the theorems below rest on holds in every reachable state.
LEMMA WriterIndInv == WriterSpec => []WriterInv
  BY WriterInitInv, WriterNextInv, PTL DEF WriterSpec

\* Type correctness, for any number of calls.
LEMMA WriterTypeCorrect == WriterSpec => []WriterTypeOK
  <1>1. WriterInv => WriterTypeOK
    BY DEF WriterInv
  <1> QED BY <1>1, WriterIndInv, PTL

\* WriteTextFileAtomically is atomic to a reader, whatever fails and whenever
\* the process is killed, as long as no buffer is lost at a close.
LEMMA WriterOldOrNew == WriterSpec => []ReaderSeesOldOrNew
  <1>1. WriterInv => ReaderSeesOldOrNew
    BY DEF WriterInv
  <1> QED BY <1>1, WriterIndInv, PTL

\* A call that returned false left the output as it found it.
LEMMA WriterFailure == WriterSpec => []FailureLeavesOutputAlone
  <1>1. WriterInv => FailureLeavesOutputAlone
    BY DEF WriterInv
  <1> QED BY <1>1, WriterIndInv, PTL

\* Only the content of the current call gets to the output, never what an
\* earlier, killed run left at the temporary path.
LEMMA WriterLeftovers == WriterSpec => LeftoversNeverShow
  <1>1. WriterInv /\ [WriterNext]_writerVars => [output' # output => output'.call = calls]_writerVars
    BY DEF WriterInv, InCall, Content, WriterNext, Call, Open, Write, Close, Rename, Return, Crash, writerVars
  <1> QED BY <1>1, WriterIndInv, PTL DEF WriterSpec, LeftoversNeverShow

-----------------------------------------------------------------------------
(* The whole *)

LEMMA InitParts == Init => BridgeInit /\ WriterInit
  BY DEF Init

\* A step of the whole is one of each part, or leaves the part alone.
LEMMA StepParts == Next => [BridgeNext]_bridgeVars /\ [WriterNext]_writerVars
  <1> SUFFICES ASSUME Next PROVE [BridgeNext]_bridgeVars /\ [WriterNext]_writerVars
    OBVIOUS
  <1>1. ASSUME NEW v \in Verdicts, OnLidarReceived(v) \/ OnTimer(v)
        PROVE  BridgeNext /\ UNCHANGED writerVars
    BY <1>1 DEF OnLidarReceived, OnTimer, BridgeNext
  <1>2. Publish => BridgeNext /\ UNCHANGED writerVars
    BY DEF Publish, BridgeNext
  <1>3. WriteReport => UNCHANGED bridgeVars /\ WriterNext
    BY DEF WriteReport, WriterNext
  <1>4. ContinueReport => UNCHANGED bridgeVars /\ WriterNext
    BY DEF ContinueReport, WriterNext
  <1>5. Die => BridgeNext /\ [WriterNext]_writerVars
    BY DEF Die, BridgeNext, WriterNext
  <1>6. Transport => BridgeNext /\ UNCHANGED writerVars
    BY DEF Transport, BridgeNext
  <1> QED BY <1>1, <1>2, <1>3, <1>4, <1>5, <1>6 DEF Next

LEMMA StutterParts == UNCHANGED vars => UNCHANGED bridgeVars /\ UNCHANGED writerVars
  BY DEF vars

\* Topics and report do in the whole what they may do by themselves: the
\* callbacks of the monitor tie them together without a step of their own.
THEOREM PartsAreImplemented == Spec => BridgeSpec /\ WriterSpec
  BY InitParts, StepParts, StutterParts, PTL DEF Spec, BridgeSpec, WriterSpec

\* Hence the bridge and the writer keep their types.
THEOREM TypeCorrect == Spec => [](BridgeTypeOK /\ WriterTypeOK)
  BY PartsAreImplemented, BridgeTypeCorrect, WriterTypeCorrect, PTL

\* PublishDiagnostics makes no OK or WARN of two verdicts of which one forbids
\* the map update, though the monitor may die between two topics and start
\* anew with another verdict.
THEOREM ReassuranceIsTrue == Spec => NoFalseReassurance
  BY PartsAreImplemented, BridgeReassurance, PTL

\* Nor does it make up an ERROR.
THEOREM AlarmIsTrue == Spec => NoFalseAlarm
  BY PartsAreImplemented, BridgeAlarm, PTL

\* WriteTextFileAtomically is atomic to a reader of the monitor's report,
\* whatever fails and whenever the monitor dies, as long as no buffer is lost
\* at a close.
THEOREM OldOrNew == Spec => []ReaderSeesOldOrNew
  BY PartsAreImplemented, WriterOldOrNew, PTL

\* A call that returned false left the report as it found it.
THEOREM FailureIsHarmless == Spec => []FailureLeavesOutputAlone
  BY PartsAreImplemented, WriterFailure, PTL

\* Only the content of the current call gets to the report, never what a
\* killed monitor left at the temporary path.
THEOREM OnlyThisCallShows == Spec => LeftoversNeverShow
  BY PartsAreImplemented, WriterLeftovers, PTL

-----------------------------------------------------------------------------
(* Topics first, then the report *)

\* The topics PublishDiagnosticTopics has already served.
Served == IF unsent = <<>> THEN Topics
          ELSE IF unsent = <<"temporal_health">> THEN {"map_update_allowed"}
          ELSE {}

\* While the monitor is alive, the writers of the topics it has served with its
\* verdict hold that verdict; the report is begun when all do.
InOrder ==
    /\ verdict # None => \A t \in Served : held[t] = verdict
    /\ toReport \/ unsent # <<>> => verdict # None /\ pc = "idle"
    /\ pc # "idle" => verdict # None

LEMMA InitInOrder == Init => InOrder
  BY DEF Init, BridgeInit, WriterInit, InOrder, Served, Topics

LEMMA DecideInOrder ==
    ASSUME BridgeTypeOK, InOrder, NEW v \in Verdicts, OnLidarReceived(v) \/ OnTimer(v)
    PROVE  InOrder'
  <1>1. /\ verdict' = v /\ unsent' = <<"map_update_allowed", "temporal_health">>
        /\ pc = "idle" /\ pc' = pc
    BY DEF OnLidarReceived, OnTimer, Decide, IsIdle, writerVars
  <1>2. Served' = {}
    BY <1>1 DEF Served
  <1>3. verdict' # None
    BY <1>1, NoneAssumption
  <1> QED BY <1>1, <1>2, <1>3 DEF InOrder

LEMMA PublishInOrder ==
    ASSUME BridgeTypeOK, InOrder, Publish
    PROVE  InOrder'
  <1>1. /\ unsent # <<>> /\ held' = [held EXCEPT ![Head(unsent)] = verdict]
        /\ unsent' = Tail(unsent) /\ UNCHANGED <<verdict, pc, toReport>>
    BY DEF Publish, PublishNext, writerVars
  <1>2. held \in [Topics -> MessagesOf]
    BY BridgeParts DEF BridgeTypes
  <1>3. \A t \in Served' : t \in Served \/ t = Head(unsent)
    <2>1. unsent = <<"temporal_health">> \/ unsent = <<"map_update_allowed", "temporal_health">>
      BY <1>1, BridgeParts DEF BridgeTypes
    <2>2. CASE unsent = <<"temporal_health">>
      BY <1>1, <2>2 DEF Served, Topics
    <2>3. CASE unsent = <<"map_update_allowed", "temporal_health">>
      <3>1. unsent' = <<"temporal_health">> /\ Head(unsent) = "map_update_allowed"
        BY <1>1, <2>3
      <3> QED BY <3>1 DEF Served
    <2> QED BY <2>1, <2>2, <2>3
  <1>4. Served' \subseteq Topics
    BY DEF Served, Topics
  <1>5. \A t \in Served' : held'[t] = verdict
    BY <1>1, <1>2, <1>3, <1>4 DEF InOrder
  <1>6. verdict # None /\ pc = "idle"
    BY <1>1 DEF InOrder
  <1> QED BY <1>1, <1>5, <1>6 DEF InOrder

LEMMA ReportInOrder ==
    ASSUME InOrder, WriteReport \/ ContinueReport
    PROVE  InOrder'
  <1>1. UNCHANGED <<verdict, unsent, held>> /\ Served' = Served
    BY DEF WriteReport, ContinueReport, bridgeVars, Served
  <1>2. CASE WriteReport
    <2>1. unsent = <<>> /\ toReport /\ ~toReport'
      BY <1>2 DEF WriteReport
    <2> QED BY <1>1, <2>1 DEF InOrder
  <1>3. CASE ContinueReport
    <2>1. pc # "idle" /\ toReport' = toReport
      BY <1>3 DEF ContinueReport, Open, Write, Close, Rename
    <2>2. ~toReport /\ unsent = <<>> /\ verdict # None
      BY <2>1 DEF InOrder
    <2> QED BY <1>1, <2>1, <2>2 DEF InOrder
  <1> QED BY <1>2, <1>3

LEMMA TransportInOrder ==
    ASSUME InOrder, Transport
    PROVE  InOrder'
  <1>1. UNCHANGED <<verdict, unsent, held, pc, toReport>> /\ Served' = Served
    BY DEF Transport, Lose, Deliver, PublishDiagnostics, writerVars, Served
  <1> QED BY <1>1 DEF InOrder

LEMMA NextInOrder == BridgeTypeOK /\ InOrder /\ [Next]_vars => InOrder'
  <1> SUFFICES ASSUME BridgeTypeOK, InOrder, [Next]_vars PROVE InOrder'
    OBVIOUS
  <1>1. Die => InOrder'
    <2> SUFFICES ASSUME Die PROVE InOrder'
      OBVIOUS
    <2>1. verdict' = None /\ unsent' = <<>> /\ toReport' = FALSE /\ pc' = "idle"
      BY DEF Die, MonitorDies, Crash, writerVars
    <2> QED BY <2>1 DEF InOrder
  <1>2. UNCHANGED vars => InOrder'
    BY DEF vars, bridgeVars, writerVars, InOrder, Served
  <1> QED BY <1>1, <1>2, DecideInOrder, PublishInOrder, ReportInOrder, TransportInOrder
          DEF Next

\* Only the rename of a callback that has served the topics changes the report.
LEMMA OnlyTheRenameShows ==
    ASSUME InOrder, [Next]_vars, output' # output
    PROVE  pc # "idle" /\ ContinueReport
  <1>1. ContinueReport
    BY DEF Next, vars, OnLidarReceived, OnTimer, Publish, WriteReport, Call, Die, Crash,
           Transport, writerVars
  <1> QED BY <1>1 DEF ContinueReport, Open, Write, Close, Rename

\* OnTimer publishes before it writes: when a report becomes visible, the writer
\* of every topic holds the verdict it shows, for every length of the queues,
\* whatever is lost and whenever the monitor was killed before.
THEOREM TopicsComeFirst == Spec => ReportFollowsTopics
  <1> DEFINE Follows == output' # output =>
                /\ unsent = <<>>
                /\ \A t \in Topics : held[t] = verdict
  <1>1. ASSUME InOrder, [Next]_vars PROVE Follows
    <2> SUFFICES ASSUME output' # output PROVE Follows
      OBVIOUS
    <2>1. pc # "idle"
      BY <1>1, OnlyTheRenameShows
    <2>2. unsent = <<>> /\ verdict # None
      BY <1>1, <2>1 DEF InOrder
    <2> QED BY <1>1, <2>2 DEF InOrder, Served
  <1> HIDE DEF Follows
  <1>2. InOrder /\ [Next]_vars => [Follows]_vars
    BY <1>1
  <1>3. Spec => [][Follows]_vars
    BY <1>2, InitInOrder, NextInOrder, TypeCorrect, PTL DEF Spec
  <1> QED BY <1>3 DEF ReportFollowsTopics, Follows
=============================================================================

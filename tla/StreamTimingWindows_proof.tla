---------------------- MODULE StreamTimingWindows_proof ----------------------
(***************************************************************************)
(* What the counters and the verdict of a tracker mean in terms of all     *)
(* messages it has observed, for every stream of stamps and every time the *)
(* window is consumed.                                                     *)
(***************************************************************************)
EXTENDS StreamTimingWindows, SequenceTheorems, TLAPS

\* The tracker has counted the messages and remembers the last stamp, and the
\* last period when it was one that jitter is measured against.
Baselines ==
    /\ tracker.count = Len(log)
    /\ tracker.previousStamp = IF log = <<>> THEN NoStamp ELSE log[Len(log)]
    /\ tracker.previousPeriod = IF IsRegular(Len(log)) THEN Period(Len(log)) ELSE NoStamp

\* The window counters tell what happened to the messages of the window.
WindowIsCounted ==
    /\ tracker.windowReordered > 0 <=> ReorderedInWindow
    /\ tracker.windowGaps > 0 <=> GapInWindow
    /\ \A bound \in Nat : tracker.windowMaxJitter > bound <=> JitterInWindow(bound)

IInv ==
    /\ TypeOK
    /\ LifetimeIsSumOfWindows
    /\ Baselines
    /\ WindowIsCounted

-----------------------------------------------------------------------------
(* One message more *)

\* The stamps of the log, whose last message is now the given one.
LEMMA LogGrows ==
    ASSUME TypeOK, NEW stamp \in Stamps, ObserveMessage(stamp)
    PROVE  /\ Len(log) \in Nat
           /\ Len(log') = Len(log) + 1
           /\ log' \in Seq(Stamps)
           /\ \A i \in 1 .. Len(log) : log'[i] = log[i] /\ log[i] \in Int
           /\ log'[Len(log) + 1] = stamp /\ stamp \in Int
           /\ mark' = mark /\ mark \in 0 .. Len(log)
  <1>1. log \in Seq(Stamps) /\ log' = Append(log, stamp) /\ mark' = mark
    BY DEF TypeOK, ObserveMessage
  <1>2. Len(log) \in Nat /\ \A i \in 1 .. Len(log) : log[i] \in Stamps
    BY <1>1, LenProperties, ElementOfSeq
  <1>3. /\ Len(log') = Len(log) + 1 /\ log' \in Seq(Stamps)
        /\ \A i \in 1 .. Len(log) : log'[i] = log[i]
        /\ log'[Len(log) + 1] = stamp
    BY <1>1, AppendProperties
  <1> QED BY <1>1, <1>2, <1>3, WindowsAssumption DEF TypeOK

\* Nothing changes for the messages before.
LEMMA EarlierStay ==
    ASSUME TypeOK, NEW stamp \in Stamps, ObserveMessage(stamp), NEW i \in 1 .. Len(log)
    PROVE  /\ i > 1 => Period(i)' = Period(i) /\ Period(i) \in Int
           /\ IsRegular(i)' <=> IsRegular(i)
           /\ HasJitter(i)' <=> HasJitter(i)
           /\ HasJitter(i) => Jitter(i)' = Jitter(i)
  <1>1. /\ Len(log) \in Nat
        /\ \A j \in 1 .. Len(log) : log'[j] = log[j] /\ log[j] \in Int
    BY LogGrows
  <1>2. \A j \in 2 .. Len(log) : Period(j)' = Period(j) /\ Period(j) \in Int
    BY <1>1 DEF Period
  <1>3. \A j \in 1 .. Len(log) : IsRegular(j)' <=> IsRegular(j)
    BY <1>1, <1>2 DEF IsRegular
  <1>4. HasJitter(i)' <=> HasJitter(i)
    BY <1>1, <1>3 DEF HasJitter
  <1>5. HasJitter(i) => Jitter(i)' = Jitter(i)
    BY <1>1, <1>2 DEF HasJitter, Jitter
  <1> QED BY <1>1, <1>2, <1>3, <1>4, <1>5

\* What the window shows is what it showed before, or is shown by the message.
LEMMA WindowGrows ==
    ASSUME TypeOK, NEW stamp \in Stamps, ObserveMessage(stamp),
           NEW n, n = Len(log) + 1
    PROVE  /\ ReorderedInWindow' <=> ReorderedInWindow \/ (n > 1 /\ Period(n)' < 0)
           /\ GapInWindow' <=> GapInWindow \/ (n > 1 /\ Period(n)' > GapThreshold)
           /\ \A bound \in Nat :
                 JitterInWindow(bound)' <=>
                    JitterInWindow(bound) \/ (HasJitter(n)' /\ Jitter(n)' > bound)
  <1>1. /\ Window' = Window \cup {n} /\ Window \subseteq 1 .. Len(log)
        /\ n \in Int
    BY LogGrows DEF Window
  <1>2. \A i \in Window :
            /\ i > 1 => Period(i)' = Period(i)
            /\ HasJitter(i)' <=> HasJitter(i)
            /\ HasJitter(i) => Jitter(i)' = Jitter(i)
    BY <1>1, EarlierStay
  <1>3. ReorderedInWindow' <=> ReorderedInWindow \/ (n > 1 /\ Period(n)' < 0)
    BY <1>1, <1>2 DEF ReorderedInWindow
  <1>4. GapInWindow' <=> GapInWindow \/ (n > 1 /\ Period(n)' > GapThreshold)
    BY <1>1, <1>2 DEF GapInWindow
  <1>5. ASSUME NEW bound \in Nat
        PROVE  JitterInWindow(bound)' <=>
                    JitterInWindow(bound) \/ (HasJitter(n)' /\ Jitter(n)' > bound)
    BY <1>1, <1>2 DEF JitterInWindow
  <1> QED BY <1>3, <1>4, <1>5

\* How the message relates to what the tracker remembers of the ones before.
LEMMA LatestMessage ==
    ASSUME TypeOK, Baselines, NEW stamp \in Stamps, ObserveMessage(stamp),
           NEW n, n = Len(log) + 1
    PROVE  /\ n > 1 <=> tracker.previousStamp # NoStamp
           /\ n > 1 => /\ tracker.previousStamp \in Int
                       /\ Period(n)' = stamp - tracker.previousStamp
           /\ HasJitter(n)' <=> /\ IsRegular(n)'
                                /\ tracker.previousPeriod # NoStamp
           /\ HasJitter(n)' => /\ tracker.previousPeriod \in Nat
                               /\ Jitter(n)' = Abs(Period(n)' - tracker.previousPeriod)
  <1>1. /\ Len(log) \in Nat /\ log \in Seq(Stamps)
        /\ \A i \in 1 .. Len(log) : log'[i] = log[i] /\ log[i] \in Int
        /\ log'[n] = stamp /\ stamp \in Int
    BY LogGrows DEF TypeOK
  <1>2. n > 1 <=> log # <<>>
    BY <1>1, EmptySeq
  <1>3. n > 1 => tracker.previousStamp = log[n - 1] /\ log[n - 1] \in Int
    BY <1>1, <1>2 DEF Baselines
  <1>4. n > 1 => Period(n)' = stamp - tracker.previousStamp
    BY <1>1, <1>3 DEF Period
  <1>5. n > 1 <=> tracker.previousStamp # NoStamp
    BY <1>2, <1>3, TrackerAssumption DEF Baselines
  <1>6. n > 1 => (IsRegular(n - 1)' <=> IsRegular(n - 1))
    <2>1. n > 1 => n - 1 \in 1 .. Len(log)
      BY <1>1
    <2> QED BY <2>1, EarlierStay
  <1>7. n > 2 => Period(n - 1)' = Period(n - 1) /\ Period(n - 1) \in Int
    <2>1. n > 2 => n - 1 \in 1 .. Len(log) /\ n - 1 > 1
      BY <1>1
    <2> QED BY <2>1, EarlierStay
  <1>8. /\ IsRegular(n - 1) => n > 2 /\ tracker.previousPeriod = Period(n - 1)
        /\ ~IsRegular(n - 1) => tracker.previousPeriod = NoStamp
    BY <1>1 DEF Baselines, IsRegular
  <1>9. IsRegular(n - 1) <=> tracker.previousPeriod # NoStamp
    BY <1>7, <1>8, TrackerAssumption
  <1>10. HasJitter(n)' <=> IsRegular(n)' /\ tracker.previousPeriod # NoStamp
    <2>1. HasJitter(n)' <=> n > 2 /\ IsRegular(n)' /\ IsRegular(n - 1)'
      BY DEF HasJitter
    <2> QED BY <1>1, <1>6, <1>8, <1>9, <2>1
  <1>11. HasJitter(n)' => /\ tracker.previousPeriod \in Nat
                          /\ Jitter(n)' = Abs(Period(n)' - tracker.previousPeriod)
    <2>1. HasJitter(n)' => n > 2 /\ tracker.previousPeriod = Period(n - 1)'
      BY <1>7, <1>8, <1>9, <1>10
    <2>2. tracker.previousPeriod \in Nat \cup {NoStamp}
      BY DEF TypeOK, Trackers
    <2>3. Jitter(n)' = Abs(Period(n)' - Period(n - 1)')
      BY DEF Jitter
    <2> QED BY <1>10, <2>1, <2>2, <2>3
  <1> QED BY <1>3, <1>4, <1>5, <1>10, <1>11

\* The baseline the message leaves behind.
LEMMA BaselinesAfter ==
    ASSUME TypeOK, NEW stamp \in Stamps, ObserveMessage(stamp), NEW n, n = Len(log) + 1,
           Baselines, tracker'.count = tracker.count + 1, tracker'.previousStamp = stamp,
           tracker'.previousPeriod = IF IsRegular(n)' THEN Period(n)' ELSE NoStamp
    PROVE  Baselines'
  <1>1. Len(log') = n /\ log'[n] = stamp /\ log' # <<>> /\ tracker'.count = n
    BY LogGrows, EmptySeq DEF Baselines
  <1>2. (IsRegular(n)' <=> IsRegular(Len(log))') /\ Period(n)' = Period(Len(log))'
    BY <1>1 DEF IsRegular, Period
  <1> QED BY <1>1, <1>2 DEF Baselines

-----------------------------------------------------------------------------
(* What Observe does to the record, case by case *)

\* The first message of all is only remembered.
LEMMA ObserveFirst ==
    ASSUME tracker \in Trackers, NEW stamp \in Int, tracker.previousStamp = NoStamp
    PROVE  Observe(tracker, stamp)
             = [tracker EXCEPT !.previousStamp = stamp, !.count = @ + 1, !.windowCount = @ + 1]
  BY DEF Observe

\* Any other one is judged by its period.
LEMMA ObserveNext ==
    ASSUME tracker \in Trackers, NEW stamp \in Int, NEW period \in Int,
           tracker.previousStamp \in Int, period = stamp - tracker.previousStamp,
           NEW t, t = Observe(tracker, stamp)
    PROVE  /\ t \in Trackers
           /\ t.previousStamp = stamp
           /\ t.count = tracker.count + 1 /\ t.windowCount = tracker.windowCount + 1
           /\ period < 0 =>
                /\ t.reordered = tracker.reordered + 1
                /\ t.windowReordered = tracker.windowReordered + 1
           /\ period >= 0 =>
                /\ t.reordered = tracker.reordered
                /\ t.windowReordered = tracker.windowReordered
           /\ period > GapThreshold =>
                /\ t.gaps = tracker.gaps + 1
                /\ t.windowGaps = tracker.windowGaps + 1
           /\ period <= GapThreshold =>
                /\ t.gaps = tracker.gaps
                /\ t.windowGaps = tracker.windowGaps
           /\ t.previousPeriod = IF 0 <= period /\ period <= GapThreshold
                                 THEN period ELSE NoStamp
           /\ t.windowMaxJitter =
                IF 0 <= period /\ period <= GapThreshold /\ tracker.previousPeriod # NoStamp
                THEN Larger(tracker.windowMaxJitter, Abs(period - tracker.previousPeriod))
                ELSE tracker.windowMaxJitter
  <1>0. tracker.previousStamp # NoStamp /\ GapThreshold \in Nat
    BY TrackerAssumption
  <1>1. CASE period < 0
    <2>1. t = [OnReordered(tracker) EXCEPT !.previousStamp = stamp, !.count = @ + 1,
                                           !.windowCount = @ + 1]
      BY <1>0, <1>1 DEF Observe, IsReordered
    <2>2. t = [previousStamp |-> stamp, previousPeriod |-> NoStamp,
               count |-> tracker.count + 1,
               reordered |-> tracker.reordered + 1, gaps |-> tracker.gaps,
               windowCount |-> tracker.windowCount + 1,
               windowReordered |-> tracker.windowReordered + 1,
               windowGaps |-> tracker.windowGaps,
               windowMaxJitter |-> tracker.windowMaxJitter]
      BY <2>1 DEF OnReordered, Trackers
    <2>3. t \in Trackers
      BY <2>2 DEF Trackers
    <2> QED BY <1>0, <1>1, <2>2, <2>3
  <1>2. CASE period > GapThreshold
    <2>1. ~(period < 0)
      BY <1>0, <1>2
    <2>2. t = [OnGap(tracker) EXCEPT !.previousStamp = stamp, !.count = @ + 1,
                                     !.windowCount = @ + 1]
      BY <1>0, <1>2, <2>1, Zenon DEF Observe, IsReordered
    <2>3. t = [previousStamp |-> stamp, previousPeriod |-> NoStamp,
               count |-> tracker.count + 1,
               reordered |-> tracker.reordered, gaps |-> tracker.gaps + 1,
               windowCount |-> tracker.windowCount + 1,
               windowReordered |-> tracker.windowReordered,
               windowGaps |-> tracker.windowGaps + 1,
               windowMaxJitter |-> tracker.windowMaxJitter]
      BY <2>2 DEF OnGap, Trackers
    <2>4. t \in Trackers
      BY <2>3 DEF Trackers
    <2> QED BY <1>0, <1>2, <2>1, <2>3, <2>4
  <1>3. CASE 0 <= period /\ period <= GapThreshold
    <2>1. ~(period < 0) /\ ~(period > GapThreshold)
      BY <1>0, <1>3
    <2>2. t = [OnPeriod(tracker, period) EXCEPT !.previousStamp = stamp, !.count = @ + 1,
                                                !.windowCount = @ + 1]
      BY <1>0, <2>1, Zenon DEF Observe, IsReordered
    <2> DEFINE jitter == IF tracker.previousPeriod = NoStamp THEN tracker.windowMaxJitter
                         ELSE Larger(tracker.windowMaxJitter,
                                     Abs(period - tracker.previousPeriod))
    <2>3. jitter \in Nat
      BY DEF Trackers, Larger, Abs
    <2>4. t = [previousStamp |-> stamp, previousPeriod |-> period,
               count |-> tracker.count + 1,
               reordered |-> tracker.reordered, gaps |-> tracker.gaps,
               windowCount |-> tracker.windowCount + 1,
               windowReordered |-> tracker.windowReordered,
               windowGaps |-> tracker.windowGaps,
               windowMaxJitter |-> jitter]
      BY <2>2 DEF OnPeriod, Trackers
    <2> HIDE DEF jitter
    <2>5. t \in Trackers
      BY <1>3, <2>3, <2>4 DEF Trackers
    <2> QED BY <1>3, <2>1, <2>4, <2>5 DEF jitter
  <1> QED BY <1>0, <1>1, <1>2, <1>3

-----------------------------------------------------------------------------
(* The invariant *)

LEMMA InitInv == Init => IInv
  <1> SUFFICES ASSUME Init PROVE IInv
    OBVIOUS
  <1>1. tracker = NewTracker /\ log = <<>> /\ mark = 0 /\ Len(log) = 0
    BY DEF Init
  <1>2. TypeOK
    BY <1>1 DEF Init, TypeOK, NewTracker, Trackers
  <1>3. LifetimeIsSumOfWindows
    BY <1>1 DEF Init, LifetimeIsSumOfWindows, NewTracker
  <1>4. Baselines
    BY <1>1 DEF Baselines, NewTracker, IsRegular
  <1>5. WindowIsCounted
    <2>1. Window = {}
      BY <1>1 DEF Window
    <2> QED BY <1>1, <2>1 DEF WindowIsCounted, NewTracker, ReorderedInWindow, GapInWindow,
                              JitterInWindow
  <1> QED BY <1>2, <1>3, <1>4, <1>5 DEF IInv

\* The larger of two jitters exceeds a bound when one of them does.
LEMMA LargerExceeds ==
    ASSUME NEW a \in Int, NEW b \in Int, NEW bound \in Int
    PROVE  Larger(a, b) > bound <=> a > bound \/ b > bound
  BY DEF Larger

\* The first message: there is no period yet.
LEMMA FirstStep ==
    ASSUME IInv, NEW stamp \in Stamps, ObserveMessage(stamp), tracker.previousStamp = NoStamp
    PROVE  IInv'
  <1>1. PICK n : n = Len(log) + 1
    OBVIOUS
  <1>2. TypeOK /\ Baselines /\ WindowIsCounted /\ LifetimeIsSumOfWindows /\ stamp \in Int
    BY LogGrows DEF IInv
  <1>3. ~(n > 1) /\ Len(log) \in Nat /\ n = 1
    BY <1>1, <1>2, LatestMessage, LogGrows
  <1>4. /\ tracker' = [tracker EXCEPT !.previousStamp = stamp, !.count = @ + 1,
                                      !.windowCount = @ + 1]
        /\ tracker \in Trackers
    BY <1>2, ObserveFirst DEF ObserveMessage, TypeOK
  <1>5. TypeOK'
    <2>1. tracker' = [previousStamp |-> stamp, previousPeriod |-> tracker.previousPeriod,
               count |-> tracker.count + 1,
               reordered |-> tracker.reordered, gaps |-> tracker.gaps,
               windowCount |-> tracker.windowCount + 1,
               windowReordered |-> tracker.windowReordered,
               windowGaps |-> tracker.windowGaps,
               windowMaxJitter |-> tracker.windowMaxJitter]
      BY <1>4 DEF Trackers
    <2>2. tracker' \in Trackers
      BY <1>2, <1>4, <2>1 DEF Trackers
    <2> QED BY <1>2, <2>2, LogGrows DEF TypeOK, ObserveMessage
  <1>6. /\ tracker'.previousStamp = stamp
        /\ tracker'.previousPeriod = tracker.previousPeriod
        /\ tracker'.reordered = tracker.reordered /\ tracker'.gaps = tracker.gaps
        /\ tracker'.windowReordered = tracker.windowReordered
        /\ tracker'.windowGaps = tracker.windowGaps
        /\ tracker'.windowMaxJitter = tracker.windowMaxJitter
        /\ tracker'.count = tracker.count + 1
        /\ tracker'.windowCount = tracker.windowCount + 1
    BY <1>4 DEF Trackers
  <1>7. LifetimeIsSumOfWindows'
    BY <1>2, <1>4, <1>6, SMTT(30) DEF LifetimeIsSumOfWindows, ObserveMessage, TypeOK, Trackers
  <1>8. ~IsRegular(n)'
    BY <1>3 DEF IsRegular
  <1>9. Baselines'
    <2>1. tracker.previousPeriod = NoStamp
      BY <1>1, <1>2, <1>3 DEF Baselines, IsRegular
    <2> QED BY <1>1, <1>2, <1>6, <1>8, <2>1, BaselinesAfter
  <1>10. WindowIsCounted'
    <2>1. ~HasJitter(n)'
      BY <1>3 DEF HasJitter
    <2>2. (ReorderedInWindow' <=> ReorderedInWindow) /\ (GapInWindow' <=> GapInWindow)
      BY <1>1, <1>2, <1>3, WindowGrows
    <2>3. \A bound \in Nat : JitterInWindow(bound)' <=> JitterInWindow(bound)
      BY <1>1, <1>2, <2>1, WindowGrows
    <2> QED BY <1>2, <1>6, <2>2, <2>3 DEF WindowIsCounted
  <1> QED BY <1>5, <1>7, <1>9, <1>10 DEF IInv

\* Any later message, which closes a period.
LEMMA NextStep ==
    ASSUME IInv, NEW stamp \in Stamps, ObserveMessage(stamp), tracker.previousStamp # NoStamp
    PROVE  IInv'
  <1>1. PICK n : n = Len(log) + 1
    OBVIOUS
  <1>2. TypeOK /\ Baselines /\ WindowIsCounted /\ LifetimeIsSumOfWindows /\ stamp \in Int
    BY LogGrows DEF IInv
  <1>3. PICK period \in Int : period = stamp - tracker.previousStamp
    BY <1>1, <1>2, LatestMessage
  <1>4. /\ n > 1 /\ tracker.previousStamp \in Int /\ Period(n)' = period
        /\ HasJitter(n)' <=> IsRegular(n)' /\ tracker.previousPeriod # NoStamp
        /\ HasJitter(n)' => /\ tracker.previousPeriod \in Nat
                            /\ Jitter(n)' = Abs(period - tracker.previousPeriod)
    BY <1>1, <1>2, <1>3, LatestMessage
  <1>5. IsRegular(n)' <=> 0 <= period /\ period <= GapThreshold
    BY <1>3, <1>4 DEF IsRegular
  <1>6. tracker \in Trackers /\ GapThreshold \in Nat
    BY <1>2, TrackerAssumption DEF TypeOK
  <1>7. /\ tracker' \in Trackers
        /\ tracker'.previousStamp = stamp
        /\ tracker'.count = tracker.count + 1 /\ tracker'.windowCount = tracker.windowCount + 1
        /\ period < 0 => /\ tracker'.reordered = tracker.reordered + 1
                         /\ tracker'.windowReordered = tracker.windowReordered + 1
        /\ period >= 0 => /\ tracker'.reordered = tracker.reordered
                          /\ tracker'.windowReordered = tracker.windowReordered
        /\ period > GapThreshold => /\ tracker'.gaps = tracker.gaps + 1
                                    /\ tracker'.windowGaps = tracker.windowGaps + 1
        /\ period <= GapThreshold => /\ tracker'.gaps = tracker.gaps
                                     /\ tracker'.windowGaps = tracker.windowGaps
        /\ tracker'.previousPeriod = IF 0 <= period /\ period <= GapThreshold
                                     THEN period ELSE NoStamp
        /\ tracker'.windowMaxJitter =
             IF 0 <= period /\ period <= GapThreshold /\ tracker.previousPeriod # NoStamp
             THEN Larger(tracker.windowMaxJitter, Abs(period - tracker.previousPeriod))
             ELSE tracker.windowMaxJitter
    <2>1. PICK t : t = Observe(tracker, stamp)
      OBVIOUS
    <2>2. tracker' = t
      BY <2>1 DEF ObserveMessage
    <2> QED BY <1>2, <1>3, <1>4, <1>6, <2>1, <2>2, ObserveNext
  <1>8. TypeOK'
    BY <1>2, <1>7, LogGrows DEF TypeOK, ObserveMessage
  <1>9. LifetimeIsSumOfWindows'
    <2>1. mark' = mark /\ consumed' = consumed
      BY DEF ObserveMessage
    <2>2. /\ consumed.reordered \in Nat /\ consumed.gaps \in Nat /\ mark \in Int
          /\ tracker.windowReordered \in Nat /\ tracker.windowGaps \in Nat
          /\ tracker.windowCount \in Nat
      BY <1>2, <1>6, LogGrows DEF TypeOK, Trackers
    <2>3. tracker'.count = mark' + tracker'.windowCount
      BY <1>2, <1>7, <2>1, <2>2 DEF LifetimeIsSumOfWindows
    <2>4. tracker'.reordered = consumed'.reordered + tracker'.windowReordered
      BY <1>2, <1>3, <1>7, <2>1, <2>2 DEF LifetimeIsSumOfWindows
    <2>5. tracker'.gaps = consumed'.gaps + tracker'.windowGaps
      BY <1>2, <1>3, <1>6, <1>7, <2>1, <2>2 DEF LifetimeIsSumOfWindows
    <2> QED BY <2>3, <2>4, <2>5 DEF LifetimeIsSumOfWindows
  <1>10. Baselines'
    BY <1>1, <1>2, <1>4, <1>5, <1>7, BaselinesAfter
  <1>11. WindowIsCounted'
    <2>1. /\ tracker.windowReordered \in Nat /\ tracker.windowGaps \in Nat
          /\ tracker.windowMaxJitter \in Nat
      BY <1>6 DEF Trackers
    <2>2. tracker'.windowReordered > 0 <=> ReorderedInWindow'
      <3>1. ReorderedInWindow' <=> ReorderedInWindow \/ period < 0
        BY <1>1, <1>2, <1>4, WindowGrows
      <3> QED BY <1>2, <1>3, <1>7, <2>1, <3>1 DEF WindowIsCounted
    <2>3. tracker'.windowGaps > 0 <=> GapInWindow'
      <3>1. GapInWindow' <=> GapInWindow \/ period > GapThreshold
        BY <1>1, <1>2, <1>4, WindowGrows
      <3> QED BY <1>2, <1>3, <1>6, <1>7, <2>1, <3>1 DEF WindowIsCounted
    <2>4. ASSUME NEW bound \in Nat
          PROVE  tracker'.windowMaxJitter > bound <=> JitterInWindow(bound)'
      <3>1. JitterInWindow(bound)' <=>
               JitterInWindow(bound) \/ (HasJitter(n)' /\ Jitter(n)' > bound)
        BY <1>1, <1>2, WindowGrows
      <3>2. tracker.windowMaxJitter > bound <=> JitterInWindow(bound)
        BY <1>2 DEF WindowIsCounted
      <3>3. CASE HasJitter(n)'
        <4>1. Abs(period - tracker.previousPeriod) \in Int
          BY <1>3, <1>4, <3>3 DEF Abs
        <4>2. tracker'.windowMaxJitter
                = Larger(tracker.windowMaxJitter, Abs(period - tracker.previousPeriod))
          BY <1>4, <1>5, <1>7, <3>3
        <4> QED BY <1>4, <2>1, <3>1, <3>2, <3>3, <4>1, <4>2, LargerExceeds
      <3>4. CASE ~HasJitter(n)'
        <4>1. tracker'.windowMaxJitter = tracker.windowMaxJitter
          BY <1>4, <1>5, <1>7, <3>4
        <4> QED BY <3>1, <3>2, <3>4, <4>1
      <3> QED BY <3>3, <3>4
    <2> QED BY <2>2, <2>3, <2>4 DEF WindowIsCounted
  <1> QED BY <1>8, <1>9, <1>10, <1>11 DEF IInv

\* The window is consumed: its counters go to the totals and it is empty.
LEMMA ConsumeStep == IInv /\ ConsumeWindowSummary => IInv'
  <1> SUFFICES ASSUME IInv, ConsumeWindowSummary PROVE IInv'
    OBVIOUS
  <1>1. /\ TypeOK /\ Baselines /\ LifetimeIsSumOfWindows
        /\ tracker \in Trackers /\ Len(log) \in Nat
        /\ log' = log /\ mark' = Len(log)
        /\ consumed' = [reordered |-> consumed.reordered + tracker.windowReordered,
                        gaps      |-> consumed.gaps + tracker.windowGaps]
    BY LenProperties DEF IInv, TypeOK, ConsumeWindowSummary
  <1>2. tracker' = [previousStamp |-> tracker.previousStamp,
                    previousPeriod |-> tracker.previousPeriod,
                    count |-> tracker.count,
                    reordered |-> tracker.reordered, gaps |-> tracker.gaps,
                    windowCount |-> 0, windowReordered |-> 0, windowGaps |-> 0,
                    windowMaxJitter |-> 0]
    BY <1>1 DEF ConsumeWindowSummary, ResetWindow, Trackers
  <1>3. tracker' \in Trackers
    BY <1>1, <1>2 DEF Trackers
  <1>4. TypeOK'
    <2>1. mark' \in 0 .. Len(log')
      BY <1>1
    <2>2. consumed.reordered \in Nat /\ consumed.gaps \in Nat
      BY <1>1 DEF TypeOK
    <2>3. consumed' \in [reordered : Nat, gaps : Nat]
      BY <1>1, <2>2, SMTT(30) DEF Trackers
    <2> QED BY <1>1, <1>3, <2>1, <2>3 DEF TypeOK
  <1>5. LifetimeIsSumOfWindows'
    <2>1. consumed'.reordered = tracker.reordered /\ consumed'.gaps = tracker.gaps
      BY <1>1 DEF LifetimeIsSumOfWindows
    <2>2. /\ tracker.count = Len(log) /\ tracker.count \in Nat
          /\ tracker.reordered \in Nat /\ tracker.gaps \in Nat
      BY <1>1 DEF Baselines, Trackers
    <2> QED BY <1>1, <1>2, <2>1, <2>2 DEF LifetimeIsSumOfWindows
  <1>6. Baselines'
    BY <1>1, <1>2 DEF Baselines, IsRegular, Period
  <1>7. WindowIsCounted'
    <2>1. Window' = {}
      BY <1>1 DEF Window
    <2> QED BY <1>2, <2>1 DEF WindowIsCounted, ReorderedInWindow, GapInWindow, JitterInWindow
  <1> QED BY <1>4, <1>5, <1>6, <1>7 DEF IInv

LEMMA NextInv == IInv /\ [Next]_vars => IInv'
  <1> SUFFICES ASSUME IInv, [Next]_vars PROVE IInv'
    OBVIOUS
  <1>1. ASSUME NEW stamp \in Stamps, ObserveMessage(stamp) PROVE IInv'
    BY <1>1, FirstStep, NextStep
  <1>2. CASE ConsumeWindowSummary
    BY <1>2, ConsumeStep
  <1>3. CASE UNCHANGED vars
    BY <1>3 DEF vars, IInv, TypeOK, LifetimeIsSumOfWindows, Baselines, WindowIsCounted,
                IsRegular, Period, ReorderedInWindow, GapInWindow, JitterInWindow,
                HasJitter, Jitter, Window
  <1> QED BY <1>1, <1>2, <1>3 DEF Next

\* The invariant the theorems below rest on holds in every reachable state.
THEOREM IndInv == Spec => []IInv
  BY InitInv, NextInv, PTL DEF Spec

-----------------------------------------------------------------------------
(* The properties the runs check *)

\* The record of a tracker holds what it should, for any stamps.
THEOREM TypeCorrect == Spec => []TypeOK
  <1>1. IInv => TypeOK
    BY DEF IInv
  <1> QED BY <1>1, IndInv, PTL

\* ConsumeWindowSummary neither loses a fault nor reports it twice.
THEOREM NoFaultIsLost == Spec => []LifetimeIsSumOfWindows
  <1>1. IInv => LifetimeIsSumOfWindows
    BY DEF IInv
  <1> QED BY <1>1, IndInv, PTL

\* EvaluateHealth names the worst thing that happened to the messages of the
\* window, each compared with the one before it, whatever window that was in.
THEOREM VerdictIsHistory == Spec => []VerdictMatchesHistory
  <1>1. IInv => VerdictMatchesHistory
    BY TrackerAssumption DEF IInv, WindowIsCounted, VerdictMatchesHistory, EvaluateHealth
  <1> QED BY <1>1, IndInv, PTL
=============================================================================

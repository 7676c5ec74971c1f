------------------------- MODULE LidarHoldback_proof -------------------------
(***************************************************************************)
(* The safety properties of the holdback queue for every queue limit,      *)
(* every set of stamps and any number of clouds, and that the queue        *)
(* implements CloudLedger.                                                 *)
(***************************************************************************)
EXTENDS LidarHoldback, SequenceTheorems, TLAPS

-----------------------------------------------------------------------------
(* Sequences *)

\* A sequence with one element more.
LEMMA AppendOne ==
    ASSUME NEW S, NEW s \in Seq(S), NEW e \in S
    PROVE  LET t == Append(s, e)
           IN  /\ t \in Seq(S)
               /\ Len(s) \in Nat
               /\ Len(t) = Len(s) + 1
               /\ \A i \in 1 .. Len(s) : t[i] = s[i]
               /\ t[Len(s) + 1] = e
<1>1. QED  BY AppendProperties, LenProperties

\* A queue without its head.
LEMMA PopHead ==
    ASSUME NEW S, NEW q \in Seq(S), q # <<>>
    PROVE  /\ Len(q) \in Nat \ {0}
           /\ Head(q) = q[1] /\ q[1] \in S
           /\ Tail(q) \in Seq(S)
           /\ Len(Tail(q)) = Len(q) - 1
           /\ \A i \in 1 .. Len(Tail(q)) : Tail(q)[i] = q[i + 1]
<1>1. Len(q) \in Nat \ {0}  BY EmptySeq
<1>2. QED  BY <1>1, HeadTailProperties, LenProperties

\* A queue cut back to its limit from the front.
LEMMA CutBack ==
    ASSUME NEW q \in Seq(PendingClouds)
    PROVE  LET d == DropOldest(q)
               x == Excess(q)
           IN  /\ d \in Seq(PendingClouds)
               /\ Len(q) \in Nat /\ x \in 0 .. Len(q)
               /\ Len(d) = Len(q) - x
               /\ Len(d) <= MaxPending
               /\ Len(q) > 0 => Len(d) > 0
               /\ \A i \in 1 .. Len(d) : d[i] = q[i + x]
<1> DEFINE x == Excess(q)
<1>1. Len(q) \in Nat /\ x \in 0 .. Len(q) /\ Len(q) - x <= MaxPending
      /\ (Len(q) > 0 => Len(q) - x > 0)
  BY LenProperties, HoldbackAssumption DEF Excess
<1> HIDE DEF x
<1>2. \A i \in x + 1 .. Len(q) : q[i] \in PendingClouds
  BY <1>1, ElementOfSeq
<1>3. /\ SubSeq(q, x + 1, Len(q)) \in Seq(PendingClouds)
      /\ Len(SubSeq(q, x + 1, Len(q))) =
             IF x + 1 <= Len(q) THEN Len(q) - (x + 1) + 1 ELSE 0
      /\ \A i \in 1 .. Len(q) - (x + 1) + 1 :
             SubSeq(q, x + 1, Len(q))[i] = q[(x + 1) + i - 1]
  <2>1. x + 1 \in Int /\ Len(q) \in Int  BY <1>1
  <2>2. QED  BY <1>2, <2>1, SubSeqProperties
<1>4. DropOldest(q) = SubSeq(q, x + 1, Len(q))  BY DEF DropOldest, x
<1>5. Len(DropOldest(q)) = Len(q) - x  BY <1>1, <1>3, <1>4
<1>6. \A i \in 1 .. Len(DropOldest(q)) : DropOldest(q)[i] = q[i + x]
  <2> TAKE i \in 1 .. Len(DropOldest(q))
  <2>1. i \in 1 .. Len(q) - (x + 1) + 1  BY <1>1, <1>5
  <2>2. (x + 1) + i - 1 = i + x  BY <1>1, <1>5
  <2>3. QED  BY <1>3, <1>4, <2>1, <2>2
<1>7. QED  BY <1>1, <1>3, <1>4, <1>5, <1>6 DEF x

-----------------------------------------------------------------------------
(* The inductive invariant *)

\* A queued cloud has its own ready stamp, and none is queued without holdback.
PendingMatchesArrivals ==
    /\ \A i \in 1 .. Len(pending) :
          /\ pending[i].id <= arrived
          /\ pending[i].ready = readyOf[pending[i].id]
    /\ ~HoldbackEnabled => pending = <<>>

\* A decided cloud is older than any queued one, as long as the ready stamps
\* are monotone: nothing ready is ever queued behind an unready cloud.
DecidedBeforePending ==
    ReadyIsMonotone =>
        \A i \in 1 .. Len(decided), j \in 1 .. Len(pending) : decided[i] < pending[j].id

IInv ==
    /\ TypeOK
    /\ PendingMatchesArrivals
    /\ PendingIsBoundedFifo
    /\ DecidedCloudsWereReady
    /\ LossTakesOldest
    /\ DecidedInArrivalOrder
    /\ DecidedBeforePending
    /\ NoReadyCloudWaits

LEMMA InitInv == Init => IInv
<1> SUFFICES ASSUME Init PROVE IInv  OBVIOUS
<1>1. /\ Len(pending) = 0 /\ Len(decided) = 0 /\ Len(readyOf) = 0
      /\ pending \in Seq(PendingClouds) /\ decided \in Seq(Nat \ {0})
      /\ readyOf \in Seq(ReadyStamps)
  BY EmptySeq DEF Init
<1>2. TypeOK
  <2>1. \A i \in 1 .. Len(decided) : decided[i] <= arrived  BY <1>1
  <2>2. lost \subseteq 1 .. arrived /\ draining \in BOOLEAN
        /\ latestImu \in ImuStamps \cup {NoStamp}
    BY DEF Init
  <2>3. QED  BY <1>1, <2>1, <2>2 DEF TypeOK
<1>3. PendingMatchesArrivals /\ PendingIsBoundedFifo /\ LossTakesOldest
  BY <1>1, HoldbackAssumption DEF Init, PendingMatchesArrivals, PendingIsBoundedFifo, LossTakesOldest
<1>4. DecidedCloudsWereReady /\ DecidedInArrivalOrder /\ DecidedBeforePending /\ NoReadyCloudWaits
  BY <1>1 DEF DecidedCloudsWereReady, DecidedInArrivalOrder, DecidedBeforePending, NoReadyCloudWaits
<1>5. QED  BY <1>2, <1>3, <1>4 DEF IInv

\* The types of the parts the steps take apart.
LEMMA Parts ==
    ASSUME TypeOK
    PROVE  /\ Len(pending) \in Nat /\ Len(decided) \in Nat /\ arrived \in Nat
           /\ \A i \in 1 .. Len(pending) :
                 /\ pending[i] \in PendingClouds
                 /\ pending[i].id \in Nat \ {0}
                 /\ pending[i].ready \in Int
           /\ \A i \in 1 .. Len(decided) : decided[i] \in 1 .. arrived
           /\ \A i \in 1 .. arrived : readyOf[i] \in Int
           /\ latestImu # NoStamp => latestImu \in Int
<1>1. Len(pending) \in Nat /\ Len(decided) \in Nat /\ arrived \in Nat
  BY LenProperties DEF TypeOK, arrived
<1>2. \A i \in 1 .. Len(pending) : pending[i] \in PendingClouds
  BY ElementOfSeq DEF TypeOK
<1>3. \A i \in 1 .. Len(decided) : decided[i] \in Nat \ {0}
  BY ElementOfSeq DEF TypeOK
<1>4. \A i \in 1 .. arrived : readyOf[i] \in ReadyStamps
  BY ElementOfSeq DEF TypeOK, arrived
<1>5. \A i \in 1 .. Len(pending) :
          pending[i].id \in Nat \ {0} /\ pending[i].ready \in Int
  BY <1>2, HoldbackAssumption DEF PendingClouds
<1>6. \A i \in 1 .. Len(decided) : decided[i] \in 1 .. arrived
  BY <1>1, <1>3 DEF TypeOK
<1>7. \A i \in 1 .. arrived : readyOf[i] \in Int
  BY <1>4, HoldbackAssumption
<1>8. latestImu # NoStamp => latestImu \in Int
  BY HoldbackAssumption DEF TypeOK
<1>9. QED  BY <1>1, <1>2, <1>5, <1>6, <1>7, <1>8

-----------------------------------------------------------------------------
(* One lemma per action *)

\* The latest stamp only grows, so what was ready stays ready.
LEMMA ImuStep ==
    ASSUME IInv, NEW stamp \in ImuStamps, OnImuReceived(stamp)
    PROVE  IInv'
<1> USE DEF IInv
<1>1. /\ latestImu' \in ImuStamps \cup {NoStamp} /\ draining' = TRUE
      /\ pending' = pending /\ readyOf' = readyOf /\ decided' = decided
      /\ lost' = lost /\ arrived' = arrived
  BY DEF OnImuReceived, TypeOK, arrived
<1>2. TypeOK'  BY <1>1 DEF TypeOK
<1>3. ASSUME NEW r \in Int, ImuReached(r) PROVE ImuReached(r)'
  <2>1. latestImu \in Int /\ stamp \in Int /\ latestImu >= r
    BY <1>3, Parts, HoldbackAssumption DEF ImuReached
  <2>2. latestImu' = IF stamp > latestImu THEN stamp ELSE latestImu
    BY <1>3 DEF OnImuReceived, ImuReached
  <2>3. latestImu' \in Int /\ latestImu' >= r  BY <2>1, <2>2
  <2>4. QED  BY <2>3, HoldbackAssumption DEF ImuReached
<1>4. DecidedCloudsWereReady'
  <2> SUFFICES ASSUME HoldbackEnabled, NEW i \in 1 .. Len(decided)
               PROVE  ImuReached(readyOf[decided[i]])'
    BY <1>1 DEF DecidedCloudsWereReady
  <2>1. readyOf[decided[i]] \in Int  BY Parts
  <2>2. ImuReached(readyOf[decided[i]])  BY DEF DecidedCloudsWereReady
  <2>3. ImuReached(readyOf[decided[i]])'
    BY <1>1, <1>3, <2>1, <2>2 DEF ImuReached
  <2>4. QED  BY <2>3
<1>5. NoReadyCloudWaits'  BY <1>1 DEF NoReadyCloudWaits
<1>6. PendingMatchesArrivals' /\ PendingIsBoundedFifo' /\ LossTakesOldest'
  BY <1>1 DEF PendingMatchesArrivals, PendingIsBoundedFifo, LossTakesOldest
<1>7. DecidedInArrivalOrder' /\ DecidedBeforePending'
  BY <1>1 DEF DecidedInArrivalOrder, DecidedBeforePending, ReadyIsMonotone
<1>8. QED  BY <1>2, <1>4, <1>5, <1>6, <1>7

\* The head of the queue is older than the rest of it, and ready.
LEMMA DrainStep ==
    ASSUME IInv, ProcessReadyPendingCloud
    PROVE  IInv'
<1> USE DEF IInv
<1> DEFINE c == pending[1].id
<1>1. /\ pending \in Seq(PendingClouds) /\ pending # <<>>
      /\ pending' = Tail(pending) /\ decided' = Append(decided, Head(pending).id)
      /\ latestImu' = latestImu /\ draining' = draining /\ draining = TRUE
      /\ readyOf' = readyOf /\ lost' = lost /\ arrived' = arrived
      /\ ImuReached(Head(pending).ready)
  BY DEF ProcessReadyPendingCloud, HeadIsReady, TypeOK, arrived
<1>2. /\ Len(pending) \in Nat \ {0} /\ Head(pending) = pending[1]
      /\ pending' \in Seq(PendingClouds) /\ Len(pending') = Len(pending) - 1
      /\ \A i \in 1 .. Len(pending') : pending'[i] = pending[i + 1]
  BY <1>1, PopHead
<1>3. 1 \in 1 .. Len(pending) /\ c \in Nat \ {0} /\ c <= arrived
      /\ pending[1].ready = readyOf[c]
  BY <1>2, Parts DEF PendingMatchesArrivals
<1>4. /\ decided' \in Seq(Nat \ {0}) /\ Len(decided) \in Nat
      /\ Len(decided') = Len(decided) + 1
      /\ \A i \in 1 .. Len(decided) : decided'[i] = decided[i]
      /\ decided'[Len(decided) + 1] = c
  <2>1. decided' = Append(decided, c)  BY <1>1, <1>2
  <2>2. decided \in Seq(Nat \ {0})  BY DEF TypeOK
  <2> HIDE DEF c
  <2>3. QED  BY <1>3, <2>1, <2>2, AppendOne
<1> HIDE DEF c
<1>5. \A i \in 1 .. Len(pending') :
          /\ i + 1 \in 1 .. Len(pending)
          /\ pending'[i] = pending[i + 1]
          /\ c < pending[i + 1].id
  <2>1. \A i \in 1 .. Len(pending') : i + 1 \in 1 .. Len(pending) /\ 1 < i + 1
    BY <1>2
  <2>2. QED  BY <1>2, <1>3, <2>1 DEF PendingIsBoundedFifo, c
<1>6. TypeOK'
  <2>1. \A i \in 1 .. Len(decided') : decided'[i] <= arrived'
    <3>1. \A i \in 1 .. Len(decided) : decided[i] <= arrived  BY DEF TypeOK
    <3>2. QED  BY <1>1, <1>3, <1>4, <3>1
  <2>2. QED  BY <1>1, <1>2, <1>4, <2>1 DEF TypeOK
<1>7. PendingMatchesArrivals'
  BY <1>1, <1>5 DEF PendingMatchesArrivals
<1>8. PendingIsBoundedFifo'
  <2>1. Len(pending') <= MaxPending
    BY <1>2, HoldbackAssumption DEF PendingIsBoundedFifo
  <2>2. ASSUME NEW i \in 1 .. Len(pending'), NEW j \in 1 .. Len(pending'), i < j
        PROVE  pending'[i].id < pending'[j].id
    <3>1. i + 1 < j + 1  BY <1>2, <2>2
    <3>2. QED  BY <1>5, <3>1 DEF PendingIsBoundedFifo
  <2>3. QED  BY <2>1, <2>2 DEF PendingIsBoundedFifo
<1>9. DecidedCloudsWereReady'
  <2>1. HoldbackEnabled => \A i \in 1 .. Len(decided') : ImuReached(readyOf[decided'[i]])
    <3>1. ImuReached(readyOf[c])  BY <1>1, <1>2, <1>3
    <3>2. QED  BY <1>4, <3>1 DEF DecidedCloudsWereReady
  <2>2. QED  BY <1>1, <2>1 DEF DecidedCloudsWereReady, ImuReached
<1>10. LossTakesOldest'
  BY <1>1, <1>5 DEF LossTakesOldest
<1>11. DecidedInArrivalOrder'
  <2> SUFFICES ASSUME ReadyIsMonotone, NEW i \in 1 .. Len(decided'),
                      NEW j \in 1 .. Len(decided'), i < j
               PROVE  decided'[i] < decided'[j]
    BY <1>1 DEF DecidedInArrivalOrder, ReadyIsMonotone
  <2>1. CASE j \in 1 .. Len(decided)
    <3>1. i \in 1 .. Len(decided)  BY <1>4, <2>1
    <3>2. QED  BY <1>4, <2>1, <3>1 DEF DecidedInArrivalOrder
  <2>2. CASE j = Len(decided) + 1
    <3>1. i \in 1 .. Len(decided)  BY <1>4, <2>2
    <3>2. decided[i] < pending[1].id  BY <1>3, <3>1 DEF DecidedBeforePending
    <3>3. QED  BY <1>4, <2>2, <3>1, <3>2 DEF c
  <2>3. QED  BY <1>4, <2>1, <2>2
<1>12. DecidedBeforePending'
  <2> SUFFICES ASSUME ReadyIsMonotone, NEW i \in 1 .. Len(decided'),
                      NEW j \in 1 .. Len(pending')
               PROVE  decided'[i] < pending'[j].id
    BY <1>1 DEF DecidedBeforePending, ReadyIsMonotone
  <2>1. CASE i \in 1 .. Len(decided)
    BY <1>4, <1>5, <2>1 DEF DecidedBeforePending
  <2>2. CASE i = Len(decided) + 1  BY <1>4, <1>5, <2>2
  <2>3. QED  BY <1>4, <2>1, <2>2
<1>13. NoReadyCloudWaits'  BY <1>1 DEF NoReadyCloudWaits
<1>14. QED
  BY <1>6, <1>7, <1>8, <1>9, <1>10, <1>11, <1>12, <1>13

\* Under monotone ready stamps an unready head means an unready queue.
LEMMA UnreadyHead ==
    ASSUME IInv, ~HeadIsReady, ReadyIsMonotone, NEW i \in 1 .. Len(pending)
    PROVE  ~ImuReached(pending[i].ready)
<1> USE DEF IInv
<1>1. pending \in Seq(PendingClouds) /\ pending # <<>> /\ 1 \in 1 .. Len(pending)
  <2>1. pending \in Seq(PendingClouds) /\ Len(pending) \in Nat /\ 1 \in 1 .. Len(pending)
    BY Parts DEF TypeOK
  <2>2. QED  BY <2>1, EmptySeq
<1>2. ~ImuReached(pending[1].ready)  BY <1>1, PopHead DEF HeadIsReady
<1>3. pending[1].ready <= pending[i].ready
  <2>1. pending[1].id \in 1 .. arrived /\ pending[i].id \in 1 .. arrived
    BY <1>1, Parts DEF PendingMatchesArrivals
  <2>2. pending[1].ready = readyOf[pending[1].id] /\ pending[i].ready = readyOf[pending[i].id]
    BY <1>1 DEF PendingMatchesArrivals
  <2>3. CASE i = 1  BY <1>1, <2>3, Parts
  <2>4. CASE 1 < i
    <3>1. pending[1].id < pending[i].id  BY <1>1, <2>4 DEF PendingIsBoundedFifo
    <3>2. QED  BY <2>1, <2>2, <3>1 DEF ReadyIsMonotone, arrived
  <2>5. QED  BY <2>3, <2>4
<1>4. pending[1].ready \in Int /\ pending[i].ready \in Int
      /\ (latestImu # NoStamp => latestImu \in Int)
  BY <1>1, Parts
<1>5. QED  BY <1>2, <1>3, <1>4 DEF ImuReached

LEMMA FinishStep ==
    ASSUME IInv, FinishDraining
    PROVE  IInv'
<1> USE DEF IInv
<1>1. /\ UNCHANGED <<latestImu, pending, readyOf, decided, lost>>
      /\ arrived' = arrived /\ draining' \in BOOLEAN /\ ~HeadIsReady
  BY DEF FinishDraining, arrived
<1>2. TypeOK'  BY <1>1 DEF TypeOK
<1>3. NoReadyCloudWaits'
  BY <1>1, UnreadyHead DEF NoReadyCloudWaits, ReadyIsMonotone, ImuReached
<1>4. PendingMatchesArrivals' /\ PendingIsBoundedFifo' /\ LossTakesOldest'
  BY <1>1 DEF PendingMatchesArrivals, PendingIsBoundedFifo, LossTakesOldest
<1>5. DecidedCloudsWereReady' /\ DecidedInArrivalOrder' /\ DecidedBeforePending'
  BY <1>1 DEF DecidedCloudsWereReady, DecidedInArrivalOrder, DecidedBeforePending,
              ReadyIsMonotone, ImuReached
<1>6. QED  BY <1>2, <1>3, <1>4, <1>5

\* What an arrival does to the history of ready stamps.
LEMMA Arrival ==
    ASSUME TypeOK, NEW ready \in ReadyStamps, OnLidarReceived(ready)
    PROVE  /\ readyOf' \in Seq(ReadyStamps)
           /\ arrived' = arrived + 1
           /\ \A c \in 1 .. arrived : readyOf'[c] = readyOf[c]
           /\ readyOf'[arrived + 1] = ready
           /\ ReadyIsMonotone' =>
                  ReadyIsMonotone /\ \A c \in 1 .. arrived : readyOf[c] <= ready
<1>1. /\ readyOf \in Seq(ReadyStamps) /\ readyOf' = Append(readyOf, ready)
  BY DEF OnLidarReceived, TypeOK
<1>2. /\ readyOf' \in Seq(ReadyStamps) /\ arrived \in Nat /\ arrived' = arrived + 1
      /\ \A c \in 1 .. arrived : readyOf'[c] = readyOf[c]
      /\ readyOf'[arrived + 1] = ready
  BY <1>1, AppendOne DEF arrived
<1>3. ASSUME ReadyIsMonotone'
      PROVE  ReadyIsMonotone /\ \A c \in 1 .. arrived : readyOf[c] <= ready
  <2>1. \A i, j \in 1 .. arrived + 1 : i < j => readyOf'[i] <= readyOf'[j]
    BY <1>2, <1>3 DEF ReadyIsMonotone, arrived
  <2>2. \A i, j \in 1 .. arrived : i < j => readyOf[i] <= readyOf[j]
    <3> TAKE i, j \in 1 .. arrived
    <3>1. i \in 1 .. arrived + 1 /\ j \in 1 .. arrived + 1  BY <1>2
    <3>2. QED  BY <1>2, <2>1, <3>1
  <2>3. \A c \in 1 .. arrived : readyOf[c] <= ready
    <3> TAKE c \in 1 .. arrived
    <3>1. c \in 1 .. arrived + 1 /\ arrived + 1 \in 1 .. arrived + 1 /\ c < arrived + 1
      BY <1>2
    <3>2. QED  BY <1>2, <2>1, <3>1
  <2>4. QED  BY <2>2, <2>3 DEF ReadyIsMonotone, arrived
<1>4. QED  BY <1>2, <1>3

\* With monotone ready stamps a cloud that is ready finds the queue empty.
LEMMA AtOnceStep ==
    ASSUME IInv, NEW ready \in ReadyStamps, OnLidarReceived(ready), ProcessAtOnce(ready)
    PROVE  IInv'
<1> USE DEF IInv
<1> DEFINE c == arrived + 1
<1>1. /\ ~draining /\ draining' = draining /\ latestImu' = latestImu
      /\ pending' = pending /\ lost' = lost
      /\ decided' = Append(decided, c)
      /\ HoldbackEnabled => ImuReached(ready)
  BY DEF OnLidarReceived, ProcessAtOnce
<1>2. /\ readyOf' \in Seq(ReadyStamps) /\ arrived' = c
      /\ \A k \in 1 .. arrived : readyOf'[k] = readyOf[k]
      /\ readyOf'[c] = ready
      /\ ReadyIsMonotone' =>
             ReadyIsMonotone /\ \A k \in 1 .. arrived : readyOf[k] <= ready
  BY Arrival
<1>3. arrived \in Nat /\ c \in Nat \ {0} /\ arrived < c /\ ready \in Int
  BY Parts, HoldbackAssumption
<1> HIDE DEF c
<1>4. /\ decided' \in Seq(Nat \ {0}) /\ Len(decided) \in Nat
      /\ Len(decided') = Len(decided) + 1
      /\ \A i \in 1 .. Len(decided) : decided'[i] = decided[i]
      /\ decided'[Len(decided) + 1] = c
  BY <1>1, <1>3, AppendOne DEF TypeOK
<1>5. \A i \in 1 .. Len(decided) : decided[i] \in 1 .. arrived  BY Parts
<1>6. TypeOK'
  <2>1. ASSUME NEW i \in 1 .. Len(decided') PROVE decided'[i] <= arrived'
    <3>1. CASE i \in 1 .. Len(decided)
      <4>1. decided'[i] \in 1 .. arrived  BY <1>4, <1>5, <3>1
      <4>2. QED  BY <1>2, <1>3, <4>1
    <3>2. CASE i = Len(decided) + 1  BY <1>2, <1>3, <1>4, <3>2
    <3>3. QED  BY <1>4, <3>1, <3>2
  <2>2. lost' \subseteq 1 .. arrived'  BY <1>1, <1>2, <1>3 DEF TypeOK
  <2>3. QED  BY <1>1, <1>2, <1>4, <2>1, <2>2 DEF TypeOK
<1>7. PendingMatchesArrivals'
  <2>1. \A i \in 1 .. Len(pending) : pending[i].id \in 1 .. arrived
    BY Parts DEF PendingMatchesArrivals
  <2>2. QED  BY <1>1, <1>2, <1>3, <2>1, SMTT(30) DEF PendingMatchesArrivals
<1>8. PendingIsBoundedFifo' /\ LossTakesOldest'
  BY <1>1 DEF PendingIsBoundedFifo, LossTakesOldest
<1>9. DecidedCloudsWereReady'
  <2>1. ASSUME HoldbackEnabled, NEW i \in 1 .. Len(decided')
        PROVE  ImuReached(readyOf'[decided'[i]])
    <3>1. CASE i \in 1 .. Len(decided)
      BY <1>2, <1>4, <1>5, <2>1, <3>1 DEF DecidedCloudsWereReady
    <3>2. CASE i = Len(decided) + 1  BY <1>1, <1>2, <1>4, <2>1, <3>2
    <3>3. QED  BY <1>4, <3>1, <3>2
  <2>2. QED  BY <1>1, <2>1 DEF DecidedCloudsWereReady, ImuReached
<1>10. ReadyIsMonotone' => pending = <<>>
  <2> SUFFICES ASSUME ReadyIsMonotone', pending # <<>> PROVE FALSE  OBVIOUS
  <2>1. HoldbackEnabled  BY DEF PendingMatchesArrivals
  <2>2. 1 \in 1 .. Len(pending)  BY EmptySeq DEF TypeOK
  <2>3. ~ImuReached(pending[1].ready)  BY <1>1, <1>2, <2>2 DEF NoReadyCloudWaits
  <2>4. pending[1].ready <= ready /\ pending[1].ready \in Int
    BY <1>2, <2>2, Parts, SMTT(30) DEF PendingMatchesArrivals
  <2>5. ImuReached(ready) /\ (latestImu # NoStamp => latestImu \in Int)
    BY <1>1, <2>1, Parts
  <2>6. QED  BY <1>3, <2>3, <2>4, <2>5 DEF ImuReached
<1>11. DecidedInArrivalOrder'
  <2> SUFFICES ASSUME ReadyIsMonotone', NEW i \in 1 .. Len(decided'),
                      NEW j \in 1 .. Len(decided'), i < j
               PROVE  decided'[i] < decided'[j]
    BY DEF DecidedInArrivalOrder
  <2>1. i \in 1 .. Len(decided)  BY <1>4
  <2>2. CASE j \in 1 .. Len(decided)
    BY <1>2, <1>4, <2>1, <2>2 DEF DecidedInArrivalOrder
  <2>3. CASE j = Len(decided) + 1  BY <1>3, <1>4, <1>5, <2>1, <2>3
  <2>4. QED  BY <1>4, <2>2, <2>3
<1>12. DecidedBeforePending' /\ NoReadyCloudWaits'
  <2>1. ReadyIsMonotone' => Len(pending') = 0  BY <1>1, <1>10
  <2>2. QED  BY <2>1 DEF DecidedBeforePending, NoReadyCloudWaits
<1>13. QED
  BY <1>6, <1>7, <1>8, <1>9, <1>11, <1>12

\* The queue before it is cut back: the pending clouds and the new one.
Queue(ready) == Append(pending, [id |-> arrived + 1, ready |-> ready])

LEMMA QueueFacts ==
    ASSUME IInv, NEW ready \in ReadyStamps
    PROVE  /\ Queue(ready) \in Seq(PendingClouds)
           /\ Len(pending) \in Nat
           /\ Len(Queue(ready)) = Len(pending) + 1
           /\ \A i \in 1 .. Len(pending) : Queue(ready)[i] = pending[i]
           /\ Queue(ready)[Len(pending) + 1] = [id |-> arrived + 1, ready |-> ready]
           /\ \A i, j \in 1 .. Len(pending) + 1 :
                  i < j => Queue(ready)[i].id < Queue(ready)[j].id
           /\ \A i \in 1 .. Len(pending) + 1 : Queue(ready)[i].id \in 1 .. arrived + 1
<1> DEFINE e == [id |-> arrived + 1, ready |-> ready]
<1>1. pending \in Seq(PendingClouds) /\ arrived \in Nat
      /\ \A i \in 1 .. Len(pending) : pending[i].id \in 1 .. arrived
  BY Parts DEF IInv, TypeOK, PendingMatchesArrivals
<1>2. e \in PendingClouds /\ e.id = arrived + 1  BY <1>1 DEF PendingClouds
<1> HIDE DEF e
<1>3. /\ Queue(ready) \in Seq(PendingClouds) /\ Len(pending) \in Nat
      /\ Len(Queue(ready)) = Len(pending) + 1
      /\ \A i \in 1 .. Len(pending) : Queue(ready)[i] = pending[i]
      /\ Queue(ready)[Len(pending) + 1] = e
  <2>1. Queue(ready) = Append(pending, e)  BY DEF Queue, e
  <2>2. QED  BY <1>1, <1>2, <2>1, AppendOne
<1>4. \A i \in 1 .. Len(pending) + 1 : Queue(ready)[i].id \in 1 .. arrived + 1
  <2> TAKE i \in 1 .. Len(pending) + 1
  <2>1. CASE i \in 1 .. Len(pending)  BY <1>1, <1>3, <2>1
  <2>2. CASE i = Len(pending) + 1  BY <1>1, <1>2, <1>3, <2>2
  <2>3. QED  BY <1>3, <2>1, <2>2
<1>5. ASSUME NEW i \in 1 .. Len(pending) + 1, NEW j \in 1 .. Len(pending) + 1, i < j
      PROVE  Queue(ready)[i].id < Queue(ready)[j].id
  <2>1. i \in 1 .. Len(pending)  BY <1>3, <1>5
  <2>2. CASE j \in 1 .. Len(pending)
    BY <1>3, <1>5, <2>1, <2>2 DEF IInv, PendingIsBoundedFifo
  <2>3. CASE j = Len(pending) + 1  BY <1>1, <1>2, <1>3, <2>1, <2>3
  <2>4. QED  BY <1>3, <2>2, <2>3
<1>6. QED  BY <1>3, <1>4, <1>5 DEF e

\* A queued cloud is younger than all the others; what the cut takes is older
\* than what it leaves.
LEMMA HoldBackStep ==
    ASSUME IInv, NEW ready \in ReadyStamps, OnLidarReceived(ready), HoldBack(ready)
    PROVE  IInv'
<1> USE DEF IInv
<1> DEFINE q == Queue(ready)
           x == Excess(q)
<1>1. /\ ~draining /\ draining' = draining /\ latestImu' = latestImu
      /\ decided' = decided /\ HoldbackEnabled /\ ~ImuReached(ready)
      /\ pending' = DropOldest(q)
      /\ lost' = lost \cup (Ids(q) \ Ids(pending'))
  BY DEF OnLidarReceived, HoldBack, Queue
<1>2. /\ readyOf' \in Seq(ReadyStamps) /\ arrived' = arrived + 1
      /\ \A c \in 1 .. arrived : readyOf'[c] = readyOf[c]
      /\ readyOf'[arrived + 1] = ready
      /\ ReadyIsMonotone' =>
             ReadyIsMonotone /\ \A c \in 1 .. arrived : readyOf[c] <= ready
  BY Arrival
<1>3. /\ q \in Seq(PendingClouds) /\ Len(pending) \in Nat /\ Len(q) = Len(pending) + 1
      /\ \A i \in 1 .. Len(pending) : q[i] = pending[i]
      /\ q[Len(pending) + 1] = [id |-> arrived + 1, ready |-> ready]
      /\ \A i, j \in 1 .. Len(pending) + 1 : i < j => q[i].id < q[j].id
      /\ \A i \in 1 .. Len(pending) + 1 : q[i].id \in 1 .. arrived + 1
  BY QueueFacts
<1> HIDE DEF q
<1>4. /\ pending' \in Seq(PendingClouds)
      /\ x \in 0 .. Len(q) /\ Len(pending') = Len(q) - x
      /\ Len(pending') <= MaxPending
      /\ \A i \in 1 .. Len(pending') : pending'[i] = q[i + x]
  BY <1>1, <1>3, CutBack
<1> HIDE DEF x
<1>5. /\ arrived \in Nat
      /\ \A i \in 1 .. Len(pending') : i + x \in 1 .. Len(pending) + 1
  BY <1>3, <1>4, Parts
<1>6. \A i \in 1 .. Len(pending) + 1 : q[i].ready = readyOf'[q[i].id]
  <2> TAKE i \in 1 .. Len(pending) + 1
  <2>1. CASE i \in 1 .. Len(pending)
    <3>1. pending[i].id \in 1 .. arrived /\ pending[i].ready = readyOf[pending[i].id]
      BY <2>1, Parts DEF PendingMatchesArrivals
    <3>2. QED  BY <1>2, <1>3, <2>1, <3>1
  <2>2. CASE i = Len(pending) + 1  BY <1>2, <1>3, <2>2
  <2>3. QED  BY <1>3, <2>1, <2>2
<1>7. ASSUME NEW c \in lost' PROVE c \in 1 .. arrived + 1 /\
          \A i \in 1 .. Len(pending') : c < pending'[i].id
  <2>1. CASE c \in lost
    <3>1. c \in 1 .. arrived  BY <2>1 DEF TypeOK
    <3>2. \A i \in 1 .. Len(pending) + 1 : c < q[i].id
      <4> TAKE i \in 1 .. Len(pending) + 1
      <4>1. CASE i \in 1 .. Len(pending)  BY <1>3, <2>1, <4>1 DEF LossTakesOldest
      <4>2. CASE i = Len(pending) + 1  BY <1>3, <1>5, <3>1, <4>2
      <4>3. QED  BY <1>3, <4>1, <4>2
    <3>3. \A i \in 1 .. Len(pending') : c < pending'[i].id  BY <1>4, <1>5, <3>2
    <3>4. c \in 1 .. arrived + 1  BY <1>5, <3>1
    <3>5. QED  BY <3>3, <3>4
  <2>2. CASE c \in Ids(q) \ Ids(pending')
    <3>1. PICK k \in 1 .. Len(pending) + 1 : c = q[k].id  BY <1>3, <2>2 DEF Ids
    <3>2. k <= x
      <4> SUFFICES ASSUME k > x PROVE FALSE  BY <1>3, <1>4
      <4>1. k - x \in 1 .. Len(pending') /\ k - x + x = k  BY <1>3, <1>4
      <4>2. pending'[k - x].id = c  BY <1>4, <3>1, <4>1
      <4>3. QED  BY <2>2, <4>1, <4>2 DEF Ids
    <3>3. \A i \in 1 .. Len(pending') : k < i + x  BY <1>3, <1>4, <3>2
    <3>4. QED  BY <1>3, <1>4, <1>5, <3>1, <3>3
  <2>3. QED  BY <1>1, <1>7, <2>1, <2>2
<1>8. TypeOK'
  <2>1. \A i \in 1 .. Len(decided') : decided'[i] <= arrived'
    BY <1>1, <1>2, <1>5, Parts
  <2>2. lost' \subseteq 1 .. arrived'  BY <1>2, <1>7
  <2>3. QED  BY <1>1, <1>2, <1>4, <2>1, <2>2 DEF TypeOK
<1>9. PendingMatchesArrivals'
  <2>1. \A i \in 1 .. Len(pending') :
            pending'[i].id <= arrived' /\ pending'[i].ready = readyOf'[pending'[i].id]
    BY <1>2, <1>3, <1>4, <1>5, <1>6, SMTT(30)
  <2>2. QED  BY <1>1, <2>1 DEF PendingMatchesArrivals
<1>10. PendingIsBoundedFifo'
  <2>1. ASSUME NEW i \in 1 .. Len(pending'), NEW j \in 1 .. Len(pending'), i < j
        PROVE  pending'[i].id < pending'[j].id
    <3>1. i + x < j + x  BY <1>4, <2>1
    <3>2. QED  BY <1>3, <1>4, <1>5, <3>1
  <2>2. QED  BY <1>4, <2>1 DEF PendingIsBoundedFifo
<1>11. LossTakesOldest'  BY <1>7 DEF LossTakesOldest
<1>12. DecidedCloudsWereReady'
  <2>1. \A i \in 1 .. Len(decided) : readyOf'[decided[i]] = readyOf[decided[i]]
    BY <1>2, Parts
  <2>2. QED  BY <1>1, <2>1 DEF DecidedCloudsWereReady, ImuReached
<1>13. DecidedInArrivalOrder'
  BY <1>1, <1>2 DEF DecidedInArrivalOrder
<1>14. DecidedBeforePending'
  <2> SUFFICES ASSUME ReadyIsMonotone', NEW i \in 1 .. Len(decided),
                      NEW j \in 1 .. Len(pending')
               PROVE  decided[i] < pending'[j].id
    BY <1>1 DEF DecidedBeforePending
  <2>1. \A k \in 1 .. Len(pending) + 1 : decided[i] < q[k].id
    <3> TAKE k \in 1 .. Len(pending) + 1
    <3>1. CASE k \in 1 .. Len(pending)  BY <1>2, <1>3, <3>1 DEF DecidedBeforePending
    <3>2. CASE k = Len(pending) + 1
      <4>1. decided[i] \in 1 .. arrived  BY Parts
      <4>2. QED  BY <1>3, <1>5, <3>2, <4>1
    <3>3. QED  BY <1>3, <3>1, <3>2
  <2>2. QED  BY <1>4, <1>5, <2>1
<1>15. NoReadyCloudWaits'
  <2> SUFFICES ASSUME ReadyIsMonotone', NEW j \in 1 .. Len(pending')
               PROVE  ~ImuReached(pending'[j].ready)
    BY <1>1 DEF NoReadyCloudWaits, ImuReached
  <2>1. \A k \in 1 .. Len(pending) + 1 : ~ImuReached(q[k].ready)
    <3> TAKE k \in 1 .. Len(pending) + 1
    <3>1. CASE k \in 1 .. Len(pending)  BY <1>1, <1>2, <1>3, <3>1 DEF NoReadyCloudWaits
    <3>2. CASE k = Len(pending) + 1  BY <1>1, <1>3, <3>2
    <3>3. QED  BY <1>3, <3>1, <3>2
  <2>2. QED  BY <1>4, <1>5, <2>1
<1>16. QED
  BY <1>8, <1>9, <1>10, <1>11, <1>12, <1>13, <1>14, <1>15

LEMMA NextInv == IInv /\ [Next]_vars => IInv'
<1> SUFFICES ASSUME IInv, [Next]_vars PROVE IInv'  OBVIOUS
<1>1. ASSUME NEW stamp \in ImuStamps, OnImuReceived(stamp) PROVE IInv'
  BY <1>1, ImuStep
<1>2. CASE ProcessReadyPendingCloud  BY <1>2, DrainStep
<1>3. CASE FinishDraining  BY <1>3, FinishStep
<1>4. ASSUME NEW ready \in ReadyStamps, OnLidarReceived(ready) PROVE IInv'
  <2>1. ProcessAtOnce(ready) \/ HoldBack(ready)  BY <1>4 DEF OnLidarReceived
  <2>2. QED  BY <1>4, <2>1, AtOnceStep, HoldBackStep
<1>5. CASE UNCHANGED vars
  BY <1>5 DEF vars, IInv, TypeOK, PendingMatchesArrivals, PendingIsBoundedFifo,
              DecidedCloudsWereReady, LossTakesOldest, DecidedInArrivalOrder,
              DecidedBeforePending, NoReadyCloudWaits, ReadyIsMonotone, ImuReached, arrived
<1>6. QED  BY <1>1, <1>2, <1>3, <1>4, <1>5 DEF Next

THEOREM IndInv == Spec => []IInv
<1>1. QED  BY InitInv, NextInv, PTL DEF Spec

-----------------------------------------------------------------------------
(* The properties the runs check *)

\* The variables of the node hold what they should.
THEOREM TypeCorrect == Spec => []TypeOK
<1>1. IInv => TypeOK  BY DEF IInv
<1>2. QED  BY IndInv, <1>1, PTL

\* The queue keeps to its limit and to the order of arrival.
THEOREM QueueIsBoundedFifo == Spec => []PendingIsBoundedFifo
<1>1. IInv => PendingIsBoundedFifo  BY DEF IInv
<1>2. QED  BY IndInv, <1>1, PTL

\* No cloud is decided before the IMU stream reached its ready stamp.
THEOREM HoldbackHoldsBack == Spec => []DecidedCloudsWereReady
<1>1. IInv => DecidedCloudsWereReady  BY DEF IInv
<1>2. QED  BY IndInv, <1>1, PTL

\* A full queue gives up the oldest clouds.
THEOREM OverflowTakesOldest == Spec => []LossTakesOldest
<1>1. IInv => LossTakesOldest  BY DEF IInv
<1>2. QED  BY IndInv, <1>1, PTL

\* With monotone ready stamps clouds are decided in the order they arrived.
THEOREM MonotoneReadyKeepsOrder == Spec => []DecidedInArrivalOrder
<1>1. IInv => DecidedInArrivalOrder  BY DEF IInv
<1>2. QED  BY IndInv, <1>1, PTL

\* ... and none of them waits longer than it must.
THEOREM MonotoneReadyNeedsNoWait == Spec => []NoReadyCloudWaits
<1>1. IInv => NoReadyCloudWaits  BY DEF IInv
<1>2. QED  BY IndInv, <1>1, PTL

-----------------------------------------------------------------------------
(* Refinement *)

LEMMA LedgerInit == Init => Ledger!Init
<1>1. Init => arrived = 0 /\ Ids(pending) = {}
  <2>1. Init => Len(readyOf) = 0 /\ Len(pending) = 0  BY EmptySeq DEF Init
  <2>2. QED  BY <2>1 DEF Ids, arrived
<1>2. QED  BY <1>1 DEF Init, Ledger!Init

\* Taking the head takes its number and no other.
LEMMA DrainDecidesHeld ==
    ASSUME IInv, ProcessReadyPendingCloud
    PROVE  \E c \in Ids(pending) : Ledger!DecideHeld(c)
<1> DEFINE c == pending[1].id
<1>1. /\ pending \in Seq(PendingClouds) /\ pending # <<>>
      /\ pending' = Tail(pending) /\ decided' = Append(decided, Head(pending).id)
      /\ lost' = lost /\ arrived' = arrived
  BY DEF IInv, TypeOK, ProcessReadyPendingCloud, HeadIsReady, arrived
<1>2. /\ Len(pending) \in Nat \ {0} /\ Head(pending) = pending[1]
      /\ Len(pending') = Len(pending) - 1
      /\ \A i \in 1 .. Len(pending') : pending'[i] = pending[i + 1]
  BY <1>1, PopHead
<1>3. c \in Ids(pending)
  <2>1. 1 \in 1 .. Len(pending)  BY <1>2
  <2>2. QED  BY <2>1 DEF Ids
<1>4. Ids(pending)' = Ids(pending) \ {c}
  <2>1. ASSUME NEW k \in Ids(pending)' PROVE k \in Ids(pending) \ {c}
    <3>1. PICK i \in 1 .. Len(pending') : k = pending'[i].id  BY <2>1 DEF Ids
    <3>2. i + 1 \in 1 .. Len(pending) /\ 1 \in 1 .. Len(pending) /\ 1 < i + 1
      BY <1>2, <3>1
    <3>3. k = pending[i + 1].id  BY <1>2, <3>1
    <3>4. pending[1].id < pending[i + 1].id
      BY <3>2 DEF IInv, PendingIsBoundedFifo
    <3>5. pending[1].id \in Nat /\ pending[i + 1].id \in Nat
      BY <3>2, Parts DEF IInv
    <3>6. k # c  BY <3>3, <3>4, <3>5
    <3>7. QED  BY <3>2, <3>3, <3>6 DEF Ids
  <2>2. ASSUME NEW k \in Ids(pending), k # c PROVE k \in Ids(pending)'
    <3>1. PICK i \in 1 .. Len(pending) : k = pending[i].id  BY <2>2 DEF Ids
    <3>2. i - 1 \in 1 .. Len(pending') /\ (i - 1) + 1 = i
      BY <1>2, <2>2, <3>1
    <3>3. pending'[i - 1].id = k  BY <1>2, <3>1, <3>2
    <3>4. QED  BY <3>2, <3>3 DEF Ids
  <2>3. QED  BY <2>1, <2>2
<1>5. Ledger!DecideHeld(c)
  BY <1>1, <1>2, <1>3, <1>4 DEF Ledger!DecideHeld
<1>6. QED  BY <1>3, <1>5

\* Queueing a cloud adds its number and gives up those the cut took.
LEMMA HoldBackHolds ==
    ASSUME IInv, NEW ready \in ReadyStamps, OnLidarReceived(ready), HoldBack(ready)
    PROVE  Ledger!ArriveAndHold
<1> DEFINE q == Queue(ready)
           x == Excess(q)
           victims == Ids(q) \ Ids(pending')
<1>1. /\ decided' = decided /\ pending' = DropOldest(q)
      /\ lost' = lost \cup victims
  BY DEF OnLidarReceived, HoldBack, Queue
<1>2. arrived' = arrived + 1 /\ arrived \in Nat  BY Arrival, Parts DEF IInv
<1>3. /\ q \in Seq(PendingClouds) /\ Len(pending) \in Nat /\ Len(q) = Len(pending) + 1
      /\ \A i \in 1 .. Len(pending) : q[i] = pending[i]
      /\ q[Len(pending) + 1].id = arrived + 1
  <2>1. q[Len(pending) + 1] = [id |-> arrived + 1, ready |-> ready]  BY QueueFacts
  <2>2. /\ q \in Seq(PendingClouds) /\ Len(pending) \in Nat /\ Len(q) = Len(pending) + 1
        /\ \A i \in 1 .. Len(pending) : q[i] = pending[i]
    BY QueueFacts
  <2> HIDE DEF q
  <2>3. QED  BY <2>1, <2>2
<1> HIDE DEF q
<1>4. /\ x \in 0 .. Len(q) /\ Len(pending') = Len(q) - x /\ Len(pending') > 0
      /\ \A i \in 1 .. Len(pending') : pending'[i] = q[i + x]
  <2>1. Len(q) > 0  BY <1>3
  <2>2. QED  BY <1>1, <1>3, <2>1, CutBack
<1> HIDE DEF x
<1>5. Ids(q) = Ids(pending) \cup {arrived + 1}
  <2>1. ASSUME NEW k \in Ids(q) PROVE k \in Ids(pending) \cup {arrived + 1}
    <3>1. PICK i \in 1 .. Len(pending) + 1 : k = q[i].id  BY <1>3, <2>1 DEF Ids
    <3>2. CASE i \in 1 .. Len(pending)  BY <1>3, <3>1, <3>2 DEF Ids
    <3>3. CASE i = Len(pending) + 1  BY <1>3, <3>1, <3>3
    <3>4. QED  BY <1>3, <3>1, <3>2, <3>3
  <2>2. ASSUME NEW k \in Ids(pending) PROVE k \in Ids(q)
    <3>1. PICK i \in 1 .. Len(pending) : k = pending[i].id  BY <2>2 DEF Ids
    <3>2. i \in 1 .. Len(q) /\ q[i].id = k  BY <1>3, <3>1
    <3>3. QED  BY <3>2 DEF Ids
  <2>3. arrived + 1 \in Ids(q)
    <3>1. Len(pending) + 1 \in 1 .. Len(q)  BY <1>3
    <3>2. QED  BY <1>3, <3>1 DEF Ids
  <2>4. QED  BY <2>1, <2>2, <2>3
<1>6. arrived + 1 \in Ids(pending')
  <2>1. Len(pending') \in 1 .. Len(pending') /\ Len(pending') + x = Len(pending) + 1
    BY <1>3, <1>4
  <2>2. pending'[Len(pending')].id = arrived + 1  BY <1>3, <1>4, <2>1
  <2>3. QED  BY <2>1, <2>2 DEF Ids
<1>7. Ids(pending') \subseteq Ids(q)
  <2> SUFFICES ASSUME NEW k \in Ids(pending') PROVE k \in Ids(q)  OBVIOUS
  <2>1. PICK i \in 1 .. Len(pending') : k = pending'[i].id  BY DEF Ids
  <2>2. i + x \in 1 .. Len(q) /\ q[i + x].id = k  BY <1>3, <1>4, <2>1
  <2>3. QED  BY <2>2 DEF Ids
<1> HIDE DEF victims
<1>8. /\ victims \in SUBSET Ids(pending)
      /\ Ids(pending') = (Ids(pending) \cup {arrived + 1}) \ victims
  BY <1>5, <1>6, <1>7 DEF victims
<1>9. Ids(pending)' = Ids(pending')  BY DEF Ids
<1>10. QED  BY <1>1, <1>2, <1>8, <1>9 DEF Ledger!ArriveAndHold

LEMMA LedgerNext == IInv /\ [Next]_vars => [Ledger!Next]_(Ledger!vars)
<1> SUFFICES ASSUME IInv, [Next]_vars PROVE [Ledger!Next]_(Ledger!vars)  OBVIOUS
<1>1. ASSUME NEW stamp \in ImuStamps, OnImuReceived(stamp)
      PROVE  UNCHANGED Ledger!vars
  BY <1>1 DEF OnImuReceived, Ledger!vars, Ids, arrived
<1>2. CASE ProcessReadyPendingCloud  BY <1>2, DrainDecidesHeld DEF Ledger!Next
<1>3. CASE FinishDraining
  BY <1>3 DEF FinishDraining, Ledger!vars, Ids, arrived
<1>4. ASSUME NEW ready \in ReadyStamps, OnLidarReceived(ready) PROVE Ledger!Next
  <2>1. CASE ProcessAtOnce(ready)
    <3>1. arrived' = arrived + 1  BY <1>4, Arrival DEF IInv
    <3>2. Ids(pending)' = Ids(pending)  BY <2>1 DEF ProcessAtOnce, Ids
    <3>3. Ledger!ArriveAndDecide
      BY <1>4, <2>1, <3>1, <3>2 DEF OnLidarReceived, ProcessAtOnce, Ledger!ArriveAndDecide
    <3>4. QED  BY <3>3 DEF Ledger!Next
  <2>2. CASE HoldBack(ready)  BY <1>4, <2>2, HoldBackHolds DEF Ledger!Next
  <2>3. QED  BY <1>4, <2>1, <2>2 DEF OnLidarReceived
<1>5. CASE UNCHANGED vars  BY <1>5 DEF vars, Ledger!vars, Ids, arrived
<1>6. QED  BY <1>1, <1>2, <1>3, <1>4, <1>5 DEF Next

\* The queue implements the ledger: no cloud is decided twice, none vanishes,
\* none is decided after it was lost.
THEOREM Refinement == Spec => ImplementsLedger
<1>1. QED  BY IndInv, LedgerInit, LedgerNext, PTL DEF Spec, ImplementsLedger, Ledger!Spec

-----------------------------------------------------------------------------
(* The ledger *)

LedgerInv == Ledger!TypeOK /\ Ledger!EveryCloudAccountedFor

LEMMA LedgerInitInv == Ledger!Init => LedgerInv
<1> SUFFICES ASSUME Ledger!Init PROVE LedgerInv  OBVIOUS
<1>1. Len(decided) = 0  BY DEF Ledger!Init
<1>2. QED  BY <1>1
           DEF Ledger!Init, LedgerInv, Ledger!TypeOK, Ledger!EveryCloudAccountedFor, Ledger!DecidedClouds

\* The clouds decided after c is appended to them.
LEMMA DecidedGrows ==
    ASSUME Ledger!TypeOK, NEW c \in Nat \ {0}, c \notin Ledger!DecidedClouds,
           decided' = Append(decided, c),
           \A i, j \in 1 .. Len(decided) : decided[i] = decided[j] => i = j
    PROVE  /\ decided' \in Seq(Nat \ {0})
           /\ Ledger!DecidedClouds' = Ledger!DecidedClouds \cup {c}
           /\ \A i, j \in 1 .. Len(decided') : decided'[i] = decided'[j] => i = j
           /\ \A i \in 1 .. Len(decided') : decided'[i] <= arrived \/ decided'[i] = c
<1>1. /\ decided' \in Seq(Nat \ {0})
      /\ Len(decided) \in Nat
      /\ Len(decided') = Len(decided) + 1
      /\ \A i \in 1 .. Len(decided) : decided'[i] = decided[i]
      /\ decided'[Len(decided) + 1] = c
  BY AppendOne DEF Ledger!TypeOK
<1>2. Ledger!DecidedClouds' = Ledger!DecidedClouds \cup {c}
  <2>1. ASSUME NEW x \in Ledger!DecidedClouds' PROVE x \in Ledger!DecidedClouds \cup {c}
    BY <1>1, <2>1 DEF Ledger!DecidedClouds
  <2>2. ASSUME NEW x \in Ledger!DecidedClouds PROVE x \in Ledger!DecidedClouds'
    <3>1. PICK i \in 1 .. Len(decided) : x = decided[i]  BY <2>2 DEF Ledger!DecidedClouds
    <3>2. i \in 1 .. Len(decided') /\ decided'[i] = x  BY <1>1, <3>1
    <3>3. QED  BY <3>2 DEF Ledger!DecidedClouds
  <2>3. c \in Ledger!DecidedClouds'
    <3>1. Len(decided) + 1 \in 1 .. Len(decided')  BY <1>1
    <3>2. QED  BY <1>1, <3>1 DEF Ledger!DecidedClouds
  <2>4. QED  BY <2>1, <2>2, <2>3
<1>3. \A i \in 1 .. Len(decided) : decided[i] # c  BY DEF Ledger!DecidedClouds
<1>4. \A i, j \in 1 .. Len(decided') : decided'[i] = decided'[j] => i = j
  <2> TAKE i, j \in 1 .. Len(decided')
  <2>1. CASE i \in 1 .. Len(decided) /\ j \in 1 .. Len(decided)  BY <1>1, <2>1
  <2>2. CASE i \notin 1 .. Len(decided) \/ j \notin 1 .. Len(decided)
    BY <1>1, <1>3, <2>2
  <2>3. QED  BY <2>1, <2>2
<1>5. \A i \in 1 .. Len(decided') : decided'[i] <= arrived \/ decided'[i] = c
  BY <1>1 DEF Ledger!TypeOK
<1>6. QED  BY <1>1, <1>2, <1>4, <1>5

LEMMA LedgerNextInv == LedgerInv /\ [Ledger!Next]_(Ledger!vars) => LedgerInv'
<1> SUFFICES ASSUME LedgerInv, [Ledger!Next]_(Ledger!vars) PROVE LedgerInv'  OBVIOUS
<1>0. /\ arrived \in Nat
      /\ \A c \in Ledger!DecidedClouds : c \in 1 .. arrived
  <2>1. arrived \in Nat  BY DEF LedgerInv, Ledger!TypeOK
  <2>2. ASSUME NEW c \in Ledger!DecidedClouds PROVE c \in 1 .. arrived
    <3>1. PICK i \in 1 .. Len(decided) : c = decided[i]  BY DEF Ledger!DecidedClouds
    <3>2. decided[i] \in Nat \ {0}  BY ElementOfSeq DEF LedgerInv, Ledger!TypeOK
    <3>3. QED  BY <2>1, <3>1, <3>2 DEF LedgerInv, Ledger!TypeOK
  <2>3. QED  BY <2>1, <2>2
<1>1. CASE Ledger!ArriveAndDecide
  <2> DEFINE c == arrived + 1
  <2>1. c \in Nat \ {0} /\ c \notin Ledger!DecidedClouds  BY <1>0
  <2>2. /\ decided' \in Seq(Nat \ {0})
        /\ Ledger!DecidedClouds' = Ledger!DecidedClouds \cup {c}
        /\ \A i, j \in 1 .. Len(decided') : decided'[i] = decided'[j] => i = j
        /\ \A i \in 1 .. Len(decided') : decided'[i] <= arrived \/ decided'[i] = c
    <3>1. decided' = Append(decided, c)  BY <1>1 DEF Ledger!ArriveAndDecide
    <3>2. QED  BY <2>1, <3>1, DecidedGrows DEF LedgerInv, Ledger!EveryCloudAccountedFor
  <2>3. \A i \in 1 .. Len(decided') : decided'[i] <= arrived'
    <3>1. \A i \in 1 .. Len(decided') : decided'[i] \in Nat
      BY <2>2, ElementOfSeq
    <3>2. QED  BY <1>0, <1>1, <2>2, <3>1 DEF Ledger!ArriveAndDecide
  <2>4. Ledger!TypeOK'
    BY <1>0, <1>1, <2>2, <2>3 DEF Ledger!ArriveAndDecide, LedgerInv, Ledger!TypeOK
  <2>5. 1 .. arrived' = 1 .. arrived \cup {c}  BY <1>0, <1>1 DEF Ledger!ArriveAndDecide
  <2>6. c \notin Ids(pending) /\ c \notin lost  BY <1>0 DEF LedgerInv, Ledger!TypeOK
  <2>7. Ledger!EveryCloudAccountedFor'
    BY <1>1, <2>2, <2>5, <2>6 DEF Ledger!ArriveAndDecide, LedgerInv, Ledger!EveryCloudAccountedFor
  <2>8. QED  BY <2>4, <2>7 DEF LedgerInv
<1>2. CASE Ledger!ArriveAndHold
  <2> DEFINE c == arrived + 1
  <2>1. PICK victims \in SUBSET Ids(pending) :
            /\ Ids(pending)' = (Ids(pending) \cup {c}) \ victims
            /\ lost' = lost \cup victims
    BY <1>2 DEF Ledger!ArriveAndHold
  <2>2. Ledger!DecidedClouds' = Ledger!DecidedClouds  BY <1>2 DEF Ledger!ArriveAndHold, Ledger!DecidedClouds
  <2>3. Ledger!TypeOK'
    <3>1. \A i \in 1 .. Len(decided) : decided[i] \in Nat
      BY ElementOfSeq DEF LedgerInv, Ledger!TypeOK
    <3>2. arrived' = arrived + 1 /\ decided' = decided
      BY <1>2 DEF Ledger!ArriveAndHold
    <3>3. Ids(pending) \subseteq 1 .. arrived /\ lost \subseteq 1 .. arrived
      BY DEF LedgerInv, Ledger!TypeOK
    <3>4. Ids(pending)' \subseteq 1 .. arrived' /\ lost' \subseteq 1 .. arrived'
      <4> DEFINE range == 1 .. arrived'
      <4>1. 1 .. arrived \subseteq range /\ c \in range
        BY <1>0, <3>2
      <4> HIDE DEF range
      <4>2. Ids(pending)' \subseteq range /\ lost' \subseteq range
        BY <2>1, <3>3, <4>1
      <4> QED  BY <4>2 DEF range
    <3>5. decided' \in Seq(Nat \ {0}) /\ \A i \in 1 .. Len(decided') : decided'[i] <= arrived'
      BY <1>0, <3>1, <3>2 DEF LedgerInv, Ledger!TypeOK
    <3>6. QED  BY <1>0, <3>2, <3>4, <3>5 DEF Ledger!TypeOK
  <2>4. 1 .. arrived' = 1 .. arrived \cup {c}  BY <1>0, <1>2 DEF Ledger!ArriveAndHold
  <2>5. c \notin Ledger!DecidedClouds /\ c \notin lost /\ c \notin Ids(pending)
    BY <1>0 DEF LedgerInv, Ledger!TypeOK
  <2>6. Ledger!EveryCloudAccountedFor'
    BY <1>2, <2>1, <2>2, <2>4, <2>5 DEF Ledger!ArriveAndHold, LedgerInv, Ledger!EveryCloudAccountedFor
  <2>7. QED  BY <2>3, <2>6 DEF LedgerInv
<1>3. ASSUME NEW c \in Ids(pending), Ledger!DecideHeld(c) PROVE LedgerInv'
  <2>1. c \in Nat \ {0} /\ c <= arrived  BY <1>0 DEF LedgerInv, Ledger!TypeOK
  <2>2. c \notin Ledger!DecidedClouds  BY DEF LedgerInv, Ledger!EveryCloudAccountedFor
  <2>3. /\ decided' \in Seq(Nat \ {0})
        /\ Ledger!DecidedClouds' = Ledger!DecidedClouds \cup {c}
        /\ \A i, j \in 1 .. Len(decided') : decided'[i] = decided'[j] => i = j
        /\ \A i \in 1 .. Len(decided') : decided'[i] <= arrived \/ decided'[i] = c
    <3>1. decided' = Append(decided, c)  BY <1>3 DEF Ledger!DecideHeld
    <3>2. QED  BY <2>1, <2>2, <3>1, DecidedGrows DEF LedgerInv, Ledger!EveryCloudAccountedFor
  <2>4. Ledger!TypeOK'  BY <1>3, <2>1, <2>3 DEF Ledger!DecideHeld, LedgerInv, Ledger!TypeOK
  <2>5. Ledger!EveryCloudAccountedFor'
    BY <1>3, <2>3 DEF Ledger!DecideHeld, LedgerInv, Ledger!EveryCloudAccountedFor
  <2>6. QED  BY <2>4, <2>5 DEF LedgerInv
<1>4. CASE UNCHANGED Ledger!vars
  BY <1>4 DEF Ledger!vars, LedgerInv, Ledger!TypeOK, Ledger!EveryCloudAccountedFor, Ledger!DecidedClouds
<1>5. QED  BY <1>1, <1>2, <1>3, <1>4 DEF Ledger!Next

\* Every received cloud is held, decided or lost, exactly one of the three,
\* and decided at most once: in every behaviour of the ledger (CloudLedger).
THEOREM LedgerIsComplete == Ledger!Spec => []Ledger!EveryCloudAccountedFor
<1>1. LedgerInv => Ledger!EveryCloudAccountedFor  BY DEF LedgerInv
<1>2. QED  BY LedgerInitInv, LedgerNextInv, <1>1, PTL DEF Ledger!Spec

\* Every received cloud is pending, decided or lost, exactly one of the three,
\* and decided at most once - what the ledger guarantees holds of the queue.
THEOREM NodeLedgerIsComplete == Spec => []EveryCloudAccountedFor
<1>1. QED  BY Refinement, LedgerIsComplete DEF ImplementsLedger, EveryCloudAccountedFor
=============================================================================

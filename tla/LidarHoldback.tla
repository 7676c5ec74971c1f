--------------------------- MODULE LidarHoldback ---------------------------
(***************************************************************************)
(* The holdback queue of TemporalMonitorNode                               *)
(* (apps/ros2/temporal_monitor_node.cc): a cloud whose scan window the IMU *)
(* stream has not reached yet waits in a bounded queue until it has.  What *)
(* ready stamp a cloud gets and what deciding it means is left to          *)
(* TemporalMonitorNode; here a cloud arrives with any ready stamp.         *)
(*                                                                         *)
(* The node's callbacks run one at a time.  OnImuReceived ends in the loop *)
(* ProcessReadyPendingLidarClouds, whose iterations publish and so are     *)
(* steps of their own; "draining" says that the loop is running, and no    *)
(* other callback starts before it ends.                                   *)
(***************************************************************************)
EXTENDS Integers, Sequences

CONSTANTS HoldbackEnabled,   \* lidar_holdback_enabled
          MaxPending,        \* lidar_holdback_max_pending
          ImuStamps,         \* header stamps of IMU messages
          ReadyStamps,       \* ready stamps clouds may get
          MaxClouds,         \* bound on the clouds received
          NoStamp            \* the value of an empty optional

ASSUME HoldbackAssumption ==
    /\ HoldbackEnabled \in BOOLEAN
    /\ MaxPending \in Nat \ {0}
    /\ ImuStamps \subseteq Int
    /\ ReadyStamps \subseteq Int
    /\ MaxClouds \in Nat
    /\ NoStamp \notin Int

VARIABLES latestImu,   \* latest_imu_header_stamp_ns_
          pending,     \* pending_lidar_clouds_, each with its number and ready stamp
          draining,    \* inside ProcessReadyPendingLidarClouds
          readyOf,     \* history: the ready stamp of every cloud received
          decided,     \* history: the clouds passed to ProcessLidarCloud, in order
          lost         \* history: the clouds dropped from the queue

vars == <<latestImu, pending, draining, readyOf, decided, lost>>

PendingClouds == [id : Nat \ {0}, ready : ReadyStamps]

arrived == Len(readyOf)
ImuReached(stamp) == latestImu # NoStamp /\ latestImu >= stamp
HeadIsReady == pending # <<>> /\ ImuReached(Head(pending).ready)

Init ==
    /\ latestImu = NoStamp
    /\ pending = <<>>
    /\ draining = FALSE
    /\ readyOf = <<>>
    /\ decided = <<>>
    /\ lost = {}

\* Slip: the latest stamp follows every message, not the largest one.
OnImuReceived_TakesLast(stamp) ==
    /\ ~draining
    /\ latestImu' = stamp
    /\ draining' = TRUE
    /\ UNCHANGED <<pending, readyOf, decided, lost>>

OnImuReceived(stamp) ==
    /\ ~draining
    /\ latestImu' = IF latestImu = NoStamp \/ stamp > latestImu THEN stamp ELSE latestImu
    /\ draining' = TRUE
    /\ UNCHANGED <<pending, readyOf, decided, lost>>

\* One iteration of the loop.
ProcessReadyPendingCloud ==
    /\ draining
    /\ HeadIsReady
    /\ pending' = Tail(pending)
    /\ decided' = Append(decided, Head(pending).id)
    /\ UNCHANGED <<latestImu, draining, readyOf, lost>>

\* Slip: the loop body runs at most once per IMU message.
FinishDraining_AfterOne ==
    /\ draining
    /\ draining' = FALSE
    /\ UNCHANGED <<latestImu, pending, readyOf, decided, lost>>

FinishDraining ==
    /\ draining
    /\ ~HeadIsReady
    /\ draining' = FALSE
    /\ UNCHANGED <<latestImu, pending, readyOf, decided, lost>>

\* How many clouds DropOldestPendingLidarCloudsIfNeeded pops from a queue.
Excess(queue) == IF Len(queue) > MaxPending THEN Len(queue) - MaxPending ELSE 0

\* Slip: the newest clouds go.
DropOldest_DropsNewest(queue) == SubSeq(queue, 1, Len(queue) - Excess(queue))

DropOldest(queue) == SubSeq(queue, Excess(queue) + 1, Len(queue))

Ids(queue) == {queue[i].id : i \in 1 .. Len(queue)}

\* A cloud that need not wait is processed at once, before the pending ones.
ProcessAtOnce(ready) ==
    /\ ~HoldbackEnabled \/ ImuReached(ready)
    /\ decided' = Append(decided, arrived + 1)
    /\ UNCHANGED <<pending, lost>>

\* Slip: the clouds dropped from a full queue are decided after all.
HoldBack_DecidesDropped(ready) ==
    /\ HoldbackEnabled /\ ~ImuReached(ready)
    /\ LET queue == Append(pending, [id |-> arrived + 1, ready |-> ready])
       IN  /\ pending' = DropOldest(queue)
           /\ decided' = IF Excess(queue) = 0 THEN decided
                         ELSE Append(decided, Head(queue).id)
           /\ lost' = lost \cup (Ids(queue) \ Ids(DropOldest(queue)))

\* Any other one is queued, and the queue cut back to its limit.
HoldBack(ready) ==
    /\ HoldbackEnabled /\ ~ImuReached(ready)
    /\ LET queue == Append(pending, [id |-> arrived + 1, ready |-> ready])
       IN  /\ pending' = DropOldest(queue)
           /\ lost' = lost \cup (Ids(queue) \ Ids(DropOldest(queue)))
    /\ UNCHANGED decided

OnLidarReceived(ready) ==
    /\ ~draining
    /\ arrived < MaxClouds
    /\ readyOf' = Append(readyOf, ready)
    /\ ProcessAtOnce(ready) \/ HoldBack(ready)
    /\ UNCHANGED <<latestImu, draining>>

Next ==
    \/ \E stamp \in ImuStamps : OnImuReceived(stamp)
    \/ ProcessReadyPendingCloud
    \/ FinishDraining
    \/ \E ready \in ReadyStamps : OnLidarReceived(ready)

Spec == Init /\ [][Next]_vars

\* A callback that has started runs to its end.
Fairness == WF_vars(ProcessReadyPendingCloud) /\ WF_vars(FinishDraining)

FairSpec == Spec /\ Fairness
-----------------------------------------------------------------------------
TypeOK ==
    /\ latestImu \in ImuStamps \cup {NoStamp}
    /\ pending \in Seq(PendingClouds)
    /\ draining \in BOOLEAN
    /\ readyOf \in Seq(ReadyStamps)
    /\ decided \in Seq(Nat \ {0})
    /\ \A i \in 1 .. Len(decided) : decided[i] <= arrived
    /\ lost \subseteq 1 .. arrived

\* However IMU messages and clouds interleave, the queue keeps to its limit
\* and holds the clouds in the order they arrived.
PendingIsBoundedFifo ==
    /\ Len(pending) <= MaxPending
    /\ \A i, j \in 1 .. Len(pending) : i < j => pending[i].id < pending[j].id

\* Holdback means what it says: a cloud is only decided when the IMU stream
\* has reached the ready stamp it was given on arrival, whether it was decided
\* on arrival, from the queue, or in a drain that a later message started.
DecidedCloudsWereReady ==
    HoldbackEnabled =>
        \A i \in 1 .. Len(decided) : ImuReached(readyOf[decided[i]])

\* Only the oldest clouds are given up: whatever is still queued arrived later
\* than every cloud the queue lost.
LossTakesOldest ==
    \A c \in lost, i \in 1 .. Len(pending) : c < pending[i].id

\* The ready stamps never decrease from one cloud to the next.
ReadyIsMonotone ==
    \A i, j \in 1 .. Len(readyOf) : i < j => readyOf[i] <= readyOf[j]

\* While they do not, clouds are decided in the order they arrived - a cloud
\* that is ready on arrival overtakes nothing.
DecidedInArrivalOrder ==
    ReadyIsMonotone =>
        \A i, j \in 1 .. Len(decided) : i < j => decided[i] < decided[j]

\* ... and between two callbacks no cloud of the queue is ready.
NoReadyCloudWaits ==
    ReadyIsMonotone /\ ~draining =>
        \A i \in 1 .. Len(pending) : ~ImuReached(pending[i].ready)

\* The node does what the abstract ledger allows: no cloud is decided twice,
\* none vanishes, none is decided after it was lost.
Ledger == INSTANCE CloudLedger
    WITH arrived <- arrived, held <- Ids(pending), decided <- decided, lost <- lost

ImplementsLedger == Ledger!Spec

EveryCloudAccountedFor == Ledger!EveryCloudAccountedFor

\* The IMU stream goes on: again and again a message arrives when the stream
\* has passed every ready stamp.
ImuStreamGoesOn == []<>(draining /\ \A ready \in ReadyStamps : ImuReached(ready))

\* Then no cloud waits for ever - one that is not at the head of the queue
\* neither, nor one whose ready stamp is behind an unready head's.
EveryCloudIsSettled ==
    ImuStreamGoesOn =>
        \A c \in 1 .. MaxClouds : (c \in Ids(pending)) ~> (c \notin Ids(pending))
=============================================================================

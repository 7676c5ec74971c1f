---------------------------- MODULE StatusBridge ----------------------------
(***************************************************************************)
(* The path of a verdict from the monitor to /diagnostics.  The monitor    *)
(* publishes each verdict on one topic per field                           *)
(* (PublishDiagnosticTopics); temporal_status_bridge_node.cc subscribes to *)
(* the topics one by one, keeps the latest message of each and, on a timer *)
(* of its own, sums them up in one diagnostic status.                      *)
(*                                                                         *)
(* The monitor's writer of a topic keeps its last message (QoS{1}, for     *)
(* subscribers to come).  What was published and not yet given to the      *)
(* bridge, on its way or in the queue of the bridge's reader, is a queue:  *)
(* older messages may still be in it after a newer one was published.  The *)
(* reader has the default QoS, so a message may be lost; a topic keeps the *)
(* order of the others.  Each message carries the whole verdict it belongs *)
(* to, of which the bridge reads the field the topic is named for.  The    *)
(* topics for the reason, the faults and the JSON, which the bridge copies *)
(* without looking at them, are left out.                                  *)
(***************************************************************************)
EXTENDS Sequences, LidarCloudGate

CONSTANTS
    None,        \* no message
    Depth,       \* how many messages of a topic can be under way at once
    Judgements   \* the snapshots that occur: their health, and whether one of
                 \* the issues is a hard blocker

ASSUME DepthAssumption == Depth \in Nat \ {0}

\* A hard blocker is an issue, so a snapshot with one is never OK.
ASSUME JudgementsAssumption ==
    Judgements \subseteq
        {j \in [health : Statuses, blocker : BOOLEAN] : j.blocker => j.health # "OK"}

VARIABLES
    verdict,   \* what the monitor publishes, or published last
    unsent,    \* the topics PublishDiagnosticTopics has still to publish it on
    held,      \* what the monitor's writer holds, by topic: its last message
    underWay,  \* the messages the bridge has still to get, by topic, oldest first
    latest,    \* latest_allowed_, latest_health_ and whether there is one
    status     \* the status the bridge published last

bridgeVars == <<verdict, unsent, held, underWay, latest, status>>

Topics == {"map_update_allowed", "temporal_health"}
Empty == [t \in Topics |-> None]

\* What the node publishes of each.
Verdicts ==
    {[health  |-> j.health,
      allowed |-> DecideMapUpdate(j.health, j.blocker).allowed] : j \in Judgements}

ASSUME NoneAssumption == None \notin Verdicts

BridgeInit ==
    /\ verdict = None
    /\ unsent = <<>>
    /\ held = Empty
    /\ underWay = [t \in Topics |-> <<>>]
    /\ latest = Empty
    /\ status = None

\* A cloud or the timer gives the monitor a verdict to publish.
Decide(v) ==
    /\ unsent = <<>>
    /\ verdict' = v
    /\ unsent' = <<"map_update_allowed", "temporal_health">>
    /\ UNCHANGED <<held, underWay, latest, status>>

\* A queue that is full loses its oldest message to a new one.
Queued(queue, message) ==
    Append(IF Len(queue) < Depth THEN queue ELSE Tail(queue), message)

\* The next of its topics gets the verdict.
PublishNext ==
    /\ unsent # <<>>
    /\ held' = [held EXCEPT ![Head(unsent)] = verdict]
    /\ underWay' = [underWay EXCEPT ![Head(unsent)] = Queued(@, verdict)]
    /\ unsent' = Tail(unsent)
    /\ UNCHANGED <<verdict, latest, status>>

\* The monitor is killed, maybe between two topics, and started anew, with new
\* writers: what was sent stays sent.
MonitorDies ==
    /\ verdict' = None
    /\ unsent' = <<>>
    /\ held' = Empty
    /\ UNCHANGED <<underWay, latest, status>>

Lose(t) ==
    /\ underWay[t] # <<>>
    /\ underWay' = [underWay EXCEPT ![t] = Tail(@)]
    /\ UNCHANGED <<verdict, unsent, held, latest, status>>

\* Slip: the callback keeps the first message it got.
Deliver_KeepsFirst(t) ==
    /\ underWay[t] # <<>>
    /\ latest' = [latest EXCEPT ![t] = IF @ = None THEN Head(underWay[t]) ELSE @]
    /\ underWay' = [underWay EXCEPT ![t] = Tail(@)]
    /\ UNCHANGED <<verdict, unsent, held, status>>

\* The subscription callback of a topic.
Deliver(t) ==
    /\ underWay[t] # <<>>
    /\ latest' = [latest EXCEPT ![t] = Head(underWay[t])]
    /\ underWay' = [underWay EXCEPT ![t] = Tail(@)]
    /\ UNCHANGED <<verdict, unsent, held, status>>

\* Slip: whatever is allowed and not OK is a warning.
Level_WarnsWhenAllowed(health, allowed) ==
    IF health = "OK" /\ allowed THEN "OK" ELSE IF allowed THEN "WARN" ELSE "ERROR"

Level(health, allowed) ==
    IF health = "OK" /\ allowed THEN "OK"
    ELSE IF health = "WARNING" /\ allowed THEN "WARN"
    ELSE "ERROR"

Message(level) ==
    [OK |-> "map_update_allowed", WARN |-> "map_update_allowed_with_warning",
     ERROR |-> "map_update_blocked", STALE |-> "waiting_for_temporal_gate_status"][level]

\* The timer of the bridge.
PublishDiagnostics ==
    LET level == IF \E t \in Topics : latest[t] = None THEN "STALE"
                 ELSE Level(latest["temporal_health"].health,
                            latest["map_update_allowed"].allowed)
    IN  /\ status' = [level |-> level, message |-> Message(level)]
        /\ UNCHANGED <<verdict, unsent, held, underWay, latest>>

BridgeNext ==
    \/ \E v \in Verdicts : Decide(v)
    \/ PublishNext
    \/ \E t \in Topics : Lose(t) \/ Deliver(t)
    \/ MonitorDies
    \/ PublishDiagnostics

BridgeSpec == BridgeInit /\ [][BridgeNext]_bridgeVars
-----------------------------------------------------------------------------
BridgeTypeOK ==
    /\ verdict \in Verdicts \cup {None}
    /\ unsent \in {<<>>, <<"temporal_health">>, <<"map_update_allowed", "temporal_health">>}
    /\ unsent # <<>> => verdict # None
    /\ held \in [Topics -> Verdicts \cup {None}]
    /\ underWay \in [Topics -> Seq(Verdicts)]
    /\ \A t \in Topics : Len(underWay[t]) <= Depth
    /\ latest \in [Topics -> Verdicts \cup {None}]
    /\ status \in {None} \cup {[level |-> level, message |-> Message(level)] :
                                   level \in {"OK", "WARN", "ERROR", "STALE"}}

\* The fields the bridge joins may stem from two verdicts.  It never makes up a
\* reassurance of them: when it announces OK or WARN, both verdicts it took the
\* fields from allowed the map update, and the health is the one it announces.
NoFalseReassurance ==
    [][status' # status /\ status'.level \in {"OK", "WARN"} =>
          /\ \A t \in Topics : latest[t].allowed
          /\ latest["temporal_health"].health
                = (IF status'.level = "OK" THEN "OK" ELSE "WARNING")]_bridgeVars

\* Nor does it make up an alarm of its own: at ERROR, one of the verdicts it
\* holds is worse than a WARNING.
NoFalseAlarm ==
    [][status' # status /\ status'.level = "ERROR" =>
          \E t \in Topics : latest[t].health \in {"DEGRADED", "INVALID"}]_bridgeVars

\* "map_update_blocked" is only said of a verdict that blocks the map update:
\* not so, a DEGRADED one without a hard blocker allows it and is reported so.
BlockedIsSaidOfABlockingVerdict ==
    [][status' # status /\ status'.message = "map_update_blocked" =>
          \E t \in Topics : ~latest[t].allowed]_bridgeVars
=============================================================================

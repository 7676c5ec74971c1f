--------------------------- MODULE PointTimeField ---------------------------
(***************************************************************************)
(* domain/sensors/pointcloud: which field of a cloud holds the time of its *)
(* points (point_cloud2_field_inspector.cc), and the scan window those     *)
(* times span (point_cloud2_time_field_extractor.cc).                      *)
(*                                                                         *)
(* A field is a record [name, datatype, offset], names in lower case.  A   *)
(* cloud is a record [header, fields, values]: values[o] is the set of     *)
(* convertible numbers found at offset o of its points, in ticks; an       *)
(* offset outside DOMAIN values lies beyond the point or the data.         *)
(***************************************************************************)
EXTENDS Integers, Sequences, FiniteSetsExt

CONSTANTS
    PointTimeConfig,   \* PointCloud2TimeFieldOverrideConfig
    NoScan,            \* the value of an empty optional scan window
    NoField            \* ... and of an empty optional field

DetectTimeFieldRole(name) ==
    CASE name \in {"timestamp", "time"} -> "point_time"
      [] name \in {"t", "offset_time", "time_offset", "offsettime"} -> "point_offset_time"
      [] name \in {"timesecond", "time_second", "time_s"} -> "split_time_second"
      [] name \in {"timenanosecond", "time_nanosecond", "time_ns"} -> "split_time_nanosecond"
      [] OTHER -> "none"

\* The role of the field named in the configuration, when its interpretation
\* is left open: by its name, else guessed from the configured unit.
GuessedRole(name) ==
    CASE DetectTimeFieldRole(name) # "none"     -> DetectTimeFieldRole(name)
      [] PointTimeConfig.unit = "nanoseconds" -> "point_offset_time"
      [] PointTimeConfig.unit = "seconds"     -> "point_time"
      [] OTHER                                -> "none"

ResolveTimeFieldRole(field) ==
    CASE PointTimeConfig.mode = "disabled" -> "none"
      [] PointTimeConfig.mode = "auto"     -> DetectTimeFieldRole(field.name)
      [] OTHER ->
            IF field.name # PointTimeConfig.field THEN "none"
            ELSE CASE PointTimeConfig.interpretation = "absolute" -> "point_time"
                   [] PointTimeConfig.interpretation = "relative" -> "point_offset_time"
                   [] OTHER -> GuessedRole(field.name)

\* The datatypes whose values the extractor converts, by the role of the field.
IsConvertible(role, datatype) ==
    \/ role = "point_time" /\ datatype = "FLOAT64"
    \/ role = "point_offset_time" /\ datatype \in {"FLOAT32", "FLOAT64", "INT32", "UINT32"}

IsSupportedTimeField(field) == IsConvertible(ResolveTimeFieldRole(field), field.datatype)

\* Inspect: the first supported field is the primary one.  A field named in
\* the configuration counts as a candidate even when the cloud lacks it.
Inspect(fields) ==
    LET supported == {i \in DOMAIN fields : IsSupportedTimeField(fields[i])}
        named     == PointTimeConfig.mode = "explicit" /\ PointTimeConfig.field # ""
    IN  [primary   |-> IF supported = {} THEN NoField ELSE fields[Min(supported)],
         candidate |-> named \/ \E i \in DOMAIN fields :
                                    ResolveTimeFieldRole(fields[i]) # "none"]

\* Slip: offsets are taken for absolute times.
PointTimes_AllAbsolute(cloud, field) ==
    IF field.offset \in DOMAIN cloud.values THEN cloud.values[field.offset] ELSE {}

\* The times of the points by a field taken to have this role: what is found at
\* its offset, or the header and that.
TimesByRole(cloud, field, role) ==
    LET raw == IF field.offset \in DOMAIN cloud.values /\ IsConvertible(role, field.datatype)
               THEN cloud.values[field.offset] ELSE {}
    IN  IF role = "point_time" THEN raw ELSE {cloud.header + offset : offset \in raw}

\* ... by a field chosen by Inspect, of this cloud or of another one: the field
\* brings its role, its datatype and its offset along.
PointTimes(cloud, field) == TimesByRole(cloud, field, ResolveTimeFieldRole(field))

\* Extract: from the earliest to the latest point, NoScan when no point has a
\* time.  Points that all have the same time give a window of length zero.
WindowOf(times) == IF times = {} THEN NoScan ELSE [start |-> Min(times), end |-> Max(times)]

Extract(cloud, field) == WindowOf(PointTimes(cloud, field))
=============================================================================
